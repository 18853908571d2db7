----------------------------- MODULE DrmProofs -----------------------------
(***************************************************************************)
(* Proofs about the two modules of the DRM backend.                        *)
(*                                                                         *)
(* Outputs, for any number of connectors, CRTCs and moves: the CRTC maps   *)
(* and the space agree at every point of every scan, a scan disconnects    *)
(* only what has a reason to go, and it ends with the right outputs lit,   *)
(* but for those that found no CRTC.  Then Repaint, for any number of      *)
(* kicks and moves: the chain of an output never stalls and never forks.   *)
(***************************************************************************)
EXTENDS Outputs, Repaint, ListProofs

Output == [conn : Connector, x : Nat, w : Widths, lit : BOOLEAN]

\* The rendered outputs of connector c among those of s.
LitOf(s, c) == {o \in ToSet(s) : o.lit /\ o.conn = c}

LitCount(s, c) == Cardinality({i \in DOMAIN s : s[i].lit /\ s[i].conn = c})

-----------------------------------------------------------------------------
(* The lists *)

\* A list holds its head and what its tail holds.
LEMMA HeadAndTail ==
    ASSUME NEW S, NEW s \in Seq(S), s # <<>>
    PROVE  ToSet(s) = {Head(s)} \union ToSet(Tail(s))
<1>1. /\ Tail(s) \in Seq(S) /\ Len(Tail(s)) = Len(s) - 1 /\ Len(s) \in Nat /\ Len(s) > 0
      /\ \A i \in 1..(Len(s) - 1) : Tail(s)[i] = s[i + 1]
  OBVIOUS
<1>2. ASSUME NEW c \in ToSet(s) PROVE c = Head(s) \/ c \in ToSet(Tail(s))
  <2>1. PICK i \in 1..Len(s) : c = s[i]
    BY DEF ToSet
  <2>2. CASE i = 1
    BY <2>1, <2>2
  <2>3. CASE i > 1
    <3>1. i - 1 \in DOMAIN Tail(s) /\ Tail(s)[i - 1] = c
      BY <1>1, <2>1, <2>3
    <3>2. QED
      BY <3>1 DEF ToSet
  <2>4. QED
    BY <1>1, <2>1, <2>2, <2>3
<1>3. ASSUME NEW c \in ToSet(Tail(s)) PROVE c \in ToSet(s)
  <2>1. PICK i \in 1..(Len(s) - 1) : c = Tail(s)[i]
    BY <1>1 DEF ToSet
  <2>2. i + 1 \in DOMAIN s /\ s[i + 1] = c
    BY <1>1, <2>1
  <2>3. QED
    BY <2>2 DEF ToSet
<1>4. Head(s) \in ToSet(s)
  BY <1>1 DEF ToSet
<1>5. QED
  BY <1>2, <1>3, <1>4

\* What an appended list holds.
LEMMA AppendElements ==
    ASSUME NEW S, NEW s \in Seq(S), NEW e \in S
    PROVE  ToSet(Append(s, e)) = ToSet(s) \union {e}
<1>1. /\ Len(s) \in Nat /\ DOMAIN s = 1..Len(s) /\ DOMAIN Append(s, e) = 1..(Len(s) + 1)
      /\ Append(s, e)[Len(s) + 1] = e
      /\ \A i \in 1..Len(s) : Append(s, e)[i] = s[i]
  OBVIOUS
<1>2. QED
  BY <1>1 DEF ToSet

\* The row of outputs has a width.
LEMMA TotalWidthType ==
    ASSUME NEW s \in Seq(Output)
    PROVE  TotalWidth(s) \in Nat
<1>1. [i \in DOMAIN s |-> s[i].w] \in Seq(Nat)
  <2>1. ASSUME NEW i \in DOMAIN s PROVE s[i].w \in Nat
    <3>1. s[i] \in Output
      OBVIOUS
    <3>2. s[i].w \in Widths
      BY <3>1 DEF Output
    <3>3. QED
      BY <3>2, WidthsAssumption
  <2>2. Len(s) \in Nat /\ DOMAIN s = 1..Len(s)
    OBVIOUS
  <2>3. QED
    BY <2>1, <2>2
<1>2. QED
  BY <1>1, TotalType DEF TotalWidth

\* The count of an output's places is that of the places of the lit outputs of its
\* connector.
LEMMA LitCountKept ==
    ASSUME NEW s, NEW c
    PROVE  LitCount(s, c) = Cardinality(Kept(s, LitOf(s, c)))
<1>1. {i \in DOMAIN s : s[i].lit /\ s[i].conn = c} = Kept(s, LitOf(s, c))
  BY DEF Kept, LitOf, ToSet
<1>2. QED
  BY <1>1 DEF LitCount

\* A new output counts for its own connector, and only when it is lit.
LEMMA LitCountAppend ==
    ASSUME NEW s \in Seq(Output), NEW o \in Output, NEW c
    PROVE  LitCount(Append(s, o), c)
               = LitCount(s, c) + IF o.lit /\ o.conn = c THEN 1 ELSE 0
<1> DEFINE Q == {p \in Output : p.lit /\ p.conn = c}
<1>1. /\ {i \in DOMAIN s : s[i].lit /\ s[i].conn = c} = Kept(s, Q)
      /\ o \in Q <=> o.lit /\ o.conn = c
  BY DEF Kept
<1>2. {i \in DOMAIN Append(s, o) : Append(s, o)[i].lit /\ Append(s, o)[i].conn = c}
          = Kept(Append(s, o), Q)
  <2>1. Append(s, o) \in Seq(Output)
    OBVIOUS
  <2>2. QED
    BY <2>1 DEF Kept
<1>3. Cardinality(Kept(Append(s, o), Q)) = Cardinality(Kept(s, Q)) + IF o \in Q THEN 1 ELSE 0
  <2> HIDE DEF Q
  <2>1. QED
    BY AppendOccurrences
<1>4. QED
  BY <1>1, <1>2, <1>3 DEF LitCount

\* Taking the lit outputs of the connectors cs out of the space leaves the others.
LEMMA LitCountWithout ==
    ASSUME space \in Seq(Output), NEW cs, NEW c
    PROVE  /\ SpaceWithout(cs) \in Seq(Output)
           /\ LitCount(SpaceWithout(cs), c) = IF c \in cs THEN 0 ELSE LitCount(space, c)
<1> DEFINE S == {o \in ToSet(space) : ~(o.lit /\ o.conn \in cs)}
           r == SpaceWithout(cs)
<1>1. r = Retain(space, S)
  BY DEF SpaceWithout
<1>2. r \in Seq(Output) /\ ToSet(r) = ToSet(space) \intersect S
  <2> HIDE DEF S, r
  <2>1. QED
    BY <1>1, RetainElements
<1>3. CASE c \in cs
  <2>1. {i \in DOMAIN r : r[i].lit /\ r[i].conn = c} = {}
    <3>1. \A i \in DOMAIN r : r[i] \in S
      BY <1>2 DEF ToSet
    <3>2. QED
      BY <1>3, <3>1
  <2>2. QED
    BY <1>2, <1>3, <2>1, FS_EmptySet DEF LitCount
<1>4. CASE c \notin cs
  <2> DEFINE Q == LitOf(space, c)
  <2>1. Q \in SUBSET S
    BY <1>4 DEF LitOf
  <2>2. LitOf(r, c) \subseteq Q
    BY <1>2 DEF LitOf
  <2>3. Kept(r, LitOf(r, c)) = Kept(r, Q)
    BY <2>2 DEF Kept, LitOf, ToSet
  <2>4. Cardinality(Kept(r, Q)) = Cardinality(Kept(space, Q))
    <3> HIDE DEF S, r, Q
    <3>1. QED
      BY <1>1, <2>1, RetainOccurrences
  <2>5. QED
    BY <1>2, <1>4, <2>3, <2>4, LitCountKept
<1>5. QED
  BY <1>2, <1>3, <1>4

-----------------------------------------------------------------------------
(* The CRTC maps and the space agree *)

\* The space is a list of outputs.
LEMMA SpaceType == TypeOK => space \in Seq(Output)
  BY DEF TypeOK, Output

\* The property about rendered outputs, with its set named.
LEMMA LitMapped == LitOutputsMapped <=>
                   \A c \in Connector : LitCount(space, c) = IF known[c] = None THEN 0 ELSE 1
  BY DEF LitOutputsMapped, LitCount

\* Neither the maps nor the space change, and the scan goes on by one connector or
\* starts.
LEMMA ScanStep ==
    ASSUME OutputsInv,
           UNCHANGED <<card, plugged, present, stale, moves, events, book, ask, scanning>>,
           scanning, todo # <<>>, todo' = Tail(todo), seen' \in SUBSET Connector
    PROVE  OutputsInv'
<1>1. todo' \in Seq(Connector)
  BY DEF OutputsInv, TypeOK
<1>2. QED
  BY <1>1 DEF OutputsInv, TypeOK, MapsAgree, LitOutputsMapped, book

\* A new output takes a CRTC nobody has, also when its creation fails.
LEMMA CreateStep ==
    ASSUME OutputsInv, NEW k \in Crtc, NEW w \in Widths, NEW fails \in CreationFails,
           CreateOutput(k, w, fails)
    PROVE  OutputsInv'
<1> DEFINE c == Head(todo)
           o == [conn |-> c, x |-> TotalWidth(space), w |-> w, lit |-> ~fails]
<1>1. /\ c \in Connector /\ Tail(todo) \in Seq(Connector)
      /\ fails \in BOOLEAN
      /\ None \notin Crtc \union Connector
  BY FlagsAssumption, CrtcAssumption DEF OutputsInv, TypeOK, CreateOutput
<1>2. o \in Output /\ space \in Seq(Output) /\ space' = Append(space, o)
  <2>1. space \in Seq(Output) /\ TotalWidth(space) \in Nat
    BY SpaceType, TotalWidthType DEF OutputsInv
  <2>2. QED
    BY <1>1, <2>1 DEF CreateOutput, Mapped, Output
<1>3. known[c] = None /\ k \in FreeCrtcs(c)
  BY DEF CreateOutput
<1>4. surfaces[k] = None /\ \A d \in Connector : known[d] # k
  BY <1>1, <1>3 DEF FreeCrtcs, UsedCrtcs
<1>5. /\ todo' = Tail(todo) /\ seen' = seen \union {c}
      /\ UNCHANGED <<card, plugged, present, stale, moves, events, ask, scanning>>
  BY DEF CreateOutput
<1>6. \/ fails /\ known' = known /\ surfaces' = surfaces
      \/ ~fails /\ known' = [known EXCEPT ![c] = k] /\ surfaces' = [surfaces EXCEPT ![k] = c]
  BY DEF CreateOutput
<1> HIDE DEF c, o
<1>7. TypeOK'
  <2>1. space' \in Seq(Output)
    BY <1>2
  <2>2. known' \in [Connector -> Crtc \union {None}] /\ surfaces' \in [Crtc -> Connector \union {None}]
    <3>1. known \in [Connector -> Crtc \union {None}] /\ surfaces \in [Crtc -> Connector \union {None}]
      BY DEF OutputsInv, TypeOK
    <3>2. CASE fails
      BY <1>6, <3>1, <3>2
    <3>3. CASE ~fails
      BY <1>1, <1>6, <3>1, <3>3
    <3>4. QED
      BY <3>2, <3>3
  <2>3. todo' \in Seq(Connector) /\ seen' \subseteq Connector
    BY <1>1, <1>5 DEF OutputsInv, TypeOK
  <2>4. QED
    BY <1>5, <2>1, <2>2, <2>3 DEF OutputsInv, TypeOK, Output
<1>8. MapsAgree'
  BY <1>1, <1>3, <1>4, <1>6 DEF OutputsInv, TypeOK, MapsAgree
<1>9. LitOutputsMapped'
  <2> SUFFICES ASSUME NEW d \in Connector
               PROVE  LitCount(space', d) = IF known'[d] = None THEN 0 ELSE 1
    BY DEF LitOutputsMapped, LitCount
  <2>1. LitCount(space, d) = IF known[d] = None THEN 0 ELSE 1
    BY LitMapped DEF OutputsInv
  <2>2. LitCount(space', d) = LitCount(space, d) + IF ~fails /\ c = d THEN 1 ELSE 0
    <3>1. o.lit = ~fails /\ o.conn = c
      BY DEF o
    <3>2. QED
      BY <1>2, <3>1, LitCountAppend
  <2>3. CASE fails
    BY <1>6, <2>1, <2>2, <2>3
  <2>4. CASE ~fails
    <3>1. known' = [known EXCEPT ![c] = k] /\ k # None /\ known \in [Connector -> Crtc \union {None}]
      BY <1>1, <1>6, <2>4 DEF OutputsInv, TypeOK
    <3>2. QED
      BY <1>1, <1>3, <2>1, <2>2, <2>4, <3>1
  <2>5. QED
    BY <2>3, <2>4
<1>10. QED
  BY <1>7, <1>8, <1>9 DEF OutputsInv

\* What the scan has not seen leaves both maps and the space.
LEMMA DestroyStep ==
    ASSUME OutputsInv, DestroyGone
    PROVE  OutputsInv'
<1>1. None \notin Crtc \union Connector
  BY CrtcAssumption
<1>2. /\ known' = [c \in Connector |-> IF c \in Gone THEN None ELSE known[c]]
      /\ surfaces' = [k \in Crtc |-> IF surfaces[k] \in Gone THEN None ELSE surfaces[k]]
      /\ space' = SpaceWithout(Gone) /\ scanning' = FALSE
      /\ UNCHANGED <<card, plugged, present, stale, moves, events, ask, todo, seen>>
  BY DEF DestroyGone
<1>3. /\ space' \in Seq(Output)
      /\ \A c : LitCount(space', c) = IF c \in Gone THEN 0 ELSE LitCount(space, c)
  BY <1>2, SpaceType, LitCountWithout DEF OutputsInv
<1>4. TypeOK'
  BY <1>2, <1>3 DEF OutputsInv, TypeOK, Output
<1>5. MapsAgree'
  BY <1>1, <1>2 DEF OutputsInv, TypeOK, MapsAgree, Gone
<1>6. LitOutputsMapped'
  <2> SUFFICES ASSUME NEW d \in Connector
               PROVE  LitCount(space', d) = IF known'[d] = None THEN 0 ELSE 1
    BY DEF LitOutputsMapped, LitCount
  <2>1. LitCount(space, d) = IF known[d] = None THEN 0 ELSE 1
    BY LitMapped DEF OutputsInv
  <2>2. QED
    BY <1>2, <1>3, <2>1
<1>7. QED
  BY <1>4, <1>5, <1>6 DEF OutputsInv

\* Asking for a connector moves it from one list to the other, or drops it.
LEMMA AskedType ==
    ASSUME OutputsInv, AskConnector
    PROVE  /\ ask' \in Seq(Connector) /\ todo' \in Seq(Connector)
           /\ Head(ask) \in Connector
           /\ ToSet(ask) = {Head(ask)} \union ToSet(ask')
           /\ ToSet(todo') = IF Head(ask) \in plugged /\ ~stale
                             THEN ToSet(todo) \union {Head(ask)} ELSE ToSet(todo)
<1>1. /\ ask \in Seq(Connector) /\ todo \in Seq(Connector) /\ ask # <<>> /\ ask' = Tail(ask)
      /\ todo' = IF Head(ask) \in plugged /\ ~stale THEN Append(todo, Head(ask)) ELSE todo
  BY DEF AskConnector, OutputsInv, TypeOK
<1>2. Head(ask) \in Connector /\ ask' \in Seq(Connector)
  BY <1>1
<1>3. ToSet(Append(todo, Head(ask))) = ToSet(todo) \union {Head(ask)}
  BY <1>1, <1>2, AppendElements
<1>4. ToSet(ask) = {Head(ask)} \union ToSet(Tail(ask))
  BY <1>1, HeadAndTail
<1>5. todo' \in Seq(Connector)
  BY <1>1, <1>2
<1>6. QED
  BY <1>1, <1>2, <1>3, <1>4, <1>5

\* Every step keeps the maps and the space in agreement.
LEMMA OutputsStep == OutputsInv /\ [Next]_vars => OutputsInv'
<1> SUFFICES ASSUME OutputsInv, [Next]_vars PROVE OutputsInv'
  OBVIOUS
<1>1. CASE Environment
  <2>1. MaxMoves \in Nat
    BY MaxMovesAssumption
  <2>2. /\ UNCHANGED <<card, book, ask, todo, seen, scanning>>
        /\ moves < MaxMoves /\ moves' = moves + 1
        /\ plugged' \subseteq Connector /\ present' \in BOOLEAN /\ stale' \in BOOLEAN
        /\ \E e \in {"added", "changed", "removed"} : events' = Append(events, e)
    BY <1>1 DEF Environment, Plug, Unplug, RemoveGpu, AddGpu, OutputsInv, TypeOK
  <2>3. moves' \in 0..MaxMoves
    BY <2>1, <2>2 DEF OutputsInv, TypeOK
  <2>4. events' \in Seq({"added", "changed", "removed"})
    BY <2>2 DEF OutputsInv, TypeOK
  <2>5. QED
    BY <2>2, <2>3, <2>4 DEF book, OutputsInv, TypeOK, MapsAgree, LitOutputsMapped
<1>2. CASE IgnoreEvent \/ GpuRemoved \/ DeviceChanged
  <2>1. events # <<>> /\ events' = Tail(events) /\ UNCHANGED <<card, plugged, present, stale, moves, book>>
    BY <1>2 DEF IgnoreEvent, GpuRemoved, DeviceChanged
  <2>2. /\ todo' \in {todo, <<>>} /\ ask' \in {ask, Connectors}
        /\ seen' \in {seen, {}} /\ scanning' \in BOOLEAN
    BY <1>2 DEF IgnoreEvent, GpuRemoved, DeviceChanged, OutputsInv, TypeOK
  <2>3. events' \in Seq({"added", "changed", "removed"})
    BY <2>1 DEF OutputsInv, TypeOK
  <2>4. Connectors \in Seq(Connector) /\ <<>> \in Seq(Connector)
    BY ConnectorsAssumption
  <2>5. ask' \in Seq(Connector) /\ todo' \in Seq(Connector) /\ seen' \subseteq Connector
    BY <2>2, <2>4 DEF OutputsInv, TypeOK
  <2>6. QED
    BY <2>1, <2>2, <2>3, <2>5 DEF book, OutputsInv, TypeOK, MapsAgree, LitOutputsMapped
<1>3. CASE NoFreeCrtc \/ StillLive \/ NoModes
  <2>1. Head(todo) \in Connector
    <3>1. todo # <<>> /\ todo \in Seq(Connector)
      BY <1>3 DEF NoFreeCrtc, StillLive, NoModes, OutputsInv, TypeOK
    <3>2. QED
      BY <3>1
  <2>2. /\ scanning /\ todo # <<>> /\ todo' = Tail(todo)
        /\ seen' \in {seen, seen \union {Head(todo)}}
        /\ UNCHANGED <<card, plugged, present, stale, moves, events, book, ask, scanning>>
    BY <1>3 DEF NoFreeCrtc, StillLive, NoModes
  <2>3. seen' \in SUBSET Connector
    BY <2>1, <2>2 DEF OutputsInv, TypeOK
  <2>4. QED
    BY <2>2, <2>3, ScanStep
<1>4. CASE \E k \in Crtc, w \in Widths, fails \in CreationFails : CreateOutput(k, w, fails)
  BY <1>4, CreateStep
<1>5. CASE DestroyGone
  BY <1>5, DestroyStep
<1>6. CASE UNCHANGED vars
  BY <1>6 DEF vars, book, OutputsInv, TypeOK, MapsAgree, LitOutputsMapped
<1>7. CASE AskConnector
  <2>1. ask' \in Seq(Connector) /\ todo' \in Seq(Connector)
    BY <1>7, AskedType
  <2>2. UNCHANGED <<card, plugged, present, stale, moves, events, book, seen, scanning>>
    BY <1>7 DEF AskConnector
  <2>3. QED
    BY <2>1, <2>2 DEF book, OutputsInv, TypeOK, MapsAgree, LitOutputsMapped
<1>8. QED
  BY <1>1, <1>2, <1>3, <1>4, <1>5, <1>6, <1>7 DEF Next, Loop

\* What the compositor believes of its outputs agrees at every point of every scan:
\* no CRTC drives two outputs, and the rendered outputs are those of the maps,
\* mapped once each, whatever failed and whenever the cables moved.
THEOREM OutputsAgree == Spec => []OutputsInv
<1>1. Init => OutputsInv
  <2> SUFFICES ASSUME Init PROVE OutputsInv
    OBVIOUS
  <2>1. None \notin Crtc \union Connector /\ MaxMoves \in Nat /\ NodeKinds \subseteq BOOLEAN
    BY CrtcAssumption, MaxMovesAssumption, FlagsAssumption
  <2>2. plugged \subseteq Connector /\ Connectors \in Seq(Connector)
    BY ConnectorsAssumption DEF Init
  <2>3. TypeOK
    <3>1. /\ <<>> \in Seq({"added", "changed", "removed"}) /\ <<>> \in Seq(Output)
          /\ <<>> \in Seq(Connector)
      OBVIOUS
    <3>2. card \in BOOLEAN /\ moves \in 0..MaxMoves
      BY <2>1 DEF Init
    <3>3. QED
      BY <2>1, <2>2, <3>1, <3>2 DEF Init, TypeOK, Output
  <2>4. MapsAgree
    BY <2>1 DEF Init, MapsAgree
  <2>5. LitOutputsMapped
    <3>1. {i \in DOMAIN space : space[i].lit /\ space[i].conn = None} = {}
      BY DEF Init
    <3>2. QED
      BY <3>1, FS_EmptySet DEF Init, LitOutputsMapped
  <2>6. QED
    BY <2>3, <2>4, <2>5 DEF OutputsInv
<1>2. QED
  BY <1>1, OutputsStep, PTL DEF Spec

-----------------------------------------------------------------------------
(* What a scan disconnects and what it leaves lit                          *)

Ahead == seen \union ToSet(todo) \union ToSet(ask)

PassedOver(c) == PossibleCrtcs[c] \subseteq Driving

\* As long as the GPU is there and no cable has moved since the scan began: a plugged
\* connector has been seen, is still to come or was passed over for want of a CRTC,
\* and nothing else than plugged connectors is seen.
ScanInv ==
    scanning /\ ~stale /\ ~CablesMoved =>
        /\ \A c \in plugged : c \in Ahead \/ PassedOver(c)
        /\ seen \union ToSet(todo) \subseteq plugged

\* A new event hides no moved cable.
LEMMA MovesAdd ==
    ASSUME TypeOK, NEW e, events' = Append(events, e)
    PROVE  (CablesMoved => CablesMoved') /\ (e = "changed" => CablesMoved')
<1>1. events \in Seq({"added", "changed", "removed"})
  BY DEF TypeOK
<1>2. /\ Len(events) + 1 \in DOMAIN events' /\ events'[Len(events) + 1] = e
      /\ \A i \in DOMAIN events : i \in DOMAIN events' /\ events'[i] = events[i]
  BY <1>1
<1>3. QED
  BY <1>2 DEF CablesMoved

\* The environment leaves the scan alone, and a moved cable is noticed.
LEMMA WorldStep ==
    ASSUME TypeOK, Environment
    PROVE  /\ UNCHANGED <<card, known, surfaces, ask, todo, seen, scanning>>
           /\ CablesMoved => CablesMoved'
           /\ plugged' # plugged => CablesMoved'
           /\ stale' # stale => stale'
<1>1. CASE \E c \in Connector : Plug(c) \/ Unplug(c)
  <2>1. /\ events' = Append(events, "changed")
        /\ UNCHANGED <<card, known, surfaces, ask, todo, seen, scanning, stale>>
    BY <1>1 DEF Plug, Unplug, book
  <2>2. QED
    BY <2>1, MovesAdd
<1>2. CASE RemoveGpu
  <2>1. /\ events' = Append(events, "removed") /\ plugged' = plugged /\ stale' = TRUE
        /\ UNCHANGED <<card, known, surfaces, ask, todo, seen, scanning>>
    BY <1>2 DEF RemoveGpu, book
  <2>2. QED
    BY <2>1, MovesAdd
<1>3. CASE AddGpu
  <2>1. /\ events' = Append(events, "added") /\ plugged' = plugged
        /\ UNCHANGED <<card, known, surfaces, ask, todo, seen, scanning, stale>>
    BY <1>3 DEF AddGpu, book
  <2>2. QED
    BY <2>1, MovesAdd
<1>4. QED
  BY <1>1, <1>2, <1>3 DEF Environment

\* All CRTCs in use drive an output.
LEMMA UsedDrive ==
    ASSUME OutputsInv, NEW c \in Connector
    PROVE  UsedCrtcs(c) \subseteq Driving
<1> SUFFICES ASSUME NEW d \in Connector, known[d] # None PROVE known[d] \in Driving
  BY DEF UsedCrtcs, Driving
<1>1. known[d] \in Crtc
  BY DEF OutputsInv, TypeOK
<1>2. surfaces[known[d]] = d /\ d # None
  BY <1>1, CrtcAssumption DEF OutputsInv, MapsAgree
<1>3. QED
  BY <1>1, <1>2 DEF Driving

\* A connector the scan looks at.
LEMMA LookStep ==
    ASSUME OutputsInv,
           \/ NoFreeCrtc \/ StillLive \/ NoModes
           \/ \E k \in Crtc, w \in Widths, fails \in CreationFails : CreateOutput(k, w, fails)
    PROVE  /\ scanning /\ ask = <<>> /\ todo # <<>> /\ todo' = Tail(todo)
           /\ seen' \in {seen, seen \union {Head(todo)}}
           /\ Head(todo) \in seen' \/ NoFreeCrtc
           /\ UNCHANGED <<card, plugged, stale, events, ask, scanning>>
           /\ \A c \in Connector : known[c] # None => known'[c] # None
           /\ Driving \subseteq Driving'
<1>1. CASE NoFreeCrtc \/ StillLive \/ NoModes
  BY <1>1 DEF NoFreeCrtc, StillLive, NoModes, book, Driving
<1>2. ASSUME NEW k \in Crtc, NEW w \in Widths, NEW fails \in CreationFails,
             CreateOutput(k, w, fails)
      PROVE  /\ \A c \in Connector : known[c] # None => known'[c] # None
             /\ Driving \subseteq Driving'
  <2>1. todo # <<>> /\ known[Head(todo)] = None
    BY <1>2 DEF CreateOutput
  <2>2. /\ Head(todo) \in Connector /\ Head(todo) # None /\ k # None
        /\ known \in [Connector -> Crtc \union {None}]
        /\ surfaces \in [Crtc -> Connector \union {None}]
    BY <2>1, CrtcAssumption DEF OutputsInv, TypeOK
  <2>3. \/ known' = known /\ surfaces' = surfaces
        \/ /\ known' = [known EXCEPT ![Head(todo)] = k]
           /\ surfaces' = [surfaces EXCEPT ![k] = Head(todo)]
    BY <1>2 DEF CreateOutput
  <2>4. QED
    BY <2>2, <2>3 DEF Driving
<1>3. CASE \E k \in Crtc, w \in Widths, fails \in CreationFails : CreateOutput(k, w, fails)
  <2>1. /\ scanning /\ ask = <<>> /\ todo # <<>> /\ todo' = Tail(todo)
        /\ seen' = seen \union {Head(todo)}
        /\ UNCHANGED <<card, plugged, stale, events, ask, scanning>>
    BY <1>3 DEF CreateOutput
  <2>2. QED
    BY <1>2, <1>3, <2>1
<1>4. QED
  BY <1>1, <1>3

\* A scan that starts has everything ahead of it.
LEMMA ScanStarts ==
    ASSUME ask = Connectors, todo = <<>>, seen = {}, plugged \subseteq Connector
    PROVE  ScanInv
<1>1. ToSet(todo) = {} /\ Ahead = Connector
  BY DEF ToSet, Ahead, Connector
<1>2. QED
  BY <1>1 DEF ScanInv

\* Every step keeps the invariant of the scan.
LEMMA ScanInvStep ==
    ASSUME OutputsInv, ScanInv, [Next]_vars
    PROVE  ScanInv'
<1>1. TypeOK
  BY DEF OutputsInv
<1>2. CASE Environment
  <2>1. /\ UNCHANGED <<surfaces, ask, todo, seen, scanning>>
        /\ CablesMoved => CablesMoved'
        /\ plugged' # plugged => CablesMoved'
        /\ stale' # stale => stale'
    BY <1>1, <1>2, WorldStep
  <2>2. Ahead' = Ahead /\ \A c : PassedOver(c)' <=> PassedOver(c)
    BY <2>1 DEF Ahead, PassedOver, Driving
  <2>3. SUFFICES ASSUME scanning', ~stale', ~CablesMoved'
                 PROVE  /\ \A c \in plugged' : c \in Ahead' \/ PassedOver(c)'
                        /\ seen' \union ToSet(todo') \subseteq plugged'
    BY DEF ScanInv
  <2>4. plugged' = plugged /\ scanning /\ ~stale /\ ~CablesMoved
    BY <2>1, <2>3
  <2>5. QED
    BY <2>1, <2>2, <2>4 DEF ScanInv
<1>3. CASE IgnoreEvent \/ GpuRemoved \/ DestroyGone
  BY <1>3 DEF IgnoreEvent, GpuRemoved, DestroyGone, ScanInv
<1>4. CASE DeviceChanged
  <2>1. CASE stale
    BY <1>4, <2>1 DEF DeviceChanged, ScanInv
  <2>2. CASE ~stale
    <3>1. ask' = Connectors /\ todo' = <<>> /\ seen' = {} /\ plugged' \subseteq Connector
      BY <1>1, <1>4, <2>2 DEF DeviceChanged, TypeOK
    <3>2. ToSet(todo') = {} /\ Ahead' = Connector
      BY <3>1 DEF ToSet, Ahead, Connector
    <3>3. QED
      BY <3>1, <3>2 DEF ScanInv
  <2>3. QED
    BY <2>1, <2>2
<1>5. CASE AskConnector
  <2>1. /\ ToSet(ask) = {Head(ask)} \union ToSet(ask')
        /\ ToSet(todo') = IF Head(ask) \in plugged /\ ~stale
                          THEN ToSet(todo) \union {Head(ask)} ELSE ToSet(todo)
    BY <1>5, AskedType
  <2>2. /\ UNCHANGED <<plugged, stale, events, surfaces, seen, scanning>>
    BY <1>5 DEF AskConnector, book
  <2>3. /\ CablesMoved' <=> CablesMoved
        /\ \A c : PassedOver(c)' <=> PassedOver(c)
    BY <2>2 DEF CablesMoved, PassedOver, Driving
  <2> SUFFICES ASSUME scanning', ~stale', ~CablesMoved'
               PROVE  /\ \A c \in plugged' : c \in Ahead' \/ PassedOver(c)'
                      /\ seen' \union ToSet(todo') \subseteq plugged'
    BY DEF ScanInv
  <2>4. /\ ~stale
        /\ \A c \in plugged : c \in Ahead \/ PassedOver(c)
        /\ seen \union ToSet(todo) \subseteq plugged
    BY <2>2, <2>3 DEF ScanInv
  <2>5. \A c \in plugged : c \in Ahead => c \in Ahead'
    BY <2>1, <2>2, <2>4 DEF Ahead
  <2>6. seen' \union ToSet(todo') \subseteq plugged'
    BY <2>1, <2>2, <2>4
  <2>7. QED
    BY <2>2, <2>3, <2>4, <2>5, <2>6
<1>6. CASE \/ NoFreeCrtc \/ StillLive \/ NoModes
           \/ \E k \in Crtc, w \in Widths, fails \in CreationFails : CreateOutput(k, w, fails)
  <2>1. /\ scanning /\ ask = <<>> /\ todo # <<>> /\ todo' = Tail(todo)
        /\ seen' \in {seen, seen \union {Head(todo)}}
        /\ Head(todo) \in seen' \/ NoFreeCrtc
        /\ UNCHANGED <<plugged, stale, events, ask, scanning>>
        /\ Driving \subseteq Driving'
    BY <1>6, LookStep
  <2>2. Head(todo) \in Connector /\ ToSet(todo) = {Head(todo)} \union ToSet(todo')
    BY <1>1, <2>1, HeadAndTail DEF TypeOK
  <2>3. CablesMoved' <=> CablesMoved
    BY <2>1 DEF CablesMoved
  <2> SUFFICES ASSUME scanning', ~stale', ~CablesMoved'
               PROVE  /\ \A c \in plugged' : c \in Ahead' \/ PassedOver(c)'
                      /\ seen' \union ToSet(todo') \subseteq plugged'
    BY DEF ScanInv
  <2>4. /\ ~stale
        /\ \A c \in plugged : c \in Ahead \/ PassedOver(c)
        /\ seen \union ToSet(todo) \subseteq plugged
    BY <2>1, <2>3 DEF ScanInv
  <2> PICK h \in Connector : h = Head(todo)
    BY <2>2
  <2>5. NoFreeCrtc => PassedOver(h)
    <3>1. UsedCrtcs(h) \subseteq Driving
      BY UsedDrive
    <3>2. QED
      BY <2>4, <3>1 DEF NoFreeCrtc, FreeCrtcs, PassedOver
  <2>6. \A c : PassedOver(c) => PassedOver(c)'
    BY <2>1 DEF PassedOver
  <2>7. \A c \in Ahead : c \in Ahead' \/ c = h
    BY <2>1, <2>2 DEF Ahead
  <2>8. h \in Ahead' \/ PassedOver(h)'
    BY <2>1, <2>5, <2>6 DEF Ahead
  <2>9. seen' \union ToSet(todo') \subseteq plugged'
    BY <2>1, <2>2, <2>4
  <2>10. QED
    BY <2>1, <2>4, <2>6, <2>7, <2>8, <2>9
<1>7. CASE UNCHANGED vars
  BY <1>7 DEF vars, ScanInv, CablesMoved, Ahead, PassedOver, Driving
<1>8. QED
  BY <1>2, <1>3, <1>4, <1>5, <1>6, <1>7 DEF Next, Loop

\* The invariant of the scan holds in every behaviour.
LEMMA ScanKept == Spec => []ScanInv
<1>1. Init => ScanInv
  BY ScanStarts DEF Init
<1>2. OutputsInv /\ ScanInv /\ [Next]_vars => ScanInv'
  BY ScanInvStep
<1>3. QED
  BY <1>1, <1>2, OutputsAgree, PTL DEF Spec

\* Only the end of a scan makes an output dark, or ends a scan.
LEMMA OnlyDestroys ==
    ASSUME OutputsInv, [Next]_vars,
           \/ \E c \in Connector : known[c] # None /\ known'[c] = None
           \/ scanning /\ ~scanning'
    PROVE  DestroyGone
<1>1. ~Environment
  BY WorldStep DEF OutputsInv
<1>2. ~(IgnoreEvent \/ GpuRemoved \/ DeviceChanged \/ AskConnector)
  BY DEF IgnoreEvent, GpuRemoved, DeviceChanged, AskConnector, book
<1>3. ~(\/ NoFreeCrtc \/ StillLive \/ NoModes
        \/ \E k \in Crtc, w \in Widths, fails \in CreationFails : CreateOutput(k, w, fails))
  <2> SUFFICES ASSUME \/ NoFreeCrtc \/ StillLive \/ NoModes
                      \/ \E k \in Crtc, w \in Widths, fails \in CreationFails :
                            CreateOutput(k, w, fails)
               PROVE  FALSE
    OBVIOUS
  <2>1. /\ scanning' = scanning
        /\ \A c \in Connector : known[c] # None => known'[c] # None
    BY LookStep
  <2>2. QED
    BY <2>1
<1>4. ~UNCHANGED vars
  BY DEF vars
<1>5. QED
  BY <1>1, <1>2, <1>3, <1>4 DEF Next, Loop

\* At the end of a scan everything is behind it.
LEMMA ScanEnds ==
    ASSUME OutputsInv, ScanInv, DestroyGone, ~stale, ~CablesMoved
    PROVE  /\ \A c \in plugged : c \in seen \/ PassedOver(c)
           /\ seen \subseteq plugged
           /\ \A c \in Connector : known'[c] = IF c \in Gone THEN None ELSE known[c]
<1>1. /\ scanning /\ ask = <<>> /\ todo = <<>>
      /\ known' = [c \in Connector |-> IF c \in Gone THEN None ELSE known[c]]
  BY DEF DestroyGone
<1>2. ToSet(ask) = {} /\ ToSet(todo) = {}
  BY <1>1 DEF ToSet
<1>3. QED
  BY <1>1, <1>2 DEF ScanInv, Ahead

\* Whatever a scan disconnects has lost its monitor or its GPU, a cable has moved that
\* the next scan will see, or every CRTC its encoders can use drives an output.
THEOREM OnlyDroppedForWant == Spec => OnlyDroppedForCause
<1>1. ASSUME OutputsInv, ScanInv, [Next]_vars, NEW c \in Connector,
             known[c] # None, known'[c] = None
      PROVE  \/ stale \/ c \notin plugged \/ CablesMoved
             \/ PossibleCrtcs[c] \subseteq Driving
  <2> SUFFICES ASSUME ~stale, c \in plugged, ~CablesMoved PROVE PassedOver(c)
    BY DEF PassedOver
  <2>1. DestroyGone
    BY <1>1, OnlyDestroys
  <2>2. c \in seen \/ PassedOver(c)
    BY <1>1, <2>1, ScanEnds
  <2>3. c \in Gone
    BY <1>1, <2>1, ScanEnds
  <2>4. QED
    BY <2>2, <2>3 DEF Gone
<1>2. OutputsInv /\ ScanInv /\ [Next]_vars =>
         [\A c \in Connector :
             known[c] # None /\ known'[c] = None
                 => \/ stale \/ c \notin plugged \/ CablesMoved
                    \/ PossibleCrtcs[c] \subseteq Driving]_vars
  BY <1>1
<1>3. QED
  BY <1>2, OutputsAgree, ScanKept, PTL DEF Spec, OnlyDroppedForCause

\* When a scan ends and no cable has moved meanwhile, each monitor is lit, or its
\* output could not be made, or it was passed over for want of a CRTC; and nothing
\* else is lit.
THEOREM ScansLight == Spec => ScanLights
<1>1. ASSUME OutputsInv, ScanInv, [Next]_vars, scanning, ~scanning', ~stale, ~CablesMoved,
             NEW c \in Connector
      PROVE  IF c \in plugged
             THEN \/ known'[c] # None
                  \/ CreationFailed(c)
                  \/ PossibleCrtcs[c] \subseteq Driving
             ELSE known'[c] = None
  <2>1. DestroyGone
    BY <1>1, OnlyDestroys
  <2>2. /\ c \in plugged => c \in seen \/ PassedOver(c)
        /\ seen \subseteq plugged
        /\ known'[c] = IF c \in Gone THEN None ELSE known[c]
    BY <1>1, <2>1, ScanEnds
  <2>3. CASE c \in plugged
    <3>1. CASE c \in seen
      BY <2>2, <2>3, <3>1 DEF Gone, CreationFailed
    <3>2. CASE c \notin seen
      BY <2>2, <2>3, <3>2 DEF PassedOver
    <3>3. QED
      BY <3>1, <3>2
  <2>4. CASE c \notin plugged
    BY <2>2, <2>4 DEF Gone
  <2>5. QED
    BY <2>3, <2>4
<1>2. OutputsInv /\ ScanInv /\ [Next]_vars =>
         [scanning /\ ~scanning' /\ ~stale /\ ~CablesMoved =>
            \A c \in Connector :
                IF c \in plugged
                THEN \/ known'[c] # None
                     \/ CreationFailed(c)
                     \/ PossibleCrtcs[c] \subseteq Driving
                ELSE known'[c] = None]_vars
  BY <1>1
<1>3. QED
  BY <1>2, OutputsAgree, ScanKept, PTL DEF Spec, ScanLights

-----------------------------------------------------------------------------
(* Between scans                                                           *)

\* udev names the device, which is still the one that was opened, and the last scan
\* was done after the last move of a cable.
Settled == card /\ ~stale /\ ~scanning /\ ~CablesMoved

NothingElseLit == Settled => \A c \in Connector : Lit(c) => c \in plugged

\* Only a scan takes a moved cable from the queue of events.
LEMMA MovesWait ==
    ASSUME TypeOK, CablesMoved, events # <<>>, events' = Tail(events),
           Head(events) # "changed"
    PROVE  CablesMoved'
<1>1. events \in Seq({"added", "changed", "removed"})
  BY DEF TypeOK
<1>2. PICK i \in DOMAIN events : events[i] = "changed"
  BY DEF CablesMoved
<1>3. i # 1 /\ i \in 1..Len(events) /\ DOMAIN events' = 1..(Len(events) - 1)
  BY <1>1, <1>2
<1>4. i - 1 \in DOMAIN events' /\ events'[i - 1] = events[i]
  BY <1>1, <1>3
<1>5. QED
  BY <1>2, <1>4 DEF CablesMoved

\* Once the last scan was done after the last move of a cable, no output is lit
\* whose monitor is gone: whatever failed, and whenever the cables moved.
THEOREM UnpluggedAreDark == Spec => []NothingElseLit
<1>1. Init => NothingElseLit
  BY DEF Init, NothingElseLit, Settled
<1>2. ASSUME OutputsInv, ScanInv, NothingElseLit, [Next]_vars PROVE NothingElseLit'
  <2> SUFFICES ASSUME card', ~stale', ~scanning', ~CablesMoved', NEW c \in Connector,
                      known'[c] # None
               PROVE  c \in plugged'
    BY DEF NothingElseLit, Settled, Lit
  <2>1. CASE Environment
    <3>1. /\ UNCHANGED <<card, known, scanning>>
          /\ CablesMoved => CablesMoved'
          /\ plugged' # plugged => CablesMoved'
          /\ stale' # stale => stale'
      BY <1>2, <2>1, WorldStep DEF OutputsInv
    <3>2. /\ card /\ known[c] # None /\ ~scanning /\ ~CablesMoved
          /\ plugged' = plugged /\ ~stale
      BY <3>1
    <3>3. QED
      BY <1>2, <3>2 DEF NothingElseLit, Settled, Lit
  <2>2. CASE IgnoreEvent
    BY <2>2 DEF IgnoreEvent
  <2>3. CASE GpuRemoved
    <3>1. /\ UNCHANGED <<card, plugged, stale, known, scanning>>
          /\ events # <<>> /\ events' = Tail(events) /\ Head(events) # "changed"
      BY <2>3 DEF GpuRemoved, book
    <3>2. ~CablesMoved
      BY <1>2, <3>1, MovesWait DEF OutputsInv
    <3>3. card /\ ~stale /\ ~scanning /\ known[c] # None
      BY <3>1
    <3>4. QED
      BY <1>2, <3>1, <3>2, <3>3 DEF NothingElseLit, Settled, Lit
  <2>4. CASE DeviceChanged
    BY <2>4 DEF DeviceChanged
  <2>5. CASE AskConnector
    BY <2>5 DEF AskConnector
  <2>6. CASE \/ NoFreeCrtc \/ StillLive \/ NoModes
             \/ \E k \in Crtc, w \in Widths, fails \in CreationFails : CreateOutput(k, w, fails)
    <3>1. scanning /\ scanning' = scanning
      BY <1>2, <2>6, LookStep
    <3>2. QED
      BY <3>1
  <2>7. CASE DestroyGone
    <3>1. UNCHANGED <<plugged, stale, events>>
      BY <2>7 DEF DestroyGone
    <3>2. ~stale /\ ~CablesMoved
      BY <3>1 DEF CablesMoved
    <3>3. /\ seen \subseteq plugged
          /\ known'[c] = IF c \in Gone THEN None ELSE known[c]
      BY <1>2, <2>7, <3>2, ScanEnds
    <3>4. QED
      BY <3>1, <3>3 DEF Gone
  <2>8. CASE UNCHANGED vars
    BY <1>2, <2>8 DEF vars, NothingElseLit, Settled, Lit, CablesMoved
  <2>9. QED
    BY <1>2, <2>1, <2>2, <2>3, <2>4, <2>5, <2>6, <2>7, <2>8 DEF Next, Loop
<1>3. OutputsInv /\ ScanInv /\ NothingElseLit /\ [Next]_vars => NothingElseLit'
  BY <1>2
<1>4. QED
  BY <1>1, <1>3, OutputsAgree, ScanKept, PTL DEF Spec

-----------------------------------------------------------------------------
(* The repaint chain of one output (Repaint) never stalls and never forks, *)
(* however often input kicks it and the environment moves.  The invariant  *)
(* ties the frames the compositor of an output holds to the vblanks the    *)
(* kernel owes: a frame waits for a flip only while its vblank is still to *)
(* come.                                                                   *)

FramesHaveVblanks ==
    /\ pending => flips = 1
    /\ queued => pending
    /\ pending => lit

RepaintInv == RepaintTypes /\ ChainAlive /\ FramesHaveVblanks

\* What one call of render_surface leaves behind.
LEMMA RenderContinues ==
    ASSUME RepaintInv, NEW t \in Nat, NEW d \in BOOLEAN, RenderSurface(t, d), lit'
    PROVE  /\ timers' \in Nat /\ flips' \in {0, 1}
           /\ pending' \in BOOLEAN /\ queued' \in BOOLEAN /\ damage' \in BOOLEAN
           /\ timers' > 0 \/ flips' > 0
           /\ FramesHaveVblanks'
           /\ Chains' <= Chains - timers + t + 1
<1> USE DEF RepaintInv, RepaintTypes, FramesHaveVblanks, Chains
<1>3. damage' \in BOOLEAN
    BY DEF RenderSurface
<1>1. ASSUME Retry(t)
      PROVE  /\ timers' \in Nat /\ flips' \in {0, 1}
             /\ pending' \in BOOLEAN /\ queued' \in BOOLEAN /\ damage' \in BOOLEAN
             /\ timers' > 0 \/ flips' > 0
             /\ FramesHaveVblanks'
             /\ Chains' <= Chains - timers + t + 1
    BY <1>1, <1>3 DEF Retry
<1>2. CASE QueueFrame(t)
    <2>1. CASE pending
        <3>1. timers' = t /\ queued' = TRUE /\ pending' = pending /\ flips' = flips
            BY <1>2, <2>1 DEF QueueFrame
        <3>2. flips = 1 /\ pending'
            BY <2>1, <3>1
        <3>3. Chains' = t + 1 + 1
            BY <3>1, <3>2
        <3>4. Chains >= timers + 1
            BY <3>2
        <3>5. queued' \in BOOLEAN /\ pending' \in BOOLEAN
            BY <3>1
        <3>6. t + 1 + 1 <= Chains - timers + t + 1 /\ flips' = 1
            BY <3>1, <3>2, <3>4
        <3>7. FramesHaveVblanks'
            BY <3>2, <3>6
        <3> QED
            BY <1>3, <3>1, <3>3, <3>5, <3>6, <3>7
    <2>2. CASE ~pending /\ flips = 0
        <3>1. timers' = t /\ pending' = TRUE /\ flips' = 1 /\ queued' = queued
            BY <1>2, <2>2 DEF QueueFrame
        <3>2. ~queued /\ ~queued'
            BY <2>2, <3>1
        <3>3. pending' \in BOOLEAN /\ queued' \in BOOLEAN
            BY <3>1
        <3>4. FramesHaveVblanks'
            BY <3>1, <3>2
        <3>5. Chains' = t + 1 /\ Chains = timers
            BY <2>2, <3>1, <3>2
        <3> QED
            BY <1>3, <3>1, <3>3, <3>4, <3>5
    <2>3. CASE ~pending /\ flips # 0
        <3>1. Retry(t)
            BY <1>2, <2>3 DEF QueueFrame
        <3> QED
            BY <1>1, <3>1
    <2> QED
        BY <2>1, <2>2, <2>3
<1>4. QueueFrame(t) \/ Retry(t)
    BY DEF RenderSurface
<1> QED
    BY <1>1, <1>2, <1>3, <1>4

\* The invariant holds before there is an output.
LEMMA RepaintInitInv == RepaintInit => RepaintInv
<1> SUFFICES ASSUME RepaintInit PROVE RepaintInv
    OBVIOUS
<1>1. timers \in Nat /\ flips \in {0, 1} /\ kicks \in 0..MaxKicks /\ upsets \in 0..MaxUpsets
    BY BoundsAssumption DEF RepaintInit
<1>2. /\ lit \in BOOLEAN /\ active \in BOOLEAN /\ healthy \in BOOLEAN
      /\ pending \in BOOLEAN /\ queued \in BOOLEAN
      /\ dot \in BOOLEAN /\ damage \in BOOLEAN
    BY DEF RepaintInit
<1>3. ChainAlive /\ FramesHaveVblanks
    BY DEF RepaintInit, ChainAlive, FramesHaveVblanks
<1> QED
    BY <1>1, <1>2, <1>3 DEF RepaintInv, RepaintTypes

\* The upsets of the environment stay under their bound.
LEMMA UpsetType == RepaintTypes /\ Upset => upsets' \in 0..MaxUpsets
BY BoundsAssumption DEF RepaintTypes, Upset

\* Every step keeps the invariant.
LEMMA RepaintStepInv == RepaintInv /\ [RepaintNext]_chain => RepaintInv'
<1> SUFFICES ASSUME RepaintInv, [RepaintNext]_chain PROVE RepaintInv'
    OBVIOUS
<1> USE DEF RepaintInv
<1>1. CASE TimerFires
    <2>1. timers - 1 \in Nat /\ UNCHANGED <<lit, active, healthy, dot, kicks, upsets>>
        BY <1>1 DEF TimerFires, RepaintTypes
    <2>9. damage \in BOOLEAN
        BY DEF RepaintTypes
    <2>2. CASE lit
        <3>1. RenderSurface(timers - 1, damage) /\ lit'
            BY <1>1, <2>2 DEF TimerFires
        <3>2. /\ timers' \in Nat /\ flips' \in {0, 1}
              /\ pending' \in BOOLEAN /\ queued' \in BOOLEAN /\ damage' \in BOOLEAN
              /\ timers' > 0 \/ flips' > 0
              /\ FramesHaveVblanks'
            BY <2>1, <2>9, <3>1, RenderContinues
        <3> QED
            BY <2>1, <3>2 DEF RepaintTypes, ChainAlive
    <2>3. CASE ~lit
        BY <1>1, <2>1, <2>3 DEF TimerFires, RepaintTypes, ChainAlive, FramesHaveVblanks
    <2> QED
        BY <2>2, <2>3
<1>2. CASE Vblank
    <2>1. UNCHANGED <<lit, active, healthy, dot, damage, kicks, upsets>>
        BY <1>2 DEF Vblank
    <2>0. lit' = lit
        BY <2>1
    <2>2. CASE lit /\ pending /\ queued
        <3>1. /\ pending' = TRUE /\ queued' = FALSE
              /\ flips' = 1 /\ timers' = timers + 1
            BY <1>2, <2>2 DEF Vblank, FramesHaveVblanks
        <3>2. pending' \in BOOLEAN /\ queued' \in BOOLEAN /\ FramesHaveVblanks'
            BY <2>0, <2>2, <3>1 DEF FramesHaveVblanks
        <3>3. timers' \in Nat /\ flips' \in {0, 1} /\ timers' > 0
            BY <3>1 DEF RepaintTypes
        <3> QED
            BY <2>1, <3>2, <3>3 DEF RepaintTypes, ChainAlive
    <2>3. CASE lit /\ ~(pending /\ queued)
        <3>1. /\ pending' = FALSE /\ queued' = FALSE
              /\ flips' = flips - 1 /\ timers' = timers + 1
            BY <1>2, <2>3 DEF Vblank
        <3>2. pending' \in BOOLEAN /\ queued' \in BOOLEAN /\ FramesHaveVblanks'
            BY <2>0, <2>3, <3>1 DEF FramesHaveVblanks
        <3>3. timers' \in Nat /\ flips' \in {0, 1} /\ timers' > 0
            BY <1>2, <3>1 DEF RepaintTypes, Vblank
        <3> QED
            BY <2>1, <3>2, <3>3 DEF RepaintTypes, ChainAlive
    <2>4. CASE ~lit
        <3>1. flips' = flips - 1 /\ UNCHANGED <<timers, pending, queued>> /\ flips > 0
            BY <1>2, <2>4 DEF Vblank
        <3>2. timers' \in Nat /\ flips' \in {0, 1}
            BY <3>1 DEF RepaintTypes
        <3>3. pending' \in BOOLEAN /\ queued' \in BOOLEAN
            BY <3>1 DEF RepaintTypes
        <3> QED
            BY <2>1, <2>4, <3>1, <3>2, <3>3 DEF RepaintTypes, ChainAlive, FramesHaveVblanks
    <2> QED
        BY <2>2, <2>3, <2>4
<1>3. CASE Kick
    BY <1>3, BoundsAssumption DEF Kick, RepaintTypes, ChainAlive, FramesHaveVblanks
<1>4. CASE OutputCreated
    <2>1. RenderSurface(timers, TRUE) /\ timers \in Nat /\ lit'
        BY <1>4 DEF OutputCreated, RepaintTypes
    <2>2. /\ timers' \in Nat /\ flips' \in {0, 1}
          /\ pending' \in BOOLEAN /\ queued' \in BOOLEAN /\ damage' \in BOOLEAN
          /\ timers' > 0 \/ flips' > 0
          /\ FramesHaveVblanks'
        BY <2>1, RenderContinues
    <2> QED
        BY <1>4, <2>2, UpsetType DEF OutputCreated, RepaintTypes, ChainAlive
<1>5. CASE OutputDestroyed
    BY <1>5, UpsetType DEF OutputDestroyed, RepaintTypes, ChainAlive, FramesHaveVblanks
<1>6. CASE PauseSession
    BY <1>6, UpsetType DEF PauseSession, RepaintTypes, ChainAlive, FramesHaveVblanks
<1>7. CASE ResumeSession
    <2>1. CASE lit
        <3>1. RenderSurface(timers, TRUE) /\ timers \in Nat /\ lit'
            BY <1>7, <2>1 DEF ResumeSession, RepaintTypes
        <3>2. /\ timers' \in Nat /\ flips' \in {0, 1}
              /\ pending' \in BOOLEAN /\ queued' \in BOOLEAN /\ damage' \in BOOLEAN
              /\ timers' > 0 \/ flips' > 0
              /\ FramesHaveVblanks'
            BY <3>1, RenderContinues
        <3> QED
            BY <1>7, <3>2, UpsetType DEF ResumeSession, RepaintTypes, ChainAlive
    <2>2. CASE ~lit
        BY <1>7, <2>2, UpsetType
           DEF ResumeSession, RepaintTypes, ChainAlive, FramesHaveVblanks, frames
    <2> QED
        BY <2>1, <2>2
<1>8. CASE Trouble
    BY <1>8, UpsetType DEF Trouble, RepaintTypes, ChainAlive, FramesHaveVblanks, frames
<1>10. CASE ContentChanges
    BY <1>10 DEF ContentChanges, RepaintTypes, ChainAlive, FramesHaveVblanks, frames
<1>9. CASE UNCHANGED chain
    BY <1>9 DEF chain, RepaintTypes, ChainAlive, FramesHaveVblanks
<1> QED
    BY <1>1, <1>2, <1>3, <1>4, <1>5, <1>6, <1>7, <1>8, <1>9, <1>10 DEF RepaintNext

\* The invariant holds in every reachable state.
THEOREM RepaintInvHolds == RepaintSpec => []RepaintInv
BY RepaintInitInv, RepaintStepInv, PTL DEF RepaintSpec

\* An output of a session that owns the VT always has a next repaint.
THEOREM NeverStalls == RepaintSpec => []ChainAlive
<1>1. RepaintInv => ChainAlive
    BY DEF RepaintInv
<1> QED
    BY RepaintInvHolds, <1>1, PTL

\* Renders and vblanks never make two chains of one.
THEOREM NeverForks == RepaintSpec => ChainsNeverFork
<1>1. RepaintInv /\ TimerFires => Chains' <= Chains
    <2> SUFFICES ASSUME RepaintInv, TimerFires PROVE Chains' <= Chains
        OBVIOUS
    <2>1. /\ timers - 1 \in Nat /\ timers \in Nat /\ flips \in {0, 1}
          /\ damage \in BOOLEAN
        BY DEF TimerFires, RepaintInv, RepaintTypes
    <2>2. CASE lit
        <3>1. RenderSurface(timers - 1, damage) /\ lit'
            BY <2>2 DEF TimerFires
        <3>2. Chains' <= Chains - timers + (timers - 1) + 1
            BY <2>1, <3>1, RenderContinues
        <3>3. Chains \in Int /\ Chains' \in Int
            BY <2>1, <3>1, RenderContinues DEF Chains
        <3> QED
            BY <2>1, <3>2, <3>3
    <2>3. CASE ~lit
        BY <2>1, <2>3 DEF TimerFires, Chains
    <2> QED
        BY <2>2, <2>3
<1>2. RepaintInv /\ Vblank => Chains' <= Chains
    BY DEF RepaintInv, RepaintTypes, FramesHaveVblanks, Vblank, Chains
<1>3. RepaintInv /\ [RepaintNext]_chain => [TimerFires \/ Vblank => Chains' <= Chains]_chain
    BY <1>1, <1>2
<1> QED
    BY RepaintInvHolds, <1>3, PTL DEF RepaintSpec, ChainsNeverFork
=============================================================================
