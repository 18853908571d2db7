-------------------------- MODULE DiscoveryProofs --------------------------
(***************************************************************************)
(* Proofs about Discovery, for any number of instances, display names and  *)
(* clients: the socket files are those of running and of crashed           *)
(* instances, katnipc never guesses between running ones, its tries are    *)
(* executed in the order they were made, and what it reports as a success  *)
(* was executed unless an instance crashed over it.                        *)
(***************************************************************************)
EXTENDS Discovery, FiniteSetTheorems, SequenceTheorems, TLAPS

InstanceTypes ==
    /\ proc \in [Instance -> {"new", "named", "cleared", "running", "ended", "cleaned",
                              "gone", "crashed"}]
    /\ name \in [Instance -> Display \union {NoDisplay}]
    /\ files \in [Display -> Instance \union {NoInstance}]

ConnectionTypes ==
    /\ queue \in [Instance -> Seq(Try)]
    /\ serving \in [Instance -> Try \union {NoTry}]
    /\ read \in [Instance -> BOOLEAN]
    /\ pc \in [Client -> {"idle", "chosen", "waiting", "ok", "failed"}]
    /\ path \in [Client -> Display \union {NoDisplay}]
    /\ tries \in [Client -> Seq(Display \union {Found})]
    /\ reply \in [Client -> {"none", "answer", "end", "reset"}]
    /\ ran \in [Client -> Seq(1..MaxTries)]

\* The part about the instances, and the part about what connects to them.
InstancesInv ==
    InstanceTypes /\ NamesHeld /\ FilesOwned /\ RunningKeepsSocket /\ OnlyCrashesLeaveFiles
ConnectionsInv == ConnectionTypes /\ TriesCounted

\* The invariant in its two parts: about the instances and about connections.
LEMMA Parts == DiscoveryInv <=> InstancesInv /\ ConnectionsInv
BY DEF DiscoveryInv, InstancesInv, ConnectionsInv, TypeOK, InstanceTypes, ConnectionTypes

-----------------------------------------------------------------------------
(* The least display name *)

\* If no member were the least, the lower bounds could be shifted into
\* themselves without 0, though there are finitely many.
LEMMA LeastMember ==
    ASSUME NEW n \in Nat, NEW S \in SUBSET (0..n), S # {}
    PROVE  Min(S) \in S
<1>1. SUFFICES \E x \in S : \A y \in S : x =< y
  BY DEF Min
<1>2. SUFFICES ASSUME \A x \in S : \E y \in S : y < x PROVE FALSE
  OBVIOUS
<1> DEFINE A == {k \in 0..n : \A y \in S : k =< y}
           f == [k \in A |-> k + 1]
<1>3. IsFiniteSet(A)
  <2>1. IsFiniteSet(0..n) /\ A \in SUBSET (0..n)
    BY FS_Interval
  <2>2. QED
    BY <2>1, FS_Subset
<1>4. 0 \in A
  OBVIOUS
<1>5. \A k \in A : k + 1 \in A \ {0}
  <2> SUFFICES ASSUME NEW k \in A PROVE k + 1 \in A \ {0}
    OBVIOUS
  <2>1. k \in Nat /\ \A y \in S : y \in Nat /\ y <= n /\ k < y
    BY <1>2
  <2>2. k + 1 \in 0..n /\ \A y \in S : k + 1 =< y
    <3>1. PICK y \in S : TRUE
      OBVIOUS
    <3>2. y \in Nat /\ k < y /\ y <= n
      BY <2>1, <3>1
    <3>3. k + 1 \in 0..n
      BY <2>1, <3>2
    <3>4. ASSUME NEW z \in S PROVE k + 1 =< z
      BY <2>1
    <3>5. QED
      BY <3>3, <3>4
  <2>3. QED
    BY <2>1, <2>2
<1>6. f \in Injection(A, A \ {0})
  <2>1. f \in [A -> A \ {0}]
    BY <1>5
  <2>2. \A k, l \in A : f[k] = f[l] => k = l
    OBVIOUS
  <2>3. QED
    BY <2>1, <2>2 DEF Injection, IsInjective
<1>7. /\ IsFiniteSet(A \ {0})
      /\ Cardinality(A \ {0}) = Cardinality(A) - 1
      /\ Cardinality(A) \in Nat
  BY <1>3, <1>4, FS_RemoveElement, FS_CardinalityType
<1> HIDE DEF A, f
<1>8. Cardinality(A) <= Cardinality(A \ {0})
  BY <1>6, <1>7, FS_Injection
<1>9. QED
  BY <1>7, <1>8

\* The display an instance gets is the first that is free.
LEMMA LeastDisplay ==
    ASSUME NEW S \in SUBSET Display, S # {}
    PROVE  Min(S) \in S
<1>1. Displays - 1 \in Nat
  <2>1. PICK d \in S : TRUE
    OBVIOUS
  <2>2. d \in 0..(Displays - 1) /\ Displays \in Nat
    BY <2>1, BoundsAssumption DEF Display
  <2>3. QED
    BY <2>2
<1>2. QED
  BY <1>1, LeastMember DEF Display

\* A single socket is the one discover_socket returns.
LEMMA OnlySocket ==
    ASSUME Cardinality(Socks) = 1
    PROVE  Socks = {Min(Socks)} /\ Min(Socks) \in Display
<1>1. IsFiniteSet(Socks)
  <2>1. IsFiniteSet(Display) /\ Socks \in SUBSET Display
    BY FS_Interval, BoundsAssumption DEF Display, Socks
  <2>2. QED
    BY <2>1, FS_Subset
<1>2. PICK d : Socks = {d}
  BY <1>1, FS_Singleton
<1>3. Min(Socks) \in Socks /\ Socks \subseteq Display
  BY <1>2, LeastDisplay DEF Socks
<1>4. QED
  BY <1>2, <1>3

-----------------------------------------------------------------------------
(* The instances *)

\* The name taken is one that nobody holds, so no two processes hold it after.
LEMMA TakeNameStep ==
    ASSUME InstancesInv, NEW i \in Instance, TakeName(i)
    PROVE  InstancesInv'
<1> DEFINE free == Display \ {name[j] : j \in {k \in Instance : Holds(k)}}
<1>1. /\ proc[i] = "new" /\ proc' = [proc EXCEPT ![i] = "named"]
      /\ name' = [name EXCEPT ![i] = Min(free)] /\ files' = files
  BY DEF TakeName
<1>2. Min(free) \in Display /\ \A j \in Instance : Holds(j) => name[j] # Min(free)
  <2>1. Min(free) \in free
    BY LeastDisplay DEF TakeName
  <2> HIDE DEF free
  <2>2. QED
    BY <2>1 DEF free
<1> HIDE DEF free
<1>3. InstanceTypes'
  BY <1>1, <1>2 DEF InstancesInv, InstanceTypes
<1>4. \A j \in Instance : (j # i => proc'[j] = proc[j] /\ name'[j] = name[j])
                           /\ proc'[i] = "named" /\ name'[i] = Min(free)
  BY <1>1 DEF InstancesInv, InstanceTypes
<1>5. NamesHeld'
  BY <1>2, <1>4 DEF InstancesInv, NamesHeld, Holds
<1>6. \A d \in Socks' : d \in Socks /\ files'[d] # i /\ files[d] \in Instance /\ files'[d] = files[d]
  BY <1>1 DEF InstancesInv, InstanceTypes, FilesOwned, Socks
<1>7. FilesOwned' /\ OnlyCrashesLeaveFiles'
  BY <1>4, <1>6 DEF InstancesInv, FilesOwned, OnlyCrashesLeaveFiles, Listens
<1>8. RunningKeepsSocket'
  BY <1>1, <1>4 DEF InstancesInv, RunningKeepsSocket, Running
<1>9. QED
  BY <1>3, <1>5, <1>7, <1>8 DEF InstancesInv

\* The holder i of a display name rewrites the file under that name: every other
\* process that holds one holds another.
LEMMA FileStep ==
    ASSUME InstancesInv, NEW i \in Instance, Holds(i),
           NEW v \in {"cleared", "running", "cleaned"}, NEW f \in {i, NoInstance},
           proc' = [proc EXCEPT ![i] = v], name' = name,
           files' = [files EXCEPT ![name[i]] = f],
           f = i <=> v = "running"
    PROVE  InstancesInv'
<1>1. name[i] \in Display /\ NoInstance \notin Instance
  BY BoundsAssumption DEF InstancesInv, NamesHeld
<1>2. InstanceTypes'
  BY <1>1 DEF InstancesInv, InstanceTypes
<1>3. /\ proc'[i] = v
      /\ \A j \in Instance \ {i} : proc'[j] = proc[j]
      /\ files'[name[i]] = f
      /\ \A d \in Display \ {name[i]} : files'[d] = files[d]
  BY <1>1 DEF InstancesInv, InstanceTypes
<1>4. NamesHeld'
  BY <1>3 DEF InstancesInv, NamesHeld, Holds
<1>5. \A d \in Display \ {name[i]} : d \in Socks => files[d] # i /\ files[d] \in Instance
  BY DEF InstancesInv, FilesOwned, Socks, InstanceTypes
<1>6. FilesOwned' /\ OnlyCrashesLeaveFiles'
  <2> SUFFICES ASSUME NEW d \in Socks'
               PROVE  /\ name[files'[d]] = d
                      /\ proc'[files'[d]] \in {"running", "ended", "crashed"}
    BY DEF FilesOwned, OnlyCrashesLeaveFiles, Listens
  <2>1. CASE d = name[i]
    BY <1>1, <1>3, <2>1 DEF Socks
  <2>2. CASE d # name[i]
    BY <1>3, <1>5, <2>2 DEF InstancesInv, FilesOwned, Socks
  <2>3. QED
    BY <2>1, <2>2
<1>7. RunningKeepsSocket'
  <2> SUFFICES ASSUME NEW j \in Instance, proc'[j] = "running"
               PROVE  files'[name[j]] = j
    BY DEF RunningKeepsSocket, Running
  <2>1. CASE j = i
    BY <1>1, <1>3, <2>1
  <2>2. CASE j # i
    <3>1. Running(j) /\ Holds(j)
      BY <1>3, <2>2 DEF Running, Holds
    <3>2. name[j] \in Display \ {name[i]}
      BY <2>2, <3>1 DEF InstancesInv, NamesHeld
    <3>3. QED
      BY <1>3, <3>1, <3>2 DEF InstancesInv, RunningKeepsSocket
  <2>3. QED
    BY <2>1, <2>2
<1>8. QED
  BY <1>2, <1>4, <1>6, <1>7 DEF InstancesInv

\* A process goes on without a change of files: to its end after it removed its
\* socket or when it could not bind, or to the cleanup, or by a crash.
LEMMA ProcessStep ==
    ASSUME InstancesInv, NEW i \in Instance, Holds(i),
           NEW v \in {"ended", "gone", "crashed"},
           proc' = [proc EXCEPT ![i] = v], name' = name, files' = files,
           v = "gone" => proc[i] \in {"cleared", "cleaned"}
    PROVE  InstancesInv'
<1>1. InstanceTypes'
  BY DEF InstancesInv, InstanceTypes
<1>2. proc'[i] = v /\ \A j \in Instance \ {i} : proc'[j] = proc[j]
  BY DEF InstancesInv, InstanceTypes
<1>3. NamesHeld'
  BY <1>2 DEF InstancesInv, NamesHeld, Holds
<1>4. FilesOwned' /\ OnlyCrashesLeaveFiles'
  <2> SUFFICES ASSUME NEW d \in Socks'
               PROVE  /\ name[files[d]] = d
                      /\ proc'[files[d]] \in {"running", "ended", "crashed"}
    BY DEF FilesOwned, OnlyCrashesLeaveFiles, Listens
  <2>1. /\ d \in Socks /\ files[d] \in Instance /\ name[files[d]] = d
        /\ proc[files[d]] \in {"running", "ended", "crashed"}
    BY DEF InstancesInv, FilesOwned, Socks, InstanceTypes
  <2>2. QED
    BY <1>2, <2>1
<1>5. RunningKeepsSocket'
  BY <1>2 DEF InstancesInv, RunningKeepsSocket, Running
<1>6. QED
  BY <1>1, <1>3, <1>4, <1>5 DEF InstancesInv

\* Every step keeps the part about the instances.
LEMMA InstancesStep == InstancesInv /\ [Next]_vars => InstancesInv'
<1> SUFFICES ASSUME InstancesInv, [Next]_vars PROVE InstancesInv'
  OBVIOUS
<1>1. ASSUME NEW i \in Instance, ClearStale(i) PROVE InstancesInv'
  <2>1. Holds(i)
    BY <1>1 DEF ClearStale, Holds
  <2>2. /\ proc' = [proc EXCEPT ![i] = "cleared"] /\ name' = name
        /\ files' = [files EXCEPT ![name[i]] = NoInstance]
    BY <1>1 DEF ClearStale
  <2>3. NoInstance # i
    BY BoundsAssumption
  <2>4. QED
    BY <2>1, <2>2, <2>3, FileStep
<1>2. ASSUME NEW i \in Instance, Bind(i) PROVE InstancesInv'
  <2>1. Holds(i) /\ name' = name /\ proc[i] = "cleared"
    BY <1>2 DEF Bind, Holds
  <2>2. CASE files[name[i]] = NoInstance
    <3>1. proc' = [proc EXCEPT ![i] = "running"] /\ files' = [files EXCEPT ![name[i]] = i]
      BY <1>2, <2>2 DEF Bind
    <3>2. QED
      BY <2>1, <3>1, FileStep
  <2>3. CASE files[name[i]] # NoInstance
    <3>1. proc' = [proc EXCEPT ![i] = "gone"] /\ files' = files
      BY <1>2, <2>3 DEF Bind
    <3>2. QED
      BY <2>1, <3>1, ProcessStep
  <2>4. QED
    BY <2>2, <2>3
<1>3. ASSUME NEW i \in Instance, Cleanup(i) PROVE InstancesInv'
  <2>1. Holds(i)
    BY <1>3 DEF Cleanup, Holds
  <2>2. /\ proc' = [proc EXCEPT ![i] = "cleaned"] /\ name' = name
        /\ files' = [files EXCEPT ![name[i]] = NoInstance]
    BY <1>3 DEF Cleanup
  <2>3. NoInstance # i
    BY BoundsAssumption
  <2>4. QED
    BY <2>1, <2>2, <2>3, FileStep
<1>4. ASSUME NEW i \in Instance, EndLoop(i) \/ Exit(i) \/ Crash(i) PROVE InstancesInv'
  <2>1. Holds(i)
    BY <1>4 DEF EndLoop, Exit, Crash, Holds, Running
  <2>2. name' = name /\ files' = files
    BY <1>4 DEF EndLoop, Exit, Crash
  <2>3. \/ proc' = [proc EXCEPT ![i] = "ended"]
        \/ proc' = [proc EXCEPT ![i] = "gone"] /\ proc[i] = "cleaned"
        \/ proc' = [proc EXCEPT ![i] = "crashed"]
    BY <1>4 DEF EndLoop, Exit, Crash
  <2>4. QED
    BY <2>1, <2>2, <2>3, ProcessStep
<1>5. CASE UNCHANGED instances
  BY <1>5 DEF instances, InstancesInv, InstanceTypes, NamesHeld, Holds, FilesOwned, Socks,
              RunningKeepsSocket, Running, OnlyCrashesLeaveFiles, Listens
<1>6. CASE \E i \in Instance : Accept(i) \/ ReadLine(i) \/ Execute(i)
  BY <1>5, <1>6 DEF Accept, ReadLine, Execute
<1>7. CASE \E c \in Client : \/ \E d \in Display : ChooseExplicit(c, d)
                             \/ Discover(c) \/ Connect(c) \/ Finish(c) \/ GiveUp(c)
  BY <1>5, <1>7 DEF ChooseExplicit, Discover, Connect, Finish, GiveUp
<1>8. CASE UNCHANGED vars
  BY <1>5, <1>8 DEF vars
<1>9. QED
  BY <1>1, <1>2, <1>3, <1>4, <1>6, <1>7, <1>8, TakeNameStep DEF Next

-----------------------------------------------------------------------------
(* The connections *)

\* Every step keeps the part about connections.
LEMMA ConnectionsStep == InstancesInv /\ ConnectionsInv /\ [Next]_vars => ConnectionsInv'
<1> SUFFICES ASSUME InstancesInv, ConnectionsInv, [Next]_vars PROVE ConnectionsInv'
  OBVIOUS
<1> USE DEF ConnectionsInv, ConnectionTypes
<1>1. ASSUME NEW i \in Instance, TakeName(i) \/ ClearStale(i) \/ Bind(i) \/ EndLoop(i) \/ Cleanup(i)
      PROVE  ConnectionsInv'
  BY <1>1 DEF TakeName, ClearStale, Bind, EndLoop, Cleanup, server, clients, TriesCounted
<1>2. ASSUME NEW i \in Instance, Accept(i) PROVE ConnectionsInv'
  <2>1. queue[i] \in Seq(Try) /\ queue[i] # <<>>
    BY <1>2 DEF Accept
  <2>2. Head(queue[i]) \in Try /\ Tail(queue[i]) \in Seq(Try)
    BY <2>1, HeadTailProperties
  <2>3. QED
    BY <1>2, <2>2 DEF Accept, clients, TriesCounted
<1>3. ASSUME NEW i \in Instance, ReadLine(i) PROVE ConnectionsInv'
  BY <1>3 DEF ReadLine, clients, TriesCounted
<1>4. ASSUME NEW i \in Instance, Execute(i) PROVE ConnectionsInv'
  <2>1. PICK t \in Try : t = serving[i]
    BY <1>4 DEF Execute
  <2>2. t.client \in Client /\ t.nr \in 1..MaxTries
    BY DEF Try
  <2>3. Append(ran[t.client], t.nr) \in Seq(1..MaxTries)
    BY <2>2, AppendProperties
  <2>4. QED
    BY <1>4, <2>1, <2>2, <2>3 DEF Execute, clients, TriesCounted
<1>5. ASSUME NEW i \in Instance, Exit(i) \/ Crash(i) PROVE ConnectionsInv'
  <2>1. <<>> \in Seq(Try)
    OBVIOUS
  <2>2. reply' \in [Client -> {"none", "answer", "end", "reset"}]
    BY <1>5 DEF Exit, Crash, Close
  <2>3. QED
    BY <1>5, <2>1, <2>2 DEF Exit, Crash, Close, clients, TriesCounted
<1>6. ASSUME NEW c \in Client, NEW how \in Display \union {Found}, Call(c, how),
             UNCHANGED <<server, ran>>,
             \/ pc' = [pc EXCEPT ![c] = "failed"] /\ path' = path
             \/ pc' = [pc EXCEPT ![c] = "chosen"] /\ \E d \in Display : path' = [path EXCEPT ![c] = d]
      PROVE  ConnectionsInv'
  <2>1. /\ tries[c] \in Seq(Display \union {Found}) /\ Len(tries[c]) < MaxTries
        /\ tries' = [tries EXCEPT ![c] = Append(@, how)]
        /\ reply' = [reply EXCEPT ![c] = "none"]
    BY <1>6 DEF Call
  <2>2. /\ Append(tries[c], how) \in Seq(Display \union {Found})
        /\ Len(Append(tries[c], how)) = Len(tries[c]) + 1
        /\ Len(tries[c]) \in Nat
        /\ Append(tries[c], how) # <<>>
    BY <2>1, AppendProperties, LenProperties
  <2>3. MaxTries \in Nat
    BY BoundsAssumption
  <2>4. ConnectionTypes'
    BY <1>6, <2>1, <2>2 DEF server
  <2>5. TriesCounted'
    BY <1>6, <2>1, <2>2, <2>3 DEF TriesCounted
  <2>6. QED
    BY <2>4, <2>5
<1>7. ASSUME NEW c \in Client, NEW d \in Display, ChooseExplicit(c, d) PROVE ConnectionsInv'
  BY <1>6, <1>7 DEF ChooseExplicit
<1>8. ASSUME NEW c \in Client, Discover(c) PROVE ConnectionsInv'
  <2>1. Cardinality(Socks) = 1 => Min(Socks) \in Display
    BY OnlySocket
  <2>2. QED
    BY <1>6, <1>8, <2>1 DEF Discover
<1>9. ASSUME NEW c \in Client, Connect(c) PROVE ConnectionsInv'
  <2> DEFINE i == files[path[c]]
  <2>1. UNCHANGED <<serving, read, path, tries, reply, ran>> /\ pc[c] = "chosen"
    BY <1>9 DEF Connect
  <2>2. CASE pc' = [pc EXCEPT ![c] = "failed"] /\ queue' = queue
    BY <2>1, <2>2 DEF TriesCounted
  <2>3. CASE /\ i # NoInstance
             /\ pc' = [pc EXCEPT ![c] = "waiting"]
             /\ queue' = [queue EXCEPT ![i] = Append(@, Latest(c))]
    <3>1. i \in Instance
      BY <2>1, <2>3 DEF TriesCounted, InstancesInv, InstanceTypes
    <3>2. Latest(c) \in Try
      <4>1. tries[c] \in Seq(Display \union {Found}) /\ tries[c] # <<>> /\ Len(tries[c]) <= MaxTries
        BY <2>1 DEF TriesCounted
      <4>2. Len(tries[c]) \in 1..MaxTries
        BY <4>1, EmptySeq, LenProperties, BoundsAssumption
      <4>3. QED
        BY <4>2 DEF Latest, Try
    <3>3. Append(queue[i], Latest(c)) \in Seq(Try)
      BY <3>1, <3>2, AppendProperties
    <3> HIDE DEF i
    <3>4. QED
      BY <2>1, <2>3, <3>1, <3>3 DEF TriesCounted
  <2>4. QED
    BY <1>9, <2>2, <2>3 DEF Connect
<1>10. ASSUME NEW c \in Client, Finish(c) \/ GiveUp(c) PROVE ConnectionsInv'
  BY <1>10 DEF Finish, GiveUp, server, TriesCounted
<1>11. CASE UNCHANGED vars
  BY <1>11 DEF vars, server, clients, TriesCounted
<1>12. QED
  BY <1>1, <1>2, <1>3, <1>4, <1>5, <1>7, <1>8, <1>9, <1>10, <1>11 DEF Next

-----------------------------------------------------------------------------
(* The theorems *)

\* Both parts hold at the start.
LEMMA InitialState == Init => InstancesInv /\ ConnectionsInv
<1> SUFFICES ASSUME Init PROVE InstancesInv /\ ConnectionsInv
  OBVIOUS
<1>1. <<>> \in Seq(Try) /\ <<>> \in Seq(Display \union {Found}) /\ <<>> \in Seq(1..MaxTries)
      /\ Len(<<>>) <= MaxTries
  BY BoundsAssumption
<1>2. ConnectionsInv
  BY <1>1 DEF Init, ConnectionsInv, ConnectionTypes, TriesCounted
<1>3. InstancesInv
  BY DEF Init, InstancesInv, InstanceTypes, NamesHeld, Holds, FilesOwned, Socks,
         RunningKeepsSocket, Running, OnlyCrashesLeaveFiles, Listens
<1>4. QED
  BY <1>2, <1>3

\* The sockets in the runtime directory are those of the running instances and of
\* crashed ones, for any number of instances that start, stop and crash in any
\* order.
THEOREM SocketsInOrder == Spec => []DiscoveryInv
<1>1. InstancesInv /\ ConnectionsInv /\ [Next]_vars => (InstancesInv /\ ConnectionsInv)'
  BY InstancesStep, ConnectionsStep
<1>2. InstancesInv /\ ConnectionsInv => DiscoveryInv
  BY Parts
<1>3. QED
  BY InitialState, <1>1, <1>2, PTL DEF Spec

\* When katnipc finds a socket by itself, every running instance is the one it
\* found: there is at most one.
THEOREM NoGuess == Spec => NeverGuesses
<1>1. ASSUME DiscoveryInv, [Next]_vars, NEW c \in Client,
             pc[c] # "chosen", pc'[c] = "chosen", Last(tries'[c]) = Found,
             NEW i \in Instance, Running(i)
      PROVE  name[i] = path'[c]
  <2>1. ConnectionTypes /\ RunningKeepsSocket /\ NamesHeld
    BY <1>1, Parts DEF DiscoveryInv, ConnectionsInv
  <2>2. ASSUME NEW d \in Display, ChooseExplicit(c, d) PROVE FALSE
    <3>1. tries'[c] = Append(tries[c], d) /\ tries[c] \in Seq(Display \union {Found})
      BY <2>1, <2>2 DEF ChooseExplicit, Call, ConnectionTypes
    <3>2. Last(tries'[c]) = d
      BY <3>1 DEF Last
    <3>3. QED
      BY <1>1, <3>2, BoundsAssumption DEF Found, Display
  <2>3. Discover(c)
    <3>1. pc' # pc
      BY <1>1
    <3>2. \A e \in Client : e # c /\ (\/ \E d \in Display : ChooseExplicit(e, d)
                                      \/ Discover(e) \/ Connect(e) \/ Finish(e) \/ GiveUp(e))
                            => pc'[c] = pc[c]
      BY <2>1 DEF ChooseExplicit, Discover, Connect, Finish, GiveUp, ConnectionTypes
    <3>3. ~Connect(c) /\ ~Finish(c) /\ ~GiveUp(c)
      BY <1>1, <2>1 DEF Connect, Finish, GiveUp, ConnectionTypes
    <3>4. \A j \in Instance : ~(\/ TakeName(j) \/ ClearStale(j) \/ Bind(j) \/ Accept(j)
                                \/ ReadLine(j) \/ Execute(j) \/ EndLoop(j) \/ Cleanup(j)
                                \/ Exit(j) \/ Crash(j))
      BY <3>1 DEF TakeName, ClearStale, Bind, Accept, ReadLine, Execute, EndLoop, Cleanup,
                  Exit, Crash, clients
    <3>5. ~UNCHANGED vars
      BY <3>1 DEF vars, clients
    <3>6. QED
      BY <1>1, <2>2, <3>2, <3>3, <3>4, <3>5 DEF Next
  <2>4. Cardinality(Socks) = 1 /\ path' = [path EXCEPT ![c] = Min(Socks)]
    BY <1>1, <2>1, <2>3 DEF Discover, ConnectionTypes
  <2>5. path'[c] = Min(Socks) /\ Socks = {Min(Socks)}
    BY <2>1, <2>4, OnlySocket DEF ConnectionTypes
  <2>6. name[i] \in Display /\ files[name[i]] = i
    BY <1>1, <2>1 DEF RunningKeepsSocket, NamesHeld, Holds, Running
  <2>7. name[i] \in Socks
    BY <2>6, BoundsAssumption DEF Socks
  <2>8. QED
    BY <2>5, <2>7
<1>2. DiscoveryInv /\ [Next]_vars =>
         [\A c \in Client :
             pc[c] # "chosen" /\ pc'[c] = "chosen" /\ Last(tries'[c]) = Found
             => \A i \in Instance : Running(i) => name[i] = path'[c]]_vars
  BY <1>1
<1>3. QED
  BY SocketsInOrder, <1>2, PTL DEF Spec, NeverGuesses

-----------------------------------------------------------------------------
(* What is pending, and what has been executed *)

\* The connections of instance i that have neither been executed nor closed.
Pend(i) == Range(queue[i]) \union ({serving[i]} \ {NoTry})

\* How the try t chose its socket.
How(t) == tries[t.client][t.nr]

\* Only a running instance serves, and only one that listens has a queue.
Served ==
    \A i \in Instance :
        /\ serving[i] # NoTry => Running(i)
        /\ queue[i] # <<>> => Listens(i)

\* A try that is connected or executed has been made, and is not the one about to
\* connect.
Made(c, n) == n <= Len(tries[c]) /\ (pc[c] = "chosen" => n < Len(tries[c]))

PendingMade == \A i \in Instance : \A t \in Pend(i) : Made(t.client, t.nr)

RanMade == \A c \in Client : \A n \in Range(ran[c]) : Made(c, n)

\* The connections of one client at one instance are in the order of its tries.
Fifo ==
    \A i \in Instance :
        /\ \A k, l \in DOMAIN queue[i] :
              k < l /\ queue[i][k].client = queue[i][l].client
              => queue[i][k].nr < queue[i][l].nr
        /\ \A k \in DOMAIN queue[i] :
              serving[i].client = queue[i][k].client => serving[i].nr < queue[i][k].nr

\* A connection is at an instance of the name it chose.  When the client is about to
\* connect again in the same way, a running instance it is connected to is the one
\* it has chosen again.
Placed ==
    \A i \in Instance : \A t \in Pend(i) :
        /\ How(t) # Found => name[i] = How(t)
        /\ t = Latest(t.client) => name[i] = path[t.client]
        /\ pc[t.client] = "chosen" /\ Running(i) /\ How(t) = How(Latest(t.client))
           => name[i] = path[t.client]

\* A client about to connect has no reply yet.
Choosing ==
    \A c \in Client : pc[c] = "chosen" =>
        /\ reply[c] = "none"
        /\ How(Latest(c)) # Found => path[c] = How(Latest(c))

\* What a client chose in one way is pending at one running instance.
Together ==
    \A i, j \in Instance : \A t \in Pend(i), u \in Pend(j) :
        t.client = u.client /\ How(t) = How(u) /\ Running(i) /\ Running(j) => i = j

\* What has been executed was made before what is pending.
Ahead ==
    \A i \in Instance : \A t \in Pend(i) : \A n \in Range(ran[t.client]) :
        Running(i) /\ tries[t.client][n] = How(t) => n < t.nr

\* What a reply says.
Replies ==
    \A c \in Client :
        /\ reply[c] # "none" => \A i \in Instance : Latest(c) \notin Pend(i)
        /\ reply[c] = "answer" => Len(tries[c]) \in Range(ran[c])
        /\ reply[c] = "end" => \E i \in Instance : proc[i] = "crashed" /\ name[i] = path[c]
        /\ pc[c] = "ok" => reply[c] \in {"answer", "end"}

\* Everything the order of execution and the replies rest on.
Places == PendingMade /\ Placed /\ Together
Runs == RanMade /\ Ahead /\ RunsInOrder
TriesInv == Served /\ Fifo /\ Places /\ Choosing /\ Runs /\ Replies

\* What waits at an instance are tries of clients.
LEMMA PendTypes ==
    ASSUME ConnectionTypes, NEW i \in Instance, NEW t \in Pend(i)
    PROVE  t \in Try /\ t.client \in Client /\ t.nr \in 1..MaxTries /\ t # NoTry
<1>1. t \in Try
  BY DEF ConnectionTypes, Pend, Range
<1>2. t.client \in Client /\ t.nr \in 1..MaxTries
  BY <1>1 DEF Try
<1>3. NoTry.nr = 0 /\ 0 \notin 1..MaxTries
  BY DEF NoTry
<1>4. QED
  BY <1>1, <1>2, <1>3

\* The latest try of a client is its last one.
LEMMA LatestIs ==
    ASSUME ConnectionTypes, NEW c \in Client
    PROVE  /\ Latest(c).client = c /\ Latest(c).nr = Len(tries[c]) /\ Len(tries[c]) \in Nat
           /\ Latest(c) # NoTry
<1>1. Latest(c).client = c /\ Latest(c).nr = Len(tries[c]) /\ NoTry.client = NoInstance
  BY DEF Latest, NoTry
<1>2. tries[c] \in Seq(Display \union {Found}) /\ c # NoInstance
  BY BoundsAssumption DEF ConnectionTypes
<1>3. QED
  BY <1>1, <1>2, LenProperties

\* The last try of a client is pending at no more than one instance, and not twice.
LEMMA OnePlace ==
    ASSUME InstancesInv, ConnectionTypes, Served, Placed, NEW c \in Client,
           NEW i \in Instance, NEW j \in Instance, Latest(c) \in Pend(i), Latest(c) \in Pend(j)
    PROVE  i = j
<1>1. Latest(c).client = c
  BY LatestIs
<1>2. name[i] = path[c] /\ name[j] = path[c]
  BY <1>1 DEF Placed
<1>3. \A k \in Instance : Pend(k) # {} => Holds(k)
  BY DEF Pend, Range, Served, Running, Listens, Holds, ConnectionTypes
<1>4. QED
  BY <1>2, <1>3 DEF InstancesInv, NamesHeld

-----------------------------------------------------------------------------
(* Steps that add no connection *)

\* Connections that are closed, or go on from the queue, and instances that come
\* up without any, leave the others where they were.
LEMMA FewerPlaces ==
    ASSUME ConnectionTypes, Places, UNCHANGED <<tries, path>>,
           \A c \in Client : pc'[c] = "chosen" => pc[c] = "chosen",
           \A j \in Instance :
              /\ Pend(j)' \subseteq Pend(j)
              /\ Pend(j)' # {} => name'[j] = name[j] /\ (Running(j)' => Running(j))
    PROVE  Places'
<1>1. ASSUME NEW i \in Instance, NEW t \in Pend(i)'
      PROVE  /\ t \in Pend(i) /\ t.client \in Client /\ name'[i] = name[i]
             /\ Running(i)' => Running(i)
             /\ How(t)' = How(t) /\ Latest(t.client)' = Latest(t.client)
             /\ How(Latest(t.client))' = How(Latest(t.client))
  <2>1. t \in Pend(i) /\ name'[i] = name[i] /\ (Running(i)' => Running(i))
    BY <1>1
  <2>2. t.client \in Client
    BY <2>1, PendTypes
  <2>3. QED
    BY <2>1, <2>2 DEF How, Latest
<1>2. PendingMade'
  BY <1>1 DEF PendingMade, Places, Made
<1>3. Placed'
  BY <1>1 DEF Placed, Places
<1>4. Together'
  BY <1>1 DEF Together, Places
<1>5. QED
  BY <1>2, <1>3, <1>4 DEF Places

\* Forgetting what waited to be executed keeps the order of what is.
LEMMA FewerRuns ==
    ASSUME ConnectionTypes, Runs, UNCHANGED <<tries, ran>>,
           \A c \in Client : pc'[c] = "chosen" => pc[c] = "chosen",
           \A j \in Instance :
              /\ Pend(j)' \subseteq Pend(j)
              /\ Pend(j)' # {} => (Running(j)' => Running(j))
    PROVE  Runs'
<1>1. RanMade'
  BY DEF Runs, RanMade, Made
<1>2. Ahead'
  BY DEF Runs, Ahead, How
<1>3. RunsInOrder'
  BY DEF Runs, RunsInOrder
<1>4. QED
  BY <1>1, <1>2, <1>3 DEF Runs

\* An instance without connections comes up or takes a name, or one stops to run.
LEMMA ProcessTries ==
    ASSUME ConnectionTypes, InstanceTypes, TriesInv, NEW i \in Instance,
           TakeName(i) \/ ClearStale(i) \/ Bind(i) \/ EndLoop(i) \/ Cleanup(i)
    PROVE  TriesInv'
<1>1. UNCHANGED <<server, clients, reply, ran>>
  BY DEF TakeName, ClearStale, Bind, EndLoop, Cleanup
<1>2. \A j \in Instance : Pend(j)' = Pend(j)
  BY <1>1 DEF Pend, server
<1>3. \A j \in Instance : j # i => proc'[j] = proc[j] /\ name'[j] = name[j]
  BY DEF TakeName, ClearStale, Bind, EndLoop, Cleanup, InstanceTypes
<1>4. \/ Running(i) /\ serving[i] = NoTry /\ proc'[i] = "ended" /\ name'[i] = name[i]
      \/ proc[i] = "ended" /\ proc'[i] = "cleaned" /\ name'[i] = name[i]
      \/ proc[i] \in {"new", "named", "cleared"}
  BY DEF TakeName, ClearStale, Bind, EndLoop, Cleanup, InstanceTypes
<1>5. proc[i] \in {"new", "named", "cleared"} => queue[i] = <<>> /\ serving[i] = NoTry
  BY DEF TriesInv, Served, Listens, Running
<1>6. proc[i] \in {"new", "named", "cleared"} => Pend(i) = {}
  BY <1>5 DEF Pend, Range
<1>7. \A j \in Instance : /\ Pend(j)' \subseteq Pend(j)
                          /\ Pend(j)' # {} => name'[j] = name[j] /\ (Running(j)' => Running(j))
  BY <1>2, <1>3, <1>4, <1>6 DEF Running
<1>8. Places' /\ Runs'
  BY <1>1, <1>7, FewerPlaces, FewerRuns DEF TriesInv, clients
<1>9. Served'
  BY <1>1, <1>3, <1>4, <1>5 DEF TriesInv, Served, server, Running, Listens
<1>10. Fifo' /\ Choosing'
  BY <1>1 DEF TriesInv, Fifo, Choosing, server, clients, How, Latest
<1>11. Replies'
  <2>1. \A j \in Instance : proc[j] = "crashed" => proc'[j] = "crashed" /\ name'[j] = name[j]
    BY <1>3, <1>4 DEF Running
  <2>2. QED
    BY <1>1, <1>2, <2>1 DEF TriesInv, Replies, clients, Latest
<1>12. QED
  BY <1>8, <1>9, <1>10, <1>11 DEF TriesInv

\* The first connection of the queue is served next.
LEMMA AcceptTries ==
    ASSUME ConnectionTypes, TriesInv, NEW i \in Instance, Accept(i)
    PROVE  TriesInv'
<1>1. /\ UNCHANGED <<instances, read, clients, reply, ran>>
      /\ Running(i) /\ serving[i] = NoTry /\ queue[i] # <<>>
      /\ serving' = [serving EXCEPT ![i] = Head(queue[i])]
      /\ queue' = [queue EXCEPT ![i] = Tail(queue[i])]
  BY DEF Accept
<1>2. /\ queue[i] \in Seq(Try) /\ Len(queue[i]) \in Nat \ {0}
      /\ serving'[i] = queue[i][1] /\ queue'[i] = Tail(queue[i])
      /\ DOMAIN queue'[i] = 1..(Len(queue[i]) - 1) /\ DOMAIN queue[i] = 1..Len(queue[i])
      /\ \A k \in 1..(Len(queue[i]) - 1) : queue'[i][k] = queue[i][k + 1]
      /\ \A j \in Instance : j # i => queue'[j] = queue[j] /\ serving'[j] = serving[j]
  <2>1. queue[i] \in Seq(Try)
    BY DEF ConnectionTypes
  <2>2. serving'[i] = Head(queue[i]) /\ queue'[i] = Tail(queue[i])
    BY <1>1 DEF ConnectionTypes
  <2>3. \A j \in Instance : j # i => queue'[j] = queue[j] /\ serving'[j] = serving[j]
    BY <1>1 DEF ConnectionTypes
  <2>4. ASSUME NEW q \in Seq(Try), q # <<>>
        PROVE  /\ Len(q) \in Nat \ {0} /\ Head(q) = q[1] /\ DOMAIN q = 1..Len(q)
               /\ DOMAIN Tail(q) = 1..(Len(q) - 1)
               /\ \A k \in 1..(Len(q) - 1) : Tail(q)[k] = q[k + 1]
    BY <2>4
  <2>5. QED
    BY <1>1, <2>1, <2>2, <2>3, <2>4
<1>3. \A j \in Instance : Pend(j)' \subseteq Pend(j)
  <2>1. Pend(i)' \subseteq Pend(i)
    BY <1>2 DEF Pend, Range
  <2>2. QED
    BY <1>2, <2>1 DEF Pend
<1>4. Places' /\ Runs'
  BY <1>1, <1>3, FewerPlaces, FewerRuns DEF TriesInv, clients, instances, Running
<1>5. Served'
  BY <1>1, <1>2 DEF TriesInv, Served, instances, Running, Listens
<1>6. Fifo'
  <2> SUFFICES ASSUME NEW j \in Instance
               PROVE  /\ \A k, l \in DOMAIN queue'[j] :
                            k < l /\ queue'[j][k].client = queue'[j][l].client
                            => queue'[j][k].nr < queue'[j][l].nr
                      /\ \A k \in DOMAIN queue'[j] :
                            serving'[j].client = queue'[j][k].client
                            => serving'[j].nr < queue'[j][k].nr
    BY DEF Fifo
  <2>1. CASE j # i
    BY <1>2, <2>1 DEF TriesInv, Fifo
  <2>2. CASE j = i
    <3>1. \A k, l \in 1..Len(queue[i]) : k < l /\ queue[i][k].client = queue[i][l].client
                                         => queue[i][k].nr < queue[i][l].nr
      BY <1>2 DEF TriesInv, Fifo
    <3>2. ASSUME NEW k \in 1..(Len(queue[i]) - 1), NEW l \in 1..(Len(queue[i]) - 1)
          PROVE  /\ k < l /\ queue'[i][k].client = queue'[i][l].client
                    => queue'[i][k].nr < queue'[i][l].nr
                 /\ serving'[i].client = queue'[i][k].client => serving'[i].nr < queue'[i][k].nr
      <4>1. /\ k + 1 \in 1..Len(queue[i]) /\ l + 1 \in 1..Len(queue[i]) /\ 1 \in 1..Len(queue[i])
            /\ 1 < k + 1 /\ (k < l => k + 1 < l + 1)
        BY <1>2, <3>2
      <4>2. /\ queue'[i][k] = queue[i][k + 1] /\ queue'[i][l] = queue[i][l + 1]
            /\ serving'[i] = queue[i][1]
        BY <1>2, <3>2
      <4>3. QED
        BY <3>1, <4>1, <4>2
    <3>3. QED
      BY <1>2, <2>2, <3>2
  <2>3. QED
    BY <2>1, <2>2
<1>7. Choosing'
  BY <1>1 DEF TriesInv, Choosing, clients, How, Latest
<1>8. Replies'
  BY <1>1, <1>3 DEF TriesInv, Replies, clients, instances, Latest
<1>9. QED
  BY <1>4, <1>5, <1>6, <1>7, <1>8 DEF TriesInv

\* A client stops to wait, or nothing of this changes.
LEMMA WaitTries ==
    ASSUME ConnectionTypes, TriesInv,
           UNCHANGED <<instances, queue, serving, path, tries, reply, ran>>,
           \A d \in Client : \/ pc'[d] = pc[d]
                             \/ pc'[d] = "failed"
                             \/ pc'[d] = "ok" /\ reply[d] \notin {"none", "reset"}
    PROVE  TriesInv'
<1>1. \A j \in Instance : Pend(j)' = Pend(j)
  BY DEF Pend
<1>2. Places' /\ Runs'
  BY <1>1, FewerPlaces, FewerRuns DEF TriesInv, instances, Running
<1>3. Served' /\ Fifo'
  BY DEF TriesInv, Served, Fifo, instances, Running, Listens
<1>4. Choosing'
  BY DEF TriesInv, Choosing, How, Latest
<1>5. Replies'
  <2>1. \A d \in Client : reply[d] \in {"none", "answer", "end", "reset"}
    BY DEF ConnectionTypes
  <2>2. QED
    BY <1>1, <2>1 DEF TriesInv, Replies, instances, Latest
<1>6. QED
  BY <1>2, <1>3, <1>4, <1>5 DEF TriesInv

-----------------------------------------------------------------------------
(* Steps that execute, close or make connections *)

\* The line of the served connection is executed: what else its client has pending
\* in the same way is behind it.
LEMMA ExecuteTries ==
    ASSUME InstancesInv, ConnectionTypes, TriesInv, NEW i \in Instance, Execute(i)
    PROVE  TriesInv'
<1> DEFINE t == serving[i]
           c == t.client
<1>1. /\ t # NoTry /\ UNCHANGED <<instances, queue, clients>>
      /\ ran' = [ran EXCEPT ![c] = Append(@, t.nr)]
      /\ reply' = [reply EXCEPT ![c] = IF t = Latest(c) THEN "answer" ELSE @]
      /\ serving' = [serving EXCEPT ![i] = NoTry]
  BY DEF Execute
<1>2. t \in Pend(i)
  BY <1>1 DEF Pend
<1>3. c \in Client /\ t.nr \in 1..MaxTries
  BY <1>2, PendTypes
<1>4. Running(i)
  BY <1>1 DEF TriesInv, Served
<1> HIDE DEF t, c
<1>5. /\ serving'[i] = NoTry /\ \A j \in Instance : j # i => serving'[j] = serving[j]
      /\ \A d \in Client : d # c => ran'[d] = ran[d] /\ reply'[d] = reply[d]
      /\ ran'[c] = Append(ran[c], t.nr)
      /\ reply'[c] = IF t = Latest(c) THEN "answer" ELSE reply[c]
  BY <1>1, <1>3 DEF ConnectionTypes
<1>6. \A j \in Instance : Pend(j)' \subseteq Pend(j)
  <2>1. Pend(i)' \subseteq Pend(i)
    BY <1>1, <1>5 DEF Pend
  <2>2. QED
    BY <1>1, <1>5, <2>1 DEF Pend
<1>7. /\ UNCHANGED <<proc, name, files, pc, path, tries>>
      /\ \A j \in Instance : Running(j)' = Running(j)
      /\ \A d \in Client : Latest(d)' = Latest(d)
      /\ \A u : How(u)' = How(u)
  BY <1>1 DEF instances, clients, Running, Latest, How
<1>8. Places'
  BY <1>6, <1>7, FewerPlaces DEF TriesInv
<1>9. ASSUME NEW u \in Pend(i)', u.client = c PROVE t.nr < u.nr
  <2>1. u \in Range(queue[i])
    BY <1>1, <1>5 DEF Pend
  <2>2. PICK k \in DOMAIN queue[i] : u = queue[i][k]
    BY <2>1 DEF Range
  <2>3. QED
    BY <1>9, <2>2 DEF TriesInv, Fifo, t, c
<1>10. /\ ran[c] \in Seq(1..MaxTries) /\ Len(ran[c]) \in Nat
       /\ DOMAIN ran[c] = 1..Len(ran[c]) /\ DOMAIN ran'[c] = 1..(Len(ran[c]) + 1)
       /\ ran'[c][Len(ran[c]) + 1] = t.nr
       /\ \A k \in 1..Len(ran[c]) : ran'[c][k] = ran[c][k] /\ ran[c][k] \in Range(ran[c])
       /\ Range(ran'[c]) = Range(ran[c]) \union {t.nr}
  <2>1. ran[c] \in Seq(1..MaxTries)
    BY <1>3 DEF ConnectionTypes
  <2>2. /\ Len(ran[c]) \in Nat /\ DOMAIN ran[c] = 1..Len(ran[c])
        /\ DOMAIN ran'[c] = 1..(Len(ran[c]) + 1)
        /\ ran'[c][Len(ran[c]) + 1] = t.nr
        /\ \A k \in 1..Len(ran[c]) : ran'[c][k] = ran[c][k]
    BY <1>3, <1>5, <2>1
  <2>3. QED
    BY <2>1, <2>2 DEF Range
<1>11. RanMade'
  <2>1. Made(c, t.nr)
    BY <1>2 DEF TriesInv, Places, PendingMade, c
  <2>2. ASSUME NEW d \in Client, NEW n \in Range(ran'[d]) PROVE Made(d, n)
    <3>1. n \in Range(ran[d]) \/ (d = c /\ n = t.nr)
      BY <1>5, <1>10, <2>2
    <3>2. QED
      BY <2>1, <3>1 DEF TriesInv, Runs, RanMade
  <2>3. QED
    BY <1>7, <2>2 DEF RanMade, Made
<1>12. Ahead'
  <2> SUFFICES ASSUME NEW j \in Instance, NEW u \in Pend(j)', NEW n \in Range(ran'[u.client]),
                      Running(j), tries[u.client][n] = How(u)
               PROVE  n < u.nr
    BY <1>7 DEF Ahead
  <2>1. u \in Pend(j) /\ u.client \in Client
    BY <1>6, PendTypes
  <2>2. CASE n \in Range(ran[u.client])
    BY <2>1, <2>2 DEF TriesInv, Runs, Ahead
  <2>3. CASE u.client = c /\ n = t.nr
    <3>1. How(t) = How(u) /\ t.client = u.client
      BY <2>3 DEF How, c
    <3>2. i = j
      BY <1>2, <1>4, <2>1, <3>1 DEF TriesInv, Places, Together
    <3>3. QED
      BY <1>9, <2>3, <3>2
  <2>4. QED
    BY <1>5, <1>10, <2>1, <2>2, <2>3
<1>13. RunsInOrder'
  <2> SUFFICES ASSUME NEW d \in Client, NEW k \in DOMAIN ran'[d], NEW l \in DOMAIN ran'[d],
                      k < l, tries[d][ran'[d][k]] = tries[d][ran'[d][l]]
               PROVE  ran'[d][k] < ran'[d][l]
    BY <1>7 DEF RunsInOrder
  <2>1. CASE d # c
    BY <1>5, <2>1 DEF TriesInv, Runs, RunsInOrder
  <2>2. CASE d = c /\ l # Len(ran[c]) + 1
    <3>1. k \in 1..Len(ran[c]) /\ l \in 1..Len(ran[c])
      BY <1>10, <2>2
    <3>2. QED
      BY <1>3, <1>10, <2>2, <3>1 DEF TriesInv, Runs, RunsInOrder
  <2>3. CASE d = c /\ l = Len(ran[c]) + 1
    <3>1. k \in 1..Len(ran[c])
      BY <1>10, <2>3
    <3>2. ran'[d][l] = t.nr /\ ran'[d][k] = ran[c][k] /\ ran[c][k] \in Range(ran[c])
      BY <1>10, <2>3, <3>1
    <3>3. tries[c][ran[c][k]] = How(t)
      BY <2>3, <3>2 DEF How, c
    <3>4. QED
      BY <1>2, <1>4, <3>2, <3>3 DEF TriesInv, Runs, Ahead, c
  <2>4. QED
    BY <2>1, <2>2, <2>3
<1>14. Served'
  BY <1>1, <1>5, <1>7 DEF TriesInv, Served, Running, Listens
<1>15. Fifo'
  <2>1. queue' = queue
    BY <1>1
  <2>2. ASSUME NEW k \in DOMAIN queue[i] PROVE serving'[i].nr < queue[i][k].nr
    <3>1. queue[i][k] \in Pend(i)
      BY DEF Pend, Range
    <3>2. queue[i][k].nr \in 1..MaxTries /\ serving'[i].nr = 0
      BY <1>5, <3>1, PendTypes DEF NoTry
    <3>3. QED
      BY <3>2, BoundsAssumption
  <2>3. QED
    BY <1>5, <2>1, <2>2 DEF TriesInv, Fifo
<1>16. Choosing'
  <2> SUFFICES ASSUME NEW d \in Client, pc[d] = "chosen" PROVE reply'[d] = reply[d]
    BY <1>7 DEF TriesInv, Choosing
  <2>1. CASE d = c
    <3>1. t.nr < Len(tries[c])
      BY <1>2, <2>1 DEF TriesInv, Places, PendingMade, Made, c
    <3>2. t # Latest(c)
      BY <1>3, <3>1, LatestIs
    <3>3. QED
      BY <1>5, <2>1, <3>2
  <2>2. QED
    BY <1>5, <2>1
<1>17. Replies'
  <2> SUFFICES ASSUME NEW d \in Client
               PROVE  /\ reply'[d] # "none" => \A j \in Instance : Latest(d) \notin Pend(j)'
                      /\ reply'[d] = "answer" => Len(tries[d]) \in Range(ran'[d])
                      /\ reply'[d] = "end" => \E j \in Instance : proc[j] = "crashed" /\ name[j] = path[d]
                      /\ pc[d] = "ok" => reply'[d] \in {"answer", "end"}
    BY <1>7 DEF Replies
  <2>1. CASE d = c /\ t = Latest(c)
    <3>1. reply'[d] = "answer"
      BY <1>5, <2>1
    <3>2. Len(tries[d]) \in Range(ran'[d])
      BY <1>3, <1>10, <2>1, LatestIs
    <3>3. ASSUME NEW j \in Instance, Latest(d) \in Pend(j)' PROVE FALSE
      <4>1. j = i
        BY <1>2, <1>3, <1>6, <2>1, <3>3, OnePlace DEF TriesInv, Places
      <4>2. t \in Pend(i)'
        BY <2>1, <3>3, <4>1
      <4>3. t.nr < t.nr
        BY <1>9, <4>2 DEF c
      <4>4. QED
        BY <1>3, <4>3
    <3>4. QED
      BY <3>1, <3>2, <3>3
  <2>2. CASE ~(d = c /\ t = Latest(c))
    <3>1. reply'[d] = reply[d] /\ Range(ran[d]) \subseteq Range(ran'[d])
      BY <1>5, <1>10, <2>2
    <3>2. QED
      BY <1>6, <3>1 DEF TriesInv, Replies
  <2>3. QED
    BY <2>1, <2>2
<1>18. QED
  BY <1>8, <1>11, <1>12, <1>13, <1>14, <1>15, <1>16, <1>17 DEF TriesInv, Runs

\* The process of an instance ends: its connections are closed, and a client whose
\* line was read learns nothing, but only by a crash.
LEMMA CloseTries ==
    ASSUME InstancesInv, ConnectionTypes, TriesInv, NEW i \in Instance, Exit(i) \/ Crash(i)
    PROVE  TriesInv'
<1>1. /\ UNCHANGED <<name, files, pc, path, tries, ran>> /\ Close(i)
      /\ \/ proc[i] = "cleaned" /\ proc' = [proc EXCEPT ![i] = "gone"]
         \/ Holds(i) /\ proc' = [proc EXCEPT ![i] = "crashed"]
  BY DEF Exit, Crash, clients
<1>2. /\ queue'[i] = <<>> /\ serving'[i] = NoTry
      /\ \A j \in Instance : j # i => queue'[j] = queue[j] /\ serving'[j] = serving[j]
  BY <1>1 DEF Close, ConnectionTypes
<1>3. /\ \A j \in Instance : j # i => proc'[j] = proc[j]
      /\ proc'[i] \in {"gone", "crashed"} /\ proc[i] # "crashed"
      /\ Running(i) => proc'[i] = "crashed"
  BY <1>1 DEF InstancesInv, InstanceTypes, Holds, Running
<1>4. Pend(i)' = {} /\ \A j \in Instance : j # i => Pend(j)' = Pend(j)
  BY <1>2 DEF Pend, Range
<1>5. \A j \in Instance :
         /\ Pend(j)' \subseteq Pend(j)
         /\ Pend(j)' # {} => name'[j] = name[j] /\ (Running(j)' => Running(j))
  BY <1>1, <1>3, <1>4 DEF Running
<1>6. Places' /\ Runs'
  BY <1>1, <1>5, FewerPlaces, FewerRuns DEF TriesInv
<1>7. Served' /\ Fifo'
  BY <1>2, <1>3 DEF TriesInv, Served, Fifo, Running, Listens
<1>8. \A d \in Client :
         \/ reply'[d] = reply[d]
         \/ reply'[d] = "reset" /\ Latest(d) \in Pend(i)
         \/ reply'[d] = "end" /\ Latest(d) \in Pend(i) /\ Latest(d) = serving[i]
  <2> SUFFICES ASSUME NEW d \in Client, reply'[d] # reply[d]
               PROVE  \/ reply'[d] = "reset" /\ Latest(d) \in Pend(i)
                      \/ reply'[d] = "end" /\ Latest(d) \in Pend(i) /\ Latest(d) = serving[i]
    OBVIOUS
  <2>1. Latest(d) # NoTry
    BY LatestIs
  <2>2. Latest(d) \in Range(queue[i]) \/ Latest(d) = serving[i] => Latest(d) \in Pend(i)
    BY <2>1 DEF Pend
  <2>3. reply'[d] = IF Latest(d) \in Range(queue[i]) \/ (Latest(d) = serving[i] /\ ~read[i]) THEN "reset"
                    ELSE IF Latest(d) = serving[i] THEN "end"
                    ELSE reply[d]
    BY <1>1 DEF Close
  <2>4. QED
    BY <2>2, <2>3
<1>9. Choosing'
  <2> SUFFICES ASSUME NEW d \in Client, pc[d] = "chosen" PROVE reply'[d] = reply[d]
    BY <1>1 DEF TriesInv, Choosing, How, Latest
  <2>1. Latest(d) \notin Pend(i)
    <3> SUFFICES ASSUME Latest(d) \in Pend(i) PROVE FALSE
      OBVIOUS
    <3>1. Latest(d).client = d /\ Latest(d).nr = Len(tries[d]) /\ Len(tries[d]) \in Nat
      BY LatestIs
    <3>2. Made(d, Len(tries[d]))
      BY <3>1 DEF TriesInv, Places, PendingMade
    <3>3. QED
      BY <3>1, <3>2 DEF Made
  <2>2. QED
    BY <1>8, <2>1
<1>10. Replies'
  <2> SUFFICES ASSUME NEW d \in Client
               PROVE  /\ reply'[d] # "none" => \A j \in Instance : Latest(d) \notin Pend(j)'
                      /\ reply'[d] = "answer" => Len(tries[d]) \in Range(ran[d])
                      /\ reply'[d] = "end" => \E j \in Instance : proc'[j] = "crashed" /\ name[j] = path[d]
                      /\ pc[d] = "ok" => reply'[d] \in {"answer", "end"}
    BY <1>1 DEF Replies, Latest
  <2>1. CASE reply'[d] = reply[d]
    <3>1. \A j \in Instance : proc[j] = "crashed" => proc'[j] = "crashed"
      BY <1>3
    <3>2. QED
      BY <1>5, <2>1, <3>1 DEF TriesInv, Replies
  <2>2. CASE reply'[d] \in {"reset", "end"} /\ Latest(d) \in Pend(i)
    <3>1. \A j \in Instance : Latest(d) \notin Pend(j)'
      BY <1>4, <2>2, OnePlace DEF TriesInv, Places
    <3>2. reply[d] = "none"
      BY <2>2 DEF TriesInv, Replies
    <3>3. pc[d] # "ok"
      BY <3>2 DEF TriesInv, Replies
    <3>4. ASSUME reply'[d] = "end" PROVE proc'[i] = "crashed" /\ name[i] = path[d]
      <4>1. Latest(d) = serving[i]
        BY <1>8, <3>2, <3>4
      <4>2. Running(i)
        BY <4>1, LatestIs DEF TriesInv, Served
      <4>3. name[i] = path[d]
        BY <2>2, LatestIs DEF TriesInv, Places, Placed
      <4>4. QED
        BY <1>3, <4>2, <4>3
    <3>5. QED
      BY <2>2, <3>1, <3>3, <3>4
  <2>3. QED
    BY <1>8, <2>1, <2>2
<1>11. QED
  BY <1>6, <1>7, <1>9, <1>10 DEF TriesInv

\* A new call of katnipc, that chooses the display name d or fails.
LEMMA CallTries ==
    ASSUME InstancesInv, ConnectionTypes, TriesInv,
           NEW c \in Client, NEW how \in Display \union {Found}, Call(c, how),
           UNCHANGED <<instances, server, ran>>,
           \/ pc' = [pc EXCEPT ![c] = "failed"] /\ path' = path
           \/ /\ pc' = [pc EXCEPT ![c] = "chosen"]
              /\ \E d \in Display :
                    /\ path' = [path EXCEPT ![c] = d]
                    /\ how # Found => d = how
                    /\ how = Found => \A i \in Instance : Running(i) => name[i] = d
    PROVE  TriesInv'
<1> DEFINE n0 == Len(tries[c])
<1>1. /\ tries[c] \in Seq(Display \union {Found}) /\ n0 \in Nat
      /\ pc[c] \in {"idle", "failed"}
      /\ tries'[c] = Append(tries[c], how) /\ reply'[c] = "none"
      /\ \A d \in Client : d # c => tries'[d] = tries[d] /\ reply'[d] = reply[d]
                                 /\ pc'[d] = pc[d] /\ path'[d] = path[d]
      /\ pc'[c] \in {"failed", "chosen"}
  <2>1. tries[c] \in Seq(Display \union {Found})
    BY DEF ConnectionTypes
  <2>2. n0 \in Nat
    BY <2>1, LenProperties
  <2>3. QED
    BY <2>1, <2>2 DEF Call, ConnectionTypes
<1>2. /\ Len(tries'[c]) = n0 + 1 /\ tries'[c][n0 + 1] = how
      /\ \A n \in 1..n0 : tries'[c][n] = tries[c][n]
  BY <1>1
<1> HIDE DEF n0
<1>3. \A j \in Instance : /\ Pend(j)' = Pend(j) /\ Running(j)' = Running(j)
                          /\ name'[j] = name[j] /\ proc'[j] = proc[j]
  BY DEF instances, server, Pend, Running
<1>4. ASSUME NEW j \in Instance, NEW t \in Pend(j)
      PROVE  /\ t.client \in Client /\ t.nr \in 1..MaxTries
             /\ t.client = c => t.nr \in 1..n0
             /\ How(t)' = How(t)
             /\ t.client = c => t # Latest(c)'
             /\ t.client # c => Latest(t.client)' = Latest(t.client)
             /\ t.client # c => How(Latest(t.client))' = How(Latest(t.client))
  <2>1. t.client \in Client /\ t.nr \in 1..MaxTries
    BY PendTypes
  <2>2. t.nr <= Len(tries[t.client])
    BY DEF TriesInv, Places, PendingMade, Made
  <2>3. t.client = c => t.nr \in 1..n0
    BY <1>1, <2>1, <2>2, BoundsAssumption DEF n0
  <2>4. How(t)' = How(t)
    <3>1. CASE t.client = c
      BY <1>2, <2>3, <3>1 DEF How
    <3>2. CASE t.client # c
      BY <1>1, <2>1, <3>2 DEF How
    <3>3. QED
      BY <3>1, <3>2
  <2>5. t.client = c => t # Latest(c)'
    <3>1. Latest(c)'.nr = n0 + 1
      BY <1>2 DEF Latest
    <3>2. QED
      BY <1>1, <2>3, <3>1
  <2>6. t.client # c => Latest(t.client)' = Latest(t.client)
    BY <1>1, <2>1 DEF Latest
  <2>7. t.client # c => How(Latest(t.client))' = How(Latest(t.client))
    <3>1. Latest(t.client).client = t.client
      BY DEF Latest
    <3>2. QED
      BY <1>1, <2>1, <2>6, <3>1 DEF How
  <2>8. QED
    BY <2>1, <2>3, <2>4, <2>5, <2>6, <2>7
<1>5. How(Latest(c))' = how
  BY <1>2 DEF How, Latest
<1>6. ASSUME NEW d \in Client, NEW n \in Range(ran[d])
      PROVE  n \in 1..Len(tries[d]) /\ tries'[d][n] = tries[d][n]
  <2>1. n \in 1..MaxTries
    <3>1. ran[d] \in Seq(1..MaxTries)
      BY DEF ConnectionTypes
    <3>2. PICK k \in DOMAIN ran[d] : n = ran[d][k]
      BY DEF Range
    <3>3. k \in 1..Len(ran[d])
      BY <3>1, <3>2, LenProperties
    <3>4. QED
      BY <3>1, <3>2, <3>3, ElementOfSeq
  <2>2. Made(d, n) /\ Len(tries[d]) \in Nat
    BY LatestIs DEF TriesInv, Runs, RanMade
  <2>3. n \in 1..Len(tries[d])
    BY <2>1, <2>2, BoundsAssumption DEF Made
  <2>4. QED
    BY <1>1, <1>2, <2>3 DEF n0
<1>7. Places'
  <2>1. ASSUME NEW j \in Instance, NEW t \in Pend(j) PROVE Made(t.client, t.nr)'
    <3>1. CASE t.client = c
      BY <1>1, <1>2, <1>4, <3>1 DEF Made
    <3>2. CASE t.client # c
      BY <1>1, <1>4, <3>2 DEF Made, TriesInv, Places, PendingMade
    <3>3. QED
      BY <3>1, <3>2
  <2>2. PendingMade'
    BY <1>3, <2>1 DEF PendingMade
  <2>3. Placed'
    <3> SUFFICES ASSUME NEW j \in Instance, NEW t \in Pend(j)
                 PROVE  /\ How(t) # Found => name[j] = How(t)
                        /\ t = Latest(t.client)' => name[j] = path'[t.client]
                        /\ pc'[t.client] = "chosen" /\ Running(j) /\ How(t) = How(Latest(t.client))'
                           => name[j] = path'[t.client]
      BY <1>3, <1>4 DEF Placed
    <3>1. How(t) # Found => name[j] = How(t)
      BY DEF TriesInv, Places, Placed
    <3>2. CASE t.client # c
      BY <1>1, <1>4, <3>1, <3>2 DEF TriesInv, Places, Placed
    <3>3. CASE t.client = c
      <4>1. t # Latest(c)'
        BY <1>4, <3>3
      <4>2. ASSUME pc'[c] = "chosen", Running(j), How(t) = how PROVE name[j] = path'[c]
        <5>1. PICK d \in Display : /\ path' = [path EXCEPT ![c] = d]
                                   /\ how # Found => d = how
                                   /\ how = Found => \A i \in Instance : Running(i) => name[i] = d
          BY <4>2 DEF ConnectionTypes
        <5>2. path'[c] = d
          BY <5>1 DEF ConnectionTypes
        <5>3. QED
          BY <3>1, <4>2, <5>1, <5>2
      <4>3. QED
        BY <1>5, <3>1, <3>3, <4>1, <4>2
    <3>4. QED
      BY <3>2, <3>3
  <2>4. Together'
    BY <1>3, <1>4 DEF TriesInv, Places, Together
  <2>5. QED
    BY <2>2, <2>3, <2>4 DEF Places
<1>8. Runs'
  <2>1. ran' = ran
    OBVIOUS
  <2>2. ASSUME NEW d \in Client, NEW n \in Range(ran[d]) PROVE Made(d, n)'
    <3>1. Made(d, n)
      BY DEF TriesInv, Runs, RanMade
    <3>2. CASE d = c
      <4>1. n \in 1..n0
        BY <1>6, <3>2 DEF n0
      <4>2. n <= n0 + 1 /\ n < n0 + 1
        BY <1>1, <4>1
      <4>3. QED
        BY <1>2, <3>2, <4>2 DEF Made
    <3>3. CASE d # c
      BY <1>1, <3>1, <3>3 DEF Made
    <3>4. QED
      BY <3>2, <3>3
  <2>3. RanMade'
    BY <2>1, <2>2 DEF RanMade
  <2>4. Ahead'
    <3> SUFFICES ASSUME NEW j \in Instance, NEW t \in Pend(j), NEW n \in Range(ran[t.client]),
                        Running(j), tries'[t.client][n] = How(t)
                 PROVE  n < t.nr
      BY <1>3, <1>4, <2>1 DEF Ahead
    <3>1. tries[t.client][n] = How(t)
      BY <1>4, <1>6
    <3>2. QED
      BY <3>1 DEF TriesInv, Runs, Ahead
  <2>5. RunsInOrder'
    <3> SUFFICES ASSUME NEW d \in Client, NEW k \in DOMAIN ran[d], NEW l \in DOMAIN ran[d],
                        k < l, tries'[d][ran[d][k]] = tries'[d][ran[d][l]]
                 PROVE  ran[d][k] < ran[d][l]
      BY <2>1 DEF RunsInOrder
    <3>1. ran[d][k] \in Range(ran[d]) /\ ran[d][l] \in Range(ran[d])
      BY DEF Range
    <3>2. tries[d][ran[d][k]] = tries[d][ran[d][l]]
      BY <1>6, <3>1
    <3>3. QED
      BY <3>2 DEF TriesInv, Runs, RunsInOrder
  <2>6. QED
    BY <2>3, <2>4, <2>5 DEF Runs
<1>9. Served' /\ Fifo'
  BY DEF TriesInv, Served, Fifo, instances, server, Running, Listens
<1>10. Choosing'
  <2> SUFFICES ASSUME NEW d \in Client, pc'[d] = "chosen"
               PROVE  /\ reply'[d] = "none"
                      /\ How(Latest(d))' # Found => path'[d] = How(Latest(d))'
    BY DEF Choosing
  <2>1. CASE d = c
    <3>1. PICK e \in Display : path' = [path EXCEPT ![c] = e] /\ (how # Found => e = how)
      BY <2>1 DEF ConnectionTypes
    <3>2. QED
      BY <1>1, <1>5, <2>1, <3>1 DEF ConnectionTypes
  <2>2. CASE d # c
    <3>1. How(Latest(d))' = How(Latest(d))
      BY <1>1, <2>2 DEF How, Latest
    <3>2. QED
      BY <1>1, <2>2, <3>1 DEF TriesInv, Choosing
  <2>3. QED
    BY <2>1, <2>2
<1>11. Replies'
  <2> SUFFICES ASSUME NEW d \in Client, d # c
               PROVE  /\ reply[d] # "none" => \A i \in Instance : Latest(d)' \notin Pend(i)
                      /\ reply[d] = "answer" => Len(tries[d]) \in Range(ran[d])
                      /\ reply[d] = "end" => \E i \in Instance : proc[i] = "crashed" /\ name[i] = path[d]
                      /\ pc[d] = "ok" => reply[d] \in {"answer", "end"}
    BY <1>1, <1>3 DEF Replies, instances
  <2>1. Latest(d)' = Latest(d)
    BY <1>1 DEF Latest
  <2>2. QED
    BY <2>1 DEF TriesInv, Replies
<1>12. QED
  BY <1>7, <1>8, <1>9, <1>10, <1>11 DEF TriesInv

\* The connection goes to the end of the queue of the instance whose socket the
\* chosen name is; when that instance runs, what the client has pending in the same
\* way at a running instance is ahead of it in that queue.
LEMMA ConnectTries ==
    ASSUME InstancesInv, ConnectionsInv, TriesInv, NEW c \in Client, Connect(c)
    PROVE  TriesInv'
<1>1. pc[c] = "chosen" /\ UNCHANGED <<instances, serving, read, path, tries, reply, ran>>
  BY DEF Connect
<1>2. ConnectionTypes /\ path[c] \in Display
  BY <1>1 DEF ConnectionsInv, TriesCounted
<1>3. CASE pc' = [pc EXCEPT ![c] = "failed"] /\ queue' = queue
  BY <1>1, <1>2, <1>3, WaitTries DEF ConnectionTypes
<1>4. ASSUME NEW i \in Instance, NEW t, i = files[path[c]], t = Latest(c), Listens(i),
             pc' = [pc EXCEPT ![c] = "waiting"],
             queue' = [queue EXCEPT ![i] = Append(@, t)]
      PROVE  TriesInv'
  <2>1. i \in Instance /\ name[i] = path[c]
    BY <1>2, <1>4, BoundsAssumption DEF InstancesInv, InstanceTypes, FilesOwned, Socks
  <2>2. /\ t.client = c /\ t.nr = Len(tries[c]) /\ Len(tries[c]) \in Nat /\ t # NoTry
    BY <1>2, <1>4, LatestIs
  <2>3. t \in Try
    <3>1. tries[c] # <<>> /\ Len(tries[c]) <= MaxTries
      BY <1>1 DEF ConnectionsInv, TriesCounted
    <3>2. Len(tries[c]) \in 1..MaxTries
      BY <1>2, <2>2, <3>1, EmptySeq, BoundsAssumption DEF ConnectionTypes
    <3>3. QED
      BY <1>4, <3>2 DEF Latest, Try
  <2>4. /\ queue[i] \in Seq(Try) /\ queue'[i] = Append(queue[i], t)
        /\ Len(queue[i]) \in Nat /\ DOMAIN queue[i] = 1..Len(queue[i])
        /\ DOMAIN queue'[i] = 1..(Len(queue[i]) + 1)
        /\ queue'[i][Len(queue[i]) + 1] = t
        /\ \A k \in 1..Len(queue[i]) : queue'[i][k] = queue[i][k]
        /\ \A j \in Instance : j # i => queue'[j] = queue[j]
    <3>1. queue[i] \in Seq(Try) /\ queue'[i] = Append(queue[i], t)
      BY <1>2, <1>4, <2>1 DEF ConnectionTypes
    <3>2. \A j \in Instance : j # i => queue'[j] = queue[j]
      BY <1>2, <1>4, <2>1 DEF ConnectionTypes
    <3>3. QED
      BY <2>3, <3>1, <3>2
  <2>5. Pend(i)' = Pend(i) \union {t} /\ \A j \in Instance : j # i => Pend(j)' = Pend(j)
    <3>1. Range(queue'[i]) = Range(queue[i]) \union {t}
      BY <2>4 DEF Range
    <3>2. QED
      BY <1>1, <2>4, <3>1 DEF Pend
  <2>6. /\ UNCHANGED <<proc, name, files>>
        /\ pc'[c] = "waiting" /\ \A d \in Client : d # c => pc'[d] = pc[d]
    BY <1>1, <1>2, <1>4 DEF instances, ConnectionTypes
  <2>7. ASSUME NEW j \in Instance, NEW u \in Pend(j)
        PROVE  /\ u.client \in Client /\ u.nr \in 1..MaxTries
               /\ u.client = c => u.nr < t.nr /\ u # t
    <3>1. u.client \in Client /\ u.nr \in 1..MaxTries
      BY <1>2, PendTypes
    <3>2. Made(u.client, u.nr)
      BY DEF TriesInv, Places, PendingMade
    <3>3. u.client = c => u.nr < t.nr
      BY <1>1, <2>2, <3>2 DEF Made
    <3>4. QED
      BY <2>2, <3>1, <3>3
  <2>8. /\ \A u : How(u)' = How(u)
        /\ \A d \in Client : Latest(d)' = Latest(d)
        /\ \A j \in Instance : Running(j)' = Running(j)
    BY <1>1, <2>6 DEF How, Latest, Running
  <2>9. ASSUME NEW d \in Client, NEW n, Made(d, n) PROVE Made(d, n)'
    BY <1>1, <2>6, <2>9 DEF Made
  <2>10. Places'
    <3>1. PendingMade'
      <4>1. Made(c, t.nr)'
        BY <1>1, <2>2, <2>6 DEF Made
      <4>2. ASSUME NEW j \in Instance, NEW u \in Pend(j)' PROVE Made(u.client, u.nr)'
        BY <2>2, <2>5, <2>7, <2>9, <4>1 DEF TriesInv, Places, PendingMade
      <4>3. QED
        BY <4>2 DEF PendingMade
    <3>2. Placed'
      <4> SUFFICES ASSUME NEW j \in Instance, NEW u \in Pend(j)'
                   PROVE  /\ How(u) # Found => name[j] = How(u)
                          /\ u = Latest(u.client) => name[j] = path[u.client]
                          /\ pc'[u.client] = "chosen" /\ Running(j) /\ How(u) = How(Latest(u.client))
                             => name[j] = path[u.client]
        <5>1. \A k \in Instance : \A v \in Pend(k)' : v.client \in Client
          BY <2>2, <2>5, <2>7
        <5>2. QED
          BY <1>1, <2>2, <2>5, <2>6, <2>7, <2>8 DEF Placed
      <4>1. CASE u \in Pend(j)
        BY <2>6, <2>7, <4>1 DEF TriesInv, Places, Placed
      <4>2. CASE j = i /\ u = t
        <5>1. How(t) # Found => path[c] = How(t)
          BY <1>1, <1>4 DEF TriesInv, Choosing
        <5>2. QED
          BY <2>1, <2>2, <2>6, <4>2, <5>1
      <4>3. QED
        BY <2>5, <4>1, <4>2
    <3>3. Together'
      <4>1. ASSUME NEW j \in Instance, NEW u \in Pend(j), u.client = c, How(u) = How(t), Running(j)
            PROVE  j = i
        <5>1. name[j] = path[c]
          BY <1>1, <1>4, <4>1 DEF TriesInv, Places, Placed
        <5>2. files[name[j]] = j
          BY <4>1 DEF InstancesInv, RunningKeepsSocket
        <5>3. QED
          BY <1>4, <5>1, <5>2
      <4> SUFFICES ASSUME NEW j \in Instance, NEW k \in Instance,
                          NEW u \in Pend(j)', NEW v \in Pend(k)',
                          u.client = v.client, How(u) = How(v), Running(j), Running(k)
                   PROVE  j = k
        BY <2>8 DEF Together
      <4>2. CASE u \in Pend(j) /\ v \in Pend(k)
        BY <4>2 DEF TriesInv, Places, Together
      <4>3. CASE u \in Pend(j) /\ k = i /\ v = t
        BY <2>2, <4>1, <4>3
      <4>4. CASE j = i /\ u = t /\ v \in Pend(k)
        BY <2>2, <4>1, <4>4
      <4>5. QED
        BY <2>5, <4>2, <4>3, <4>4
    <3>4. QED
      BY <3>1, <3>2, <3>3 DEF Places
  <2>11. Runs'
    <3>1. RanMade'
      BY <1>1, <2>9 DEF TriesInv, Runs, RanMade
    <3>2. Ahead'
      <4> SUFFICES ASSUME NEW j \in Instance, NEW u \in Pend(j)', NEW n \in Range(ran[u.client]),
                          Running(j), tries[u.client][n] = How(u)
                   PROVE  n < u.nr
        BY <1>1, <2>8 DEF Ahead
      <4>1. CASE u \in Pend(j)
        BY <4>1 DEF TriesInv, Runs, Ahead
      <4>2. CASE u = t
        <5>1. Made(c, n)
          BY <2>2, <4>2 DEF TriesInv, Runs, RanMade
        <5>2. QED
          BY <1>1, <2>2, <4>2, <5>1 DEF Made
      <4>3. QED
        BY <2>5, <4>1, <4>2
    <3>3. RunsInOrder'
      BY <1>1 DEF TriesInv, Runs, RunsInOrder
    <3>4. QED
      BY <3>1, <3>2, <3>3 DEF Runs
  <2>12. Served'
    BY <1>1, <1>4, <2>4, <2>6 DEF TriesInv, Served, Running, Listens
  <2>13. Fifo'
    <3> SUFFICES ASSUME NEW j \in Instance
                 PROVE  /\ \A k, l \in DOMAIN queue'[j] :
                              k < l /\ queue'[j][k].client = queue'[j][l].client
                                  => queue'[j][k].nr < queue'[j][l].nr
                        /\ \A k \in DOMAIN queue'[j] :
                              serving[j].client = queue'[j][k].client
                              => serving[j].nr < queue'[j][k].nr
      BY <1>1 DEF Fifo
    <3>1. CASE j # i
      BY <2>4, <3>1 DEF TriesInv, Fifo
    <3>2. CASE j = i
      <4>1. ASSUME NEW k \in 1..Len(queue[i]) PROVE queue[i][k] \in Pend(i)
        BY <2>4 DEF Pend, Range
      <4>2. serving[i].client = c => serving[i] \in Pend(i)
        <5>1. NoTry.client # c
          BY BoundsAssumption DEF NoTry
        <5>2. QED
          BY <5>1 DEF Pend
      <4>3. ASSUME NEW k \in 1..(Len(queue[i]) + 1), NEW l \in 1..(Len(queue[i]) + 1),
                   k < l, queue'[i][k].client = queue'[i][l].client
            PROVE  queue'[i][k].nr < queue'[i][l].nr
        <5>1. k \in 1..Len(queue[i])
          BY <2>4, <4>3
        <5>2. CASE l = Len(queue[i]) + 1
          BY <2>1, <2>2, <2>4, <2>7, <4>1, <4>3, <5>1, <5>2
        <5>3. CASE l \in 1..Len(queue[i])
          BY <2>1, <2>4, <4>3, <5>1, <5>3 DEF TriesInv, Fifo
        <5>4. QED
          BY <2>4, <5>2, <5>3
      <4>4. ASSUME NEW k \in 1..(Len(queue[i]) + 1), serving[i].client = queue'[i][k].client
            PROVE  serving[i].nr < queue'[i][k].nr
        <5>1. CASE k = Len(queue[i]) + 1
          BY <2>1, <2>2, <2>4, <2>7, <4>2, <4>4, <5>1
        <5>2. CASE k \in 1..Len(queue[i])
          BY <2>1, <2>4, <4>4, <5>2 DEF TriesInv, Fifo
        <5>3. QED
          BY <2>4, <5>1, <5>2
      <4>5. QED
        BY <2>4, <3>2, <4>3, <4>4
    <3>3. QED
      BY <3>1, <3>2
  <2>14. Choosing'
    <3> SUFFICES ASSUME NEW d \in Client, pc'[d] = "chosen"
                 PROVE  reply[d] = "none" /\ (How(Latest(d)) # Found => path[d] = How(Latest(d)))
      BY <1>1, <2>8 DEF Choosing
    <3>1. pc[d] = "chosen"
      BY <2>6
    <3>2. QED
      BY <3>1 DEF TriesInv, Choosing
  <2>15. Replies'
    <3> SUFFICES ASSUME NEW d \in Client
                 PROVE  /\ reply[d] # "none" => \A j \in Instance : Latest(d) \notin Pend(j)'
                        /\ reply[d] = "answer" => Len(tries[d]) \in Range(ran[d])
                        /\ reply[d] = "end" => \E j \in Instance : proc[j] = "crashed" /\ name[j] = path[d]
                        /\ pc'[d] = "ok" => reply[d] \in {"answer", "end"}
      BY <1>1, <2>6, <2>8 DEF Replies
    <3>1. CASE d = c
      <4>1. reply[d] = "none"
        BY <1>1, <3>1 DEF TriesInv, Choosing
      <4>2. QED
        BY <2>6, <3>1, <4>1
    <3>2. CASE d # c
      <4>1. Latest(d) # t
        BY <1>2, <2>2, <3>2, LatestIs
      <4>2. QED
        BY <2>5, <2>6, <3>2, <4>1 DEF TriesInv, Replies
    <3>3. QED
      BY <3>1, <3>2
  <2>16. QED
    BY <2>10, <2>11, <2>12, <2>13, <2>14, <2>15 DEF TriesInv
<1>5. CASE files[path[c]] # NoInstance /\ Listens(files[path[c]])
  <2>1. files[path[c]] \in Instance
    BY <1>2, <1>5 DEF InstancesInv, InstanceTypes
  <2>2. QED
    BY <1>4, <1>5, <2>1 DEF Connect
<1>6. QED
  BY <1>3, <1>5 DEF Connect

\* Every step keeps the part about the tries.
LEMMA TriesStep == InstancesInv /\ ConnectionsInv /\ TriesInv /\ [Next]_vars => TriesInv'
<1> SUFFICES ASSUME InstancesInv, ConnectionsInv, TriesInv, [Next]_vars PROVE TriesInv'
  OBVIOUS
<1>1. ConnectionTypes /\ InstanceTypes
  BY DEF ConnectionsInv, InstancesInv
<1>2. ASSUME NEW c \in Client, NEW d \in Display, ChooseExplicit(c, d) PROVE TriesInv'
  <2>1. d # Found
    BY BoundsAssumption DEF Found, Display
  <2>2. QED
    BY <1>1, <1>2, <2>1, CallTries DEF ChooseExplicit
<1>3. ASSUME NEW c \in Client, Discover(c) PROVE TriesInv'
  <2>1. CASE Cardinality(Socks) = 1
    <3>1. Socks = {Min(Socks)} /\ Min(Socks) \in Display
      BY <1>1, <2>1, OnlySocket
    <3>2. \A i \in Instance : Running(i) => name[i] = Min(Socks)
      <4> SUFFICES ASSUME NEW i \in Instance, Running(i) PROVE name[i] \in Socks
        BY <3>1
      <4>1. name[i] \in Display /\ files[name[i]] = i /\ i # NoInstance
        BY BoundsAssumption DEF InstancesInv, RunningKeepsSocket, NamesHeld, Holds, Running
      <4>2. QED
        BY <4>1 DEF Socks
    <3>3. QED
      BY <1>1, <1>3, <2>1, <3>1, <3>2, CallTries DEF Discover
  <2>2. CASE Cardinality(Socks) # 1
    BY <1>1, <1>3, <2>2, CallTries DEF Discover
  <2>3. QED
    BY <2>1, <2>2
<1>4. ASSUME NEW i \in Instance, ReadLine(i) PROVE TriesInv'
  BY <1>1, <1>4, WaitTries DEF ReadLine, clients
<1>5. ASSUME NEW c \in Client, Finish(c) \/ GiveUp(c) PROVE TriesInv'
  <2>1. \A d \in Client : \/ pc'[d] = pc[d]
                          \/ pc'[d] = "failed"
                          \/ pc'[d] = "ok" /\ reply[d] \notin {"none", "reset"}
    BY <1>1, <1>5 DEF Finish, GiveUp, ConnectionTypes
  <2>2. UNCHANGED <<instances, queue, serving, path, tries, reply, ran>>
    BY <1>5 DEF Finish, GiveUp, server
  <2>3. QED
    BY <1>1, <2>1, <2>2, WaitTries
<1>6. CASE UNCHANGED vars
  BY <1>1, <1>6, WaitTries DEF vars, server, clients
<1>7. QED
  BY <1>1, <1>2, <1>3, <1>4, <1>5, <1>6, ProcessTries, AcceptTries, ExecuteTries, CloseTries,
     ConnectTries DEF Next

\* Init leaves nothing pending.
LEMMA InitialTries == Init => TriesInv
<1> SUFFICES ASSUME Init PROVE TriesInv
  OBVIOUS
<1>1. \A i \in Instance : Pend(i) = {} /\ queue[i] = <<>> /\ serving[i] = NoTry
  BY DEF Init, Pend, Range
<1>2. \A c \in Client : Range(ran[c]) = {} /\ DOMAIN ran[c] = {}
  BY DEF Init, Range
<1>3. Served /\ Fifo
  BY <1>1 DEF Served, Fifo
<1>4. Places
  BY <1>1 DEF Places, PendingMade, Placed, Together
<1>5. Choosing /\ Replies
  BY DEF Init, Choosing, Replies
<1>6. Runs
  BY <1>1, <1>2 DEF Runs, RanMade, Ahead, RunsInOrder
<1>7. QED
  BY <1>3, <1>4, <1>5, <1>6 DEF TriesInv

\* The part about the tries holds in every reachable state.
LEMMA TriesAlways == Spec => []TriesInv
<1>1. InstancesInv /\ ConnectionsInv /\ TriesInv /\ [Next]_vars
         => (InstancesInv /\ ConnectionsInv /\ TriesInv)'
  BY InstancesStep, ConnectionsStep, TriesStep
<1>2. QED
  BY InitialState, InitialTries, <1>1, PTL DEF Spec

\* The tries of one client that chose their socket in the same way are executed in
\* the order they were made, each at most once, whatever instances and other
\* clients do.
THEOREM ExecutedInOrder == Spec => []RunsInOrder
<1>1. TriesInv => RunsInOrder
  BY DEF TriesInv, Runs
<1>2. QED
  BY TriesAlways, <1>1, PTL

\* A try that succeeds was executed, unless the instance it had chosen crashed
\* while it served it.
THEOREM SuccessMeansRan == Spec => []SuccessRanOrCrashed
<1>1. TriesInv => SuccessRanOrCrashed
  BY DEF TriesInv, Replies, SuccessRanOrCrashed
<1>2. QED
  BY TriesAlways, <1>1, PTL
=============================================================================
