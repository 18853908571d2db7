----------------------------- MODULE Discovery -----------------------------
(***************************************************************************)
(* The control sockets of several Katnip instances and how katnipc finds   *)
(* one: the display name an instance takes, the socket file it makes under *)
(* that name and removes again, what a crash leaves behind, and the choice *)
(* of discover_socket.  A connection, byte by byte in module Ipc, is three *)
(* steps here: accepted, its line read, its line executed.                 *)
(*                                                                         *)
(* A client is a script that calls katnipc and, when that fails, calls it  *)
(* again.  Each call is a try of its own, with or without KATNIP_SOCKET.   *)
(***************************************************************************)
EXTENDS Integers, Sequences, FiniteSets, FiniteSetsExt, SequencesExt

CONSTANTS
    Instance,   \* processes of Katnip; each starts at most once
    NoInstance,
    Displays,   \* number of display names, wayland-0 and on
    Client,
    MaxTries    \* bound: calls of katnipc per client

ASSUME BoundsAssumption ==
    /\ IsFiniteSet(Instance)
    /\ NoInstance \notin Instance \union Client
    /\ Displays \in Nat
    /\ MaxTries \in Nat

Display == 0..(Displays - 1)
NoDisplay == -1
Found == -1          \* how a try chose its socket, if not by KATNIP_SOCKET
Try == [client : Client, nr : 1..MaxTries]
NoTry == [client |-> NoInstance, nr |-> 0]

VARIABLES
    proc,     \* per instance: where its process is
    name,     \* per instance: the display name it holds
    files,    \* per display name: the instance whose socket the file is
    queue,    \* per instance: connections not accepted yet, in order
    serving,  \* per instance: the connection handle_connection is on
    read,     \* per instance: whether it has read the line of that one
    pc,       \* per client: idle, chosen, waiting, ok or failed
    path,     \* per client: the display name of the socket it chose
    tries,    \* per client: how each of its tries chose
    reply,    \* per client: none, answer, end of stream or reset
    ran       \* per client: the tries executed for it, in that order

instances == <<proc, name, files>>
server == <<queue, serving, read>>
clients == <<pc, path, tries>>
vars == <<instances, server, clients, reply, ran>>

Init ==
    /\ proc = [i \in Instance |-> "new"]
    /\ name = [i \in Instance |-> NoDisplay]
    /\ files = [d \in Display |-> NoInstance]
    /\ queue = [i \in Instance |-> <<>>]
    /\ serving = [i \in Instance |-> NoTry]
    /\ read = [i \in Instance |-> FALSE]
    /\ pc = [c \in Client |-> "idle"]
    /\ path = [c \in Client |-> NoDisplay]
    /\ tries = [c \in Client |-> <<>>]
    /\ reply = [c \in Client |-> "none"]
    /\ ran = [c \in Client |-> <<>>]

Running(i) == proc[i] = "running"

\* Mutation: the display name is free again once the event loop has ended.
HoldsWhileRunning(i) == proc[i] \in {"named", "cleared", "running"}

\* The listener for Wayland clients, and with it the lock on the display name,
\* lives until the event loop is dropped: after the cleanup.
Holds(i) == proc[i] \in {"named", "cleared", "running", "ended", "cleaned"}

\* A process that has its listening socket still.
Listens(i) == proc[i] \in {"running", "ended", "cleaned"}

\* The connection of the last try of c.
Latest(c) == [client |-> c, nr |-> Len(tries[c])]

(* An instance *)

\* ListeningSocketSource::new_auto: the first display name nobody holds.
TakeName(i) ==
    LET free == Display \ {name[j] : j \in {k \in Instance : Holds(k)}}
    IN  /\ proc[i] = "new"
        /\ free # {}
        /\ proc' = [proc EXCEPT ![i] = "named"]
        /\ name' = [name EXCEPT ![i] = Min(free)]
        /\ UNCHANGED <<files, server, clients, reply, ran>>

\* init_ipc clears what a crash may have left, and binds; a file in the way
\* ends the program.
ClearStale(i) ==
    /\ proc[i] = "named"
    /\ proc' = [proc EXCEPT ![i] = "cleared"]
    /\ files' = [files EXCEPT ![name[i]] = NoInstance]
    /\ UNCHANGED <<name, server, clients, reply, ran>>

Bind(i) ==
    /\ proc[i] = "cleared"
    /\ IF files[name[i]] = NoInstance
       THEN /\ proc' = [proc EXCEPT ![i] = "running"]
            /\ files' = [files EXCEPT ![name[i]] = i]
       ELSE proc' = [proc EXCEPT ![i] = "gone"] /\ UNCHANGED files
    /\ UNCHANGED <<name, server, clients, reply, ran>>

\* Mutation: the youngest connection is accepted first.
AcceptLast(i) ==
    /\ Running(i)
    /\ serving[i] = NoTry
    /\ queue[i] # <<>>
    /\ serving' = [serving EXCEPT ![i] = Last(queue[i])]
    /\ queue' = [queue EXCEPT ![i] = Front(@)]
    /\ UNCHANGED <<instances, read, clients, reply, ran>>

\* The next connection; katnipc has written its line or is about to.
Accept(i) ==
    /\ Running(i)
    /\ serving[i] = NoTry
    /\ queue[i] # <<>>
    /\ serving' = [serving EXCEPT ![i] = Head(queue[i])]
    /\ queue' = [queue EXCEPT ![i] = Tail(@)]
    /\ UNCHANGED <<instances, read, clients, reply, ran>>

ReadLine(i) ==
    /\ serving[i] # NoTry
    /\ ~read[i]
    /\ read' = [read EXCEPT ![i] = TRUE]
    /\ UNCHANGED <<instances, queue, serving, clients, reply, ran>>

\* handle_command and the answer, which nobody may be there to read.
Execute(i) ==
    LET t == serving[i]
    IN  /\ t # NoTry
        /\ read[i]
        /\ ran' = [ran EXCEPT ![t.client] = Append(@, t.nr)]
        /\ reply' = [reply EXCEPT ![t.client] = IF t = Latest(t.client) THEN "answer" ELSE @]
        /\ serving' = [serving EXCEPT ![i] = NoTry]
        /\ read' = [read EXCEPT ![i] = FALSE]
        /\ UNCHANGED <<instances, queue, clients>>

\* The event loop ends by a quit action or a signal.
EndLoop(i) ==
    /\ Running(i)
    /\ serving[i] = NoTry
    /\ proc' = [proc EXCEPT ![i] = "ended"]
    /\ UNCHANGED <<name, files, server, clients, reply, ran>>

\* cleanup removes whatever is at the path.
Cleanup(i) ==
    /\ proc[i] = "ended"
    /\ proc' = [proc EXCEPT ![i] = "cleaned"]
    /\ files' = [files EXCEPT ![name[i]] = NoInstance]
    /\ UNCHANGED <<name, server, clients, reply, ran>>

\* What the clients of i see when its sockets are closed: those that were not
\* accepted, and one whose line was not read, an error; one whose line was, the
\* end of the stream.
Close(i) ==
    /\ reply' = [c \in Client |->
           IF Latest(c) \in Range(queue[i]) \/ (Latest(c) = serving[i] /\ ~read[i]) THEN "reset"
           ELSE IF Latest(c) = serving[i] THEN "end"
           ELSE reply[c]]
    /\ queue' = [queue EXCEPT ![i] = <<>>]
    /\ serving' = [serving EXCEPT ![i] = NoTry]
    /\ read' = [read EXCEPT ![i] = FALSE]

\* The event loop is dropped.
Exit(i) ==
    /\ proc[i] = "cleaned"
    /\ proc' = [proc EXCEPT ![i] = "gone"]
    /\ Close(i)
    /\ UNCHANGED <<name, files, clients, ran>>

\* A crash at any step, or an error out of the loop, which skips the cleanup.
Crash(i) ==
    /\ Holds(i)
    /\ proc' = [proc EXCEPT ![i] = "crashed"]
    /\ Close(i)
    /\ UNCHANGED <<name, files, clients, ran>>

(* A client *)

\* A new call of katnipc, and how it chose its socket.
Call(c, how) ==
    /\ pc[c] \in {"idle", "failed"}
    /\ Len(tries[c]) < MaxTries
    /\ tries' = [tries EXCEPT ![c] = Append(@, how)]
    /\ reply' = [reply EXCEPT ![c] = "none"]

\* KATNIP_SOCKET names the socket of a display.
ChooseExplicit(c, d) ==
    /\ Call(c, d)
    /\ path' = [path EXCEPT ![c] = d]
    /\ pc' = [pc EXCEPT ![c] = "chosen"]
    /\ UNCHANGED <<instances, server, ran>>

Socks == {d \in Display : files[d] # NoInstance}

\* Mutation: of several sockets the first is taken.
DiscoverFirst(c) ==
    /\ Call(c, Found)
    /\ IF Socks # {}
       THEN /\ path' = [path EXCEPT ![c] = Min(Socks)]
            /\ pc' = [pc EXCEPT ![c] = "chosen"]
       ELSE pc' = [pc EXCEPT ![c] = "failed"] /\ UNCHANGED path
    /\ UNCHANGED <<instances, server, ran>>

\* discover_socket: the only socket there is, or an error.
Discover(c) ==
    /\ Call(c, Found)
    /\ IF Cardinality(Socks) = 1
       THEN /\ path' = [path EXCEPT ![c] = Min(Socks)]
            /\ pc' = [pc EXCEPT ![c] = "chosen"]
       ELSE pc' = [pc EXCEPT ![c] = "failed"] /\ UNCHANGED path
    /\ UNCHANGED <<instances, server, ran>>

\* A file without a process that listens refuses the connection.
Connect(c) ==
    LET i == files[path[c]]
    IN  /\ pc[c] = "chosen"
        /\ IF i # NoInstance /\ Listens(i)
           THEN /\ pc' = [pc EXCEPT ![c] = "waiting"]
                /\ queue' = [queue EXCEPT ![i] = Append(@, Latest(c))]
           ELSE pc' = [pc EXCEPT ![c] = "failed"] /\ UNCHANGED queue
        /\ UNCHANGED <<instances, serving, read, path, tries, reply, ran>>

\* Mutation: a connection that is reset counts as an answer.
FinishOnAny(c) ==
    /\ pc[c] = "waiting"
    /\ reply[c] # "none"
    /\ pc' = [pc EXCEPT ![c] = "ok"]
    /\ UNCHANGED <<instances, server, path, tries, reply, ran>>

\* read_to_string returns: an empty response is not an error.
Finish(c) ==
    /\ pc[c] = "waiting"
    /\ reply[c] # "none"
    /\ pc' = [pc EXCEPT ![c] = IF reply[c] = "reset" THEN "failed" ELSE "ok"]
    /\ UNCHANGED <<instances, server, path, tries, reply, ran>>

\* Two seconds without an answer: the connection stays where it is.
GiveUp(c) ==
    /\ pc[c] = "waiting"
    /\ reply[c] = "none"
    /\ pc' = [pc EXCEPT ![c] = "failed"]
    /\ UNCHANGED <<instances, server, path, tries, reply, ran>>

Next ==
    \/ \E i \in Instance : TakeName(i) \/ ClearStale(i) \/ Bind(i)
    \/ \E i \in Instance : Accept(i) \/ ReadLine(i) \/ Execute(i)
    \/ \E i \in Instance : EndLoop(i) \/ Cleanup(i) \/ Exit(i) \/ Crash(i)
    \/ \E c \in Client : \E d \in Display : ChooseExplicit(c, d)
    \/ \E c \in Client : Discover(c) \/ Connect(c) \/ Finish(c) \/ GiveUp(c)

Spec == Init /\ [][Next]_vars
-----------------------------------------------------------------------------
(* Properties *)

TypeOK ==
    /\ proc \in [Instance -> {"new", "named", "cleared", "running", "ended", "cleaned",
                              "gone", "crashed"}]
    /\ name \in [Instance -> Display \union {NoDisplay}]
    /\ files \in [Display -> Instance \union {NoInstance}]
    /\ queue \in [Instance -> Seq(Try)]
    /\ serving \in [Instance -> Try \union {NoTry}]
    /\ read \in [Instance -> BOOLEAN]
    /\ pc \in [Client -> {"idle", "chosen", "waiting", "ok", "failed"}]
    /\ path \in [Client -> Display \union {NoDisplay}]
    /\ tries \in [Client -> Seq(Display \union {Found})]
    /\ reply \in [Client -> {"none", "answer", "end", "reset"}]
    /\ ran \in [Client -> Seq(1..MaxTries)]

\* A running instance can be reached under its name, whoever started, stopped
\* or crashed around it: no other removes its socket, and none binds over it.
RunningKeepsSocket ==
    \A i \in Instance : Running(i) => files[name[i]] = i

\* Only a process that ended without its cleanup leaves a file: "multiple
\* Katnip instances found" (katnip-core/src/ipc.rs:39) is true or the trace of
\* a crash.
OnlyCrashesLeaveFiles ==
    \A d \in Socks : Listens(files[d]) \/ proc[files[d]] = "crashed"

\* No two processes hold one display name, from before the old socket is
\* cleared to after the new one is removed.
NamesHeld ==
    /\ \A i \in Instance : Holds(i) => name[i] \in Display
    /\ \A i, j \in Instance : Holds(i) /\ Holds(j) /\ name[i] = name[j] => i = j

\* A file is that of the instance that had its name last and has not removed it.
FilesOwned ==
    \A d \in Socks :
        name[files[d]] = d /\ proc[files[d]] \in {"running", "ended", "crashed"}

TriesCounted ==
    \A c \in Client :
        /\ Len(tries[c]) <= MaxTries
        /\ pc[c] # "idle" => tries[c] # <<>>
        /\ pc[c] = "chosen" => path[c] \in Display

\* Whatever started, stopped or crashed before: the sockets in the runtime
\* directory are those of the running instances and of crashed ones.
DiscoveryInv ==
    /\ TypeOK
    /\ NamesHeld
    /\ FilesOwned
    /\ TriesCounted
    /\ RunningKeepsSocket
    /\ OnlyCrashesLeaveFiles

\* katnipc never guesses between instances: when it finds a socket by itself,
\* no instance runs but the one that has it.
NeverGuesses ==
    [][\A c \in Client :
          pc[c] # "chosen" /\ pc'[c] = "chosen" /\ Last(tries'[c]) = Found
          => \A i \in Instance : Running(i) => name[i] = path'[c]]_vars

\* The tries of one client that chose their socket in the same way are executed in
\* the order they were made, each at most once, however many of them timed out
\* and whatever instances came and went: none runs after a later one did.
RunsInOrder ==
    \A c \in Client : \A k, l \in DOMAIN ran[c] :
        /\ k < l
        /\ tries[c][ran[c][k]] = tries[c][ran[c][l]]
        => ran[c][k] < ran[c][l]

\* A try that succeeds was executed, unless the instance ended without cleanup
\* while it served it.
SuccessRanOrCrashed ==
    \A c \in Client : pc[c] = "ok" =>
        \/ Len(tries[c]) \in Range(ran[c])
        \/ /\ reply[c] = "end"
           /\ \E i \in Instance : proc[i] = "crashed" /\ name[i] = path[c]

(* What comments of the code say and the code does not do *)

\* "katnipc finds it automatically" (README.md:153): with one instance running
\* and none starting, a call without KATNIP_SOCKET chooses its socket.
FindsTheOnlyOne ==
    [][\A c \in Client, i \in Instance :
          /\ Len(tries[c]) < Len(tries'[c])
          /\ Last(tries'[c]) = Found
          /\ {j \in Instance : Holds(j)} = {i}
          /\ Running(i)
          => pc'[c] = "chosen"]_vars
=============================================================================
