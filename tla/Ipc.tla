-------------------------------- MODULE Ipc --------------------------------
(***************************************************************************)
(* The control socket (katnip/src/ipc.rs) and its clients (katnipc).  The  *)
(* handler runs on the event loop: it accepts until nothing waits, and     *)
(* reads each connection byte by byte, so that while a client dawdles the  *)
(* whole compositor waits.  Time is counted in ticks, and only while the   *)
(* handler waits for a byte.                                               *)
(*                                                                         *)
(* A client connects, writes a line in pieces, and reads until the end.    *)
(* A line is abstracted to its length; its newline is the byte after that. *)
(* Some prefixes of it parse as a command, too, as "workspace 1" does of   *)
(* "workspace 10".                                                         *)
(***************************************************************************)
EXTENDS Integers, Sequences

CONSTANTS
    Client,
    NoClient,
    LineLength,  \* per client: bytes of its line, without the newline
    Commands,    \* per client: the prefix lengths that are valid commands
    Cap,         \* size cap of a line, 4096 in the code
    Timeout      \* ticks that one read waits, 250 ms in the code

ASSUME ClientAssumption == NoClient \notin Client
ASSUME LinesAssumption ==
    \A c \in Client : LineLength[c] \in Nat \ {0} /\ Commands[c] \subseteq 1..LineLength[c]
ASSUME LimitsAssumption == Cap \in Nat \ {0} /\ Timeout \in Nat \ {0}

VARIABLES
    pc,       \* per client: idle, writing, waiting, ok or failed
    wrote,    \* per client: bytes written
    took,     \* per client: bytes the compositor read before it closed
    reply,    \* per client: none, ok, err, or end: closed without an answer
    ran,      \* per client: lengths of the commands executed for it
    phase,    \* the compositor dispatches events, accepts, or has stopped
    backlog,  \* connections not accepted yet, in order
    serving,  \* the connection handle_connection is on
    got,      \* bytes read from it
    quiet,    \* ticks since its last byte
    elapsed   \* ticks since it was accepted

clients == <<pc, wrote>>
server == <<took, reply, ran, phase, serving, got, quiet, elapsed>>
vars == <<clients, server, backlog>>

Init ==
    /\ pc = [c \in Client |-> "idle"]
    /\ wrote = [c \in Client |-> 0]
    /\ took = [c \in Client |-> 0]
    /\ reply = [c \in Client |-> "none"]
    /\ ran = [c \in Client |-> <<>>]
    /\ phase = "dispatch"
    /\ backlog = <<>>
    /\ serving = NoClient
    /\ got = 0
    /\ quiet = 0
    /\ elapsed = 0

(* A client *)

Connect(c) ==
    /\ phase # "stopped"
    /\ pc[c] = "idle"
    /\ pc' = [pc EXCEPT ![c] = "writing"]
    /\ backlog' = Append(backlog, c)
    /\ UNCHANGED <<wrote, server>>

\* The other end of the connection of c is closed.
Closed(c) == reply[c] # "none" \/ phase = "stopped"

\* Mutation: a failed write goes unnoticed.
WriteAnyway(c, n) ==
    /\ pc[c] = "writing"
    /\ wrote[c] + n <= LineLength[c] + 1
    /\ IF Closed(c) THEN pc' = [pc EXCEPT ![c] = "waiting"] /\ UNCHANGED wrote
       ELSE /\ wrote' = [wrote EXCEPT ![c] = @ + n]
            /\ pc' = [pc EXCEPT ![c] = IF wrote'[c] = LineLength[c] + 1
                                       THEN "waiting" ELSE @]
    /\ UNCHANGED <<server, backlog>>

\* The next n bytes; a write fails once the other end is closed.
Write(c, n) ==
    /\ pc[c] = "writing"
    /\ wrote[c] + n <= LineLength[c] + 1
    /\ IF Closed(c) THEN pc' = [pc EXCEPT ![c] = "failed"] /\ UNCHANGED wrote
       ELSE /\ wrote' = [wrote EXCEPT ![c] = @ + n]
            /\ pc' = [pc EXCEPT ![c] = IF wrote'[c] = LineLength[c] + 1
                                       THEN "waiting" ELSE @]
    /\ UNCHANGED <<server, backlog>>

\* The end of the stream, after an answer or without one: no response at all does
\* not start with ERR either.  Bytes of ours that were not read before the close,
\* and a connection that was never accepted, turn it into an error.
Read(c) ==
    /\ pc[c] = "waiting"
    /\ Closed(c)
    /\ pc' = [pc EXCEPT ![c] =
                 IF reply[c] \in {"ok", "end"} /\ took[c] = wrote[c] THEN "ok" ELSE "failed"]
    /\ UNCHANGED <<wrote, server, backlog>>

\* Two seconds without an answer, or the client is killed.
GiveUp(c) ==
    /\ pc[c] \in {"writing", "waiting"}
    /\ pc' = [pc EXCEPT ![c] = "failed"]
    /\ UNCHANGED <<wrote, server, backlog>>

(* The compositor *)

\* The listener is readable.
Wake ==
    /\ phase = "dispatch"
    /\ backlog # <<>>
    /\ phase' = "accepting"
    /\ UNCHANGED <<clients, took, reply, ran, backlog, serving, got, quiet, elapsed>>

Accept ==
    /\ phase = "accepting"
    /\ serving = NoClient
    /\ backlog # <<>>
    /\ serving' = Head(backlog)
    /\ backlog' = Tail(backlog)
    /\ got' = 0 /\ quiet' = 0 /\ elapsed' = 0
    /\ UNCHANGED <<clients, took, reply, ran, phase>>

\* accept would block: back to the event loop.
AcceptDone ==
    /\ phase = "accepting"
    /\ serving = NoClient
    /\ backlog = <<>>
    /\ phase' = "dispatch"
    /\ UNCHANGED <<clients, took, reply, ran, backlog, serving, got, quiet, elapsed>>

HasNewline(n) == n = LineLength[serving] + 1

\* Mutation: no cap.
WantsMoreUncapped == ~HasNewline(got)

\* The read loop goes on: no newline yet, and room under the cap.
WantsMore == ~HasNewline(got) /\ got < Cap

ReadByte ==
    /\ serving # NoClient
    /\ WantsMore
    /\ got < wrote[serving]
    /\ got' = got + 1
    /\ quiet' = 0
    /\ UNCHANGED <<clients, took, reply, ran, phase, backlog, serving, elapsed>>

\* Mutation: a read waits for as long as it takes.
TickForever ==
    /\ serving # NoClient
    /\ WantsMore
    /\ got = wrote[serving]
    /\ pc[serving] # "failed"
    /\ UNCHANGED vars

\* The handler waits for a byte.
Tick ==
    /\ serving # NoClient
    /\ WantsMore
    /\ got = wrote[serving]
    /\ pc[serving] # "failed"
    /\ quiet < Timeout
    /\ quiet' = quiet + 1
    /\ elapsed' = elapsed + 1
    /\ UNCHANGED <<clients, took, reply, ran, phase, backlog, serving, got>>

\* The read loop is over, by a newline, the cap, the end of the stream or the
\* timeout.
LineRead ==
    /\ serving # NoClient
    /\ \/ ~WantsMore
       \/ got = wrote[serving] /\ pc[serving] = "failed"
       \/ got = wrote[serving] /\ quiet = Timeout

\* What was read, without a newline, and whether it is a command.
Line == IF HasNewline(got) THEN got - 1 ELSE got
Valid == Line \in Commands[serving]

\* handle_command, after which the command may be executed.
Executed == [ran EXCEPT ![serving] = IF Valid THEN Append(@, Line) ELSE @]

\* The connection is closed with r.
Close(r) ==
    /\ reply' = [reply EXCEPT ![serving] = r]
    /\ took' = [took EXCEPT ![serving] = got]
    /\ serving' = NoClient
    /\ got' = 0 /\ quiet' = 0 /\ elapsed' = 0

\* What was read is executed, answered, and the connection closed.
Answer ==
    /\ LineRead
    /\ ran' = Executed
    /\ Close(IF Valid THEN "ok" ELSE "err")
    /\ UNCHANGED <<clients, phase, backlog>>

\* The event loop ends (module Desktop: Quit); nobody in the backlog is served.
Stop ==
    /\ phase = "dispatch"
    /\ phase' = "stopped"
    /\ backlog' = <<>>
    /\ UNCHANGED <<clients, took, reply, ran, serving, got, quiet, elapsed>>

\* The process dies, maybe while it serves a connection: before its command is
\* executed, or after that and before the answer.
Crash ==
    /\ phase # "stopped"
    /\ phase' = "stopped"
    /\ backlog' = <<>>
    /\ IF serving = NoClient
       THEN UNCHANGED <<took, reply, ran, serving, got, quiet, elapsed>>
       ELSE Close("end") /\ (ran' = ran \/ (LineRead /\ ran' = Executed))
    /\ UNCHANGED clients

Next ==
    \/ \E c \in Client : Connect(c) \/ Read(c) \/ GiveUp(c)
    \/ \E c \in Client : \E n \in 1..(LineLength[c] + 1) : Write(c, n)
    \/ Wake
    \/ Accept
    \/ AcceptDone
    \/ ReadByte
    \/ Tick
    \/ Answer
    \/ Stop
    \/ Crash

Spec == Init /\ [][Next]_vars

\* The handler runs once it is called, and time passes; of the clients nothing
\* is assumed.
FairSpec ==
    Spec /\ WF_vars(Accept) /\ WF_vars(AcceptDone) /\ WF_vars(ReadByte)
         /\ WF_vars(Tick) /\ WF_vars(Answer)
-----------------------------------------------------------------------------
(* Properties *)

\* What an exit code of success is worth: the whole line was executed, once, and no
\* part of it besides; or the compositor went down while it served the line, before
\* or after it was executed, and even then nothing else was.
SuccessMeansRun ==
    \A c \in Client : pc[c] = "ok" =>
        \/ ran[c] = <<LineLength[c]>>
        \/ phase = "stopped" /\ reply[c] = "end" /\ ran[c] = <<>>

\* One connection holds the event loop for no longer than a timeout for each
\* byte of a line at the cap and one more.
HoldBounded == elapsed <= Timeout * (Cap + 1)

\* The compositor always gets back from the socket to its other work, even if
\* clients connect and never write.
LoopResumes == phase = "accepting" ~> phase # "accepting"

(* What comments of the code say and the code does not do *)

\* "newline-terminated" (ipc.rs:3): only a line that was received up to its
\* newline is executed.
WholeLinesOnly ==
    \A c \in Client : ran[c] # <<>> => took[c] = LineLength[c] + 1

\* "one line, bounded by the timeout" (ipc.rs:69).
HoldOneTimeout == elapsed <= Timeout
=============================================================================
