----------------------------- MODULE IpcProofs -----------------------------
(***************************************************************************)
(* Proofs about Ipc, for any clients, lines, cap and timeout: what success *)
(* means, and how long one connection holds the event loop.                *)
(***************************************************************************)
EXTENDS Ipc, SequenceTheorems, TLAPS

\* The connections between accept and close, and before them.
Open(c) == c = serving \/ \E i \in DOMAIN backlog : backlog[i] = c

\* A connection is served once: no client is listed twice, and who is listed
\* has not been answered.
ServedOnce ==
    /\ \A i, j \in DOMAIN backlog : backlog[i] = backlog[j] => i = j
    /\ \A i \in DOMAIN backlog : backlog[i] # serving
    /\ \A c \in Client : pc[c] = "idle" => ~Open(c) /\ reply[c] = "none"
    /\ \A c \in Client : Open(c) => reply[c] = "none"

\* The line that is executed when n bytes were read.
LineOf(c, n) == IF n = LineLength[c] + 1 THEN n - 1 ELSE n

\* What was executed for a client is what was read from it, or nothing when the
\* compositor died on its connection.
AnswersTell ==
    \A c \in Client :
        /\ pc[c] = "waiting" => wrote[c] = LineLength[c] + 1
        /\ reply[c] = "none" => ran[c] = <<>>
        /\ reply[c] = "ok" => ran[c] = <<LineOf(c, took[c])>>
        /\ reply[c] = "end" => ran[c] \in {<<>>, <<LineOf(c, took[c])>>}

Types ==
    /\ pc \in [Client -> {"idle", "writing", "waiting", "ok", "failed"}]
    /\ wrote \in [Client -> Nat]
    /\ took \in [Client -> Nat]
    /\ reply \in [Client -> {"none", "ok", "err", "end"}]
    /\ ran \in [Client -> Seq(Nat)]
    /\ backlog \in Seq(Client)
    /\ serving \in Client \union {NoClient}

\* A connection ends without an answer only if the compositor died on it.
EndMeansStopped == \A c \in Client : reply[c] = "end" => phase = "stopped"

IpcInv == Types /\ ServedOnce /\ AnswersTell /\ EndMeansStopped /\ SuccessMeansRun

\* Every byte read was waited for no longer than a timeout, and so far is the
\* next one.
HoldInv ==
    /\ got \in 0..Cap
    /\ quiet \in 0..Timeout
    /\ elapsed \in Nat
    /\ elapsed <= Timeout * got + quiet

-----------------------------------------------------------------------------
(* What success means *)

\* A new connection keeps the invariant.
LEMMA ConnectStep ==
    ASSUME IpcInv, NEW c \in Client, Connect(c)
    PROVE  IpcInv'
<1> USE DEF IpcInv, Types
<1>1. /\ pc[c] = "idle" /\ pc' = [pc EXCEPT ![c] = "writing"]
      /\ backlog' = Append(backlog, c)
      /\ UNCHANGED <<wrote, took, reply, ran, phase, serving>>
  BY DEF Connect, server
<1>2. ~Open(c) /\ reply[c] = "none"
  BY <1>1 DEF ServedOnce
<1>3. /\ backlog' \in Seq(Client)
      /\ DOMAIN backlog' = DOMAIN backlog \union {Len(backlog) + 1}
      /\ Len(backlog) + 1 \notin DOMAIN backlog
      /\ \A i \in DOMAIN backlog : backlog'[i] = backlog[i]
      /\ backlog'[Len(backlog) + 1] = c
  <2>1. backlog \in Seq(Client) /\ backlog' = Append(backlog, c)
    BY <1>1
  <2>2. Len(backlog) \in Nat /\ DOMAIN backlog = 1..Len(backlog)
    BY <2>1, LenProperties
  <2>3. /\ backlog' \in Seq(Client) /\ Len(backlog') = Len(backlog) + 1
        /\ \A i \in 1..Len(backlog) : backlog'[i] = backlog[i]
        /\ backlog'[Len(backlog) + 1] = c
    BY ONLY <2>1, AppendProperties
  <2>4. DOMAIN backlog' = 1..(Len(backlog) + 1)
    BY ONLY <2>3, LenProperties
  <2>5. QED
    BY ONLY <2>2, <2>3, <2>4
<1>4. ServedOnce /\ serving' = serving /\ reply' = reply
  BY <1>1
<1>5. Types'
  BY <1>1, <1>3
<1>6. ServedOnce'
  <2>1. \A i \in DOMAIN backlog : backlog[i] # c
    BY <1>2 DEF Open
  <2>2. \A i, j \in DOMAIN backlog' : backlog'[i] = backlog'[j] => i = j
    BY ONLY <1>3, <1>4, <2>1 DEF ServedOnce
  <2>3. \A i \in DOMAIN backlog' : backlog'[i] # serving'
    BY <1>2, <1>3, <1>4 DEF ServedOnce, Open
  <2>4. \A d \in Client : Open(d)' => Open(d) \/ d = c
    BY ONLY <1>3, <1>4 DEF Open
  <2>5. \A d \in Client : pc'[d] = "idle" => d # c /\ pc[d] = "idle"
    BY <1>1
  <2>6. QED
    BY <1>2, <1>4, <2>2, <2>3, <2>4, <2>5 DEF ServedOnce
<1>7. AnswersTell' /\ EndMeansStopped' /\ SuccessMeansRun'
  BY <1>1 DEF AnswersTell, LineOf, EndMeansStopped, SuccessMeansRun
<1>8. QED
  BY <1>5, <1>6, <1>7

\* A write keeps the invariant.
LEMMA WriteStep ==
    ASSUME IpcInv, NEW c \in Client, NEW n \in 1..(LineLength[c] + 1), Write(c, n)
    PROVE  IpcInv'
<1> USE DEF IpcInv, Types
<1>1. /\ pc[c] = "writing" /\ LineLength[c] \in Nat
      /\ UNCHANGED <<took, reply, ran, phase, serving, backlog>>
      /\ \/ pc' = [pc EXCEPT ![c] = "failed"] /\ UNCHANGED wrote
         \/ /\ wrote' = [wrote EXCEPT ![c] = @ + n]
            /\ pc' = [pc EXCEPT ![c] = IF wrote'[c] = LineLength[c] + 1
                                       THEN "waiting" ELSE @]
  BY LinesAssumption DEF Write, server
<1>2. Types'
  <2>1. wrote[c] + n \in Nat
    BY <1>1
  <2>2. QED
    BY <1>1, <2>1
<1>3. ServedOnce'
  BY <1>1 DEF ServedOnce, Open
<1>4. AnswersTell' /\ EndMeansStopped' /\ SuccessMeansRun'
  BY <1>1 DEF AnswersTell, LineOf, EndMeansStopped, SuccessMeansRun
<1>5. QED
  BY <1>2, <1>3, <1>4

\* The client believes in its success only if the other end read all it wrote,
\* and an end without an answer only comes from a compositor that is gone.
LEMMA ReadStep ==
    ASSUME IpcInv, NEW c \in Client, Read(c)
    PROVE  IpcInv'
<1> USE DEF IpcInv, Types
<1>1. /\ pc[c] = "waiting"
      /\ reply[c] # "none" \/ phase = "stopped"
      /\ UNCHANGED <<wrote, took, reply, ran, phase, serving, backlog>>
      /\ pc' = [pc EXCEPT ![c] = IF reply[c] \in {"ok", "end"} /\ took[c] = wrote[c]
                                 THEN "ok" ELSE "failed"]
  BY DEF Read, Closed, server
<1>2. LineLength[c] \in Nat
  BY LinesAssumption
<1>3. reply[c] = "ok" /\ took[c] = wrote[c] => ran[c] = <<LineLength[c]>>
  BY <1>1, <1>2 DEF AnswersTell, LineOf
<1>4. reply[c] = "end" /\ took[c] = wrote[c] =>
         phase = "stopped" /\ ran[c] \in {<<>>, <<LineLength[c]>>}
  BY <1>1, <1>2 DEF AnswersTell, LineOf, EndMeansStopped
<1>5. Types' /\ ServedOnce'
  BY <1>1 DEF ServedOnce, Open
<1>6. AnswersTell' /\ EndMeansStopped'
  BY <1>1 DEF AnswersTell, LineOf, EndMeansStopped
<1>7. SuccessMeansRun'
  BY <1>1, <1>3, <1>4 DEF SuccessMeansRun
<1>8. QED
  BY <1>5, <1>6, <1>7

\* A client that gives up keeps the invariant.
LEMMA GiveUpStep ==
    ASSUME IpcInv, NEW c \in Client, GiveUp(c)
    PROVE  IpcInv'
BY DEF IpcInv, Types, GiveUp, server, ServedOnce, Open, AnswersTell, LineOf,
       EndMeansStopped, SuccessMeansRun

\* Accepting a connection keeps the invariant.
LEMMA AcceptStep ==
    ASSUME IpcInv, Accept
    PROVE  IpcInv'
<1> USE DEF IpcInv, Types
<1>1. /\ serving = NoClient /\ backlog # <<>>
      /\ serving' = Head(backlog) /\ backlog' = Tail(backlog)
      /\ UNCHANGED <<pc, wrote, took, reply, ran, phase>>
  BY DEF Accept, clients
<1>2. /\ backlog' \in Seq(Client) /\ serving' = backlog[1] /\ 1 \in DOMAIN backlog
      /\ serving' \in Client
      /\ DOMAIN backlog' \subseteq Int
      /\ \A i \in DOMAIN backlog' :
            i + 1 \in DOMAIN backlog /\ i + 1 # 1 /\ backlog'[i] = backlog[i + 1]
  <2>1. Len(backlog) \in Nat /\ Len(backlog) > 0 /\ DOMAIN backlog = 1..Len(backlog)
    BY <1>1, EmptySeq, LenProperties
  <2>2. /\ Tail(backlog) \in Seq(Client) /\ Len(Tail(backlog)) = Len(backlog) - 1
        /\ \A i \in 1..Len(Tail(backlog)) : Tail(backlog)[i] = backlog[i + 1]
        /\ Head(backlog) = backlog[1]
    BY <1>1, HeadTailProperties
  <2>3. DOMAIN Tail(backlog) = 1..(Len(backlog) - 1)
    BY <2>2, LenProperties
  <2>4. backlog[1] \in Client
    BY <2>1, ElementOfSeq
  <2>5. /\ backlog' \in Seq(Client) /\ serving' = backlog[1] /\ serving' \in Client
        /\ 1 \in DOMAIN backlog /\ DOMAIN backlog' = 1..(Len(backlog) - 1)
    BY <1>1, <2>1, <2>2, <2>3, <2>4
  <2>6. ASSUME NEW i \in DOMAIN backlog'
        PROVE  i + 1 \in DOMAIN backlog /\ i + 1 # 1 /\ backlog'[i] = backlog[i + 1]
    <3>1. i \in 1..Len(Tail(backlog)) /\ i + 1 # 1 /\ i + 1 \in DOMAIN backlog
      BY ONLY <2>1, <2>2, <2>5
    <3>2. QED
      BY ONLY <1>1, <2>2, <3>1
  <2>7. QED
    BY ONLY <2>1, <2>5, <2>6
<1>3. \A c \in Client : Open(c)' => Open(c)
  BY <1>1, <1>2 DEF Open
<1>4. Types'
  BY <1>1, <1>2
<1>5. ServedOnce'
  <2>1. \A i, j \in DOMAIN backlog' : backlog'[i] = backlog'[j] => i = j
    <3> SUFFICES ASSUME NEW i \in DOMAIN backlog', NEW j \in DOMAIN backlog',
                        backlog'[i] = backlog'[j]
                 PROVE  i = j
      OBVIOUS
    <3>1. i + 1 = j + 1
      BY <1>2 DEF ServedOnce
    <3>2. QED
      BY <1>2, <3>1
  <2>2. \A i \in DOMAIN backlog' : backlog'[i] # serving'
    BY <1>2 DEF ServedOnce
  <2>3. QED
    BY <1>1, <1>3, <2>1, <2>2 DEF ServedOnce
<1>6. AnswersTell' /\ EndMeansStopped' /\ SuccessMeansRun'
  BY <1>1 DEF AnswersTell, LineOf, EndMeansStopped, SuccessMeansRun
<1>7. QED
  BY <1>4, <1>5, <1>6

\* The other steps touch the clients, their answers and the queue not at all, or
\* empty the queue.
LEMMA OtherStep ==
    ASSUME IpcInv,
           UNCHANGED <<pc, wrote, took, reply, ran, serving>>,
           phase = "stopped" => phase' = "stopped",
           backlog' \in {backlog, <<>>}
    PROVE  IpcInv'
<1>1. Types'
  <2>1. <<>> \in Seq(Client)
    OBVIOUS
  <2>2. QED
    BY <2>1 DEF IpcInv, Types
<1>2. ServedOnce'
  <2>1. CASE backlog' = backlog
    BY <2>1 DEF IpcInv, ServedOnce, Open
  <2>2. CASE backlog' = <<>>
    <3>1. DOMAIN backlog' = {}
      BY <2>2
    <3>2. QED
      BY <3>1 DEF IpcInv, ServedOnce, Open
  <2>3. QED
    BY <2>1, <2>2
<1>3. AnswersTell' /\ EndMeansStopped' /\ SuccessMeansRun'
  BY DEF IpcInv, AnswersTell, LineOf, EndMeansStopped, SuccessMeansRun
<1>4. QED
  BY <1>1, <1>2, <1>3 DEF IpcInv

\* The end of a connection keeps the invariant, whether its line is executed or
\* not, and whoever of the others is still in the queue.
LEMMA CloseStep ==
    ASSUME IpcInv, got \in Nat, serving # NoClient,
           NEW r \in {"ok", "err", "end"}, Close(r),
           ran' = Executed \/ (r = "end" /\ ran' = ran),
           r = "ok" => Valid, r = "err" => ~Valid,
           phase' = "stopped" \/ (r # "end" /\ phase' = phase),
           UNCHANGED clients, backlog' \in {backlog, <<>>}
    PROVE  IpcInv'
<1> USE DEF IpcInv, Types
<1>1. PICK c \in Client : c = serving
  OBVIOUS
<1>2. Line \in Commands[c] => Line \in Nat
  BY LinesAssumption
<1>3. Line = LineOf(c, got)
  BY <1>1 DEF Line, HasNewline, LineOf
<1>4. reply[c] = "none" /\ ran[c] = <<>>
  BY <1>1 DEF ServedOnce, Open, AnswersTell
<1>5. /\ serving' = NoClient
      /\ reply' = [reply EXCEPT ![c] = r]
      /\ took' = [took EXCEPT ![c] = got]
      /\ UNCHANGED <<pc, wrote>>
  BY <1>1 DEF Close, clients
<1>6. \/ /\ Valid /\ <<Line>> \in Seq(Nat)
         /\ ran' = [ran EXCEPT ![c] = <<Line>>]
      \/ ~Valid /\ ran' = ran
      \/ r = "end" /\ ran' = ran
  <2>1. CASE Valid /\ ran' = Executed
    <3>1. Line \in Nat
      BY <1>1, <1>2, <2>1 DEF Valid
    <3>2. Append(ran[c], Line) = <<Line>> /\ <<Line>> \in Seq(Nat)
      BY <1>4, <3>1
    <3>3. ran' = [ran EXCEPT ![c] = Append(@, Line)]
      BY <1>1, <2>1 DEF Executed
    <3>4. ran' = [ran EXCEPT ![c] = <<Line>>]
      BY <3>2, <3>3
    <3>5. QED
      BY <2>1, <3>2, <3>4
  <2>2. CASE ~Valid /\ ran' = Executed
    <3>1. ran' = [ran EXCEPT ![c] = @]
      BY <1>1, <2>2 DEF Executed
    <3>2. QED
      BY <2>2, <3>1
  <2>3. QED
    BY <2>1, <2>2
<1>7. Types'
  <2>1. backlog' \in Seq(Client)
    <3>1. <<>> \in Seq(Client)
      OBVIOUS
    <3>2. QED
      BY <3>1
  <2>2. took' \in [Client -> Nat] /\ reply' \in [Client -> {"none", "ok", "err", "end"}]
    BY <1>5
  <2>3. ran' \in [Client -> Seq(Nat)]
    BY <1>6
  <2>4. QED
    BY <1>5, <2>1, <2>2, <2>3
<1>8. \A i \in DOMAIN backlog' : i \in DOMAIN backlog /\ backlog'[i] = backlog[i]
  <2>1. CASE backlog' = <<>>
    <3>1. DOMAIN backlog' = {}
      BY <2>1
    <3>2. QED
      BY <3>1
  <2>2. CASE backlog' = backlog
    BY <2>2
  <2>3. QED
    BY <2>1, <2>2
<1>9. \A d \in Client : Open(d)' => Open(d) /\ d # c
  BY <1>1, <1>5, <1>8, ClientAssumption DEF Open, ServedOnce
<1>10. ServedOnce'
  <2>1. \A i \in DOMAIN backlog : backlog[i] # NoClient
    <3>1. \A i \in DOMAIN backlog : backlog[i] \in Client
      BY ElementOfSeq, LenProperties
    <3>2. QED
      BY <3>1, ClientAssumption
  <2>2. pc[c] # "idle"
    BY <1>1 DEF ServedOnce, Open
  <2>3. QED
    BY <1>5, <1>8, <1>9, <2>1, <2>2 DEF ServedOnce
<1>11. AnswersTell'
  <2> SUFFICES ASSUME NEW d \in Client
               PROVE  /\ pc'[d] = "waiting" => wrote'[d] = LineLength[d] + 1
                      /\ reply'[d] = "none" => ran'[d] = <<>>
                      /\ reply'[d] = "ok" => ran'[d] = <<LineOf(d, took'[d])>>
                      /\ reply'[d] = "end" => ran'[d] \in {<<>>, <<LineOf(d, took'[d])>>}
    BY DEF AnswersTell, LineOf
  <2>1. CASE d = c
    <3>1. reply'[c] = r /\ took'[c] = got /\ ran'[c] \in {<<>>, <<Line>>}
          /\ (r = "ok" => ran'[c] = <<Line>>)
      BY <1>4, <1>5, <1>6
    <3>2. QED
      BY <1>3, <1>5, <2>1, <3>1 DEF AnswersTell
  <2>2. CASE d # c
    BY <1>5, <1>6, <2>2 DEF AnswersTell
  <2>3. QED
    BY <2>1, <2>2
<1>12. EndMeansStopped'
  BY <1>5 DEF EndMeansStopped
<1>13. SuccessMeansRun'
  <2>1. pc[c] # "ok"
    <3>1. Len(<<LineLength[c]>>) = 1 /\ Len(<<>>) = 0
      OBVIOUS
    <3>2. ran[c] # <<LineLength[c]>>
      BY <1>4, <3>1
    <3>3. QED
      BY <1>4, <3>2 DEF SuccessMeansRun
  <2>2. \A d \in Client : d # c => reply'[d] = reply[d] /\ ran'[d] = ran[d]
    BY <1>5, <1>6
  <2>3. phase = "stopped" => phase' = "stopped"
    OBVIOUS
  <2>4. QED
    BY <1>5, <2>1, <2>2, <2>3 DEF SuccessMeansRun
<1>14. QED
  BY <1>7, <1>10, <1>11, <1>12, <1>13

\* An answer tells what was executed.
LEMMA AnswerStep ==
    ASSUME IpcInv, got \in Nat, Answer
    PROVE  IpcInv'
<1>1. serving # NoClient
  BY DEF Answer, LineRead
<1>2. CASE Valid
  BY <1>1, <1>2, CloseStep DEF Answer
<1>3. CASE ~Valid
  BY <1>1, <1>3, CloseStep DEF Answer
<1>4. QED
  BY <1>2, <1>3

\* A compositor that dies tells nobody.
LEMMA CrashStep ==
    ASSUME IpcInv, got \in Nat, Crash
    PROVE  IpcInv'
<1>1. CASE serving = NoClient
  BY <1>1, OtherStep DEF Crash, clients
<1>2. CASE serving # NoClient
  BY <1>2, CloseStep DEF Crash
<1>3. QED
  BY <1>1, <1>2

\* Every step keeps the invariant.
LEMMA IpcInvStep == IpcInv /\ HoldInv /\ [Next]_vars => IpcInv'
<1> SUFFICES ASSUME IpcInv, HoldInv, [Next]_vars PROVE IpcInv'
  OBVIOUS
<1>1. got \in Nat
  BY DEF HoldInv
<1>2. CASE Wake \/ AcceptDone \/ ReadByte \/ Tick \/ Stop
  BY <1>2, OtherStep DEF Wake, AcceptDone, ReadByte, Tick, Stop, clients, server
<1>3. CASE UNCHANGED vars
  BY <1>3, OtherStep DEF vars, clients, server
<1>4. QED
  BY <1>1, <1>2, <1>3, ConnectStep, WriteStep, ReadStep, GiveUpStep, AcceptStep,
     AnswerStep, CrashStep DEF Next

-----------------------------------------------------------------------------
(* How long the event loop is held *)

\* A tick is added to the silence it prolongs; a byte ends a silence that was no
\* longer than the timeout.
LEMMA HoldInvStep == HoldInv /\ [Next]_vars => HoldInv'
<1> SUFFICES ASSUME HoldInv, [Next]_vars PROVE HoldInv'
  OBVIOUS
<1> USE LimitsAssumption DEF HoldInv
<1>1. CASE Tick
  <2>1. got' = got /\ quiet' = quiet + 1 /\ elapsed' = elapsed + 1 /\ quiet < Timeout
    BY <1>1 DEF Tick
  <2>2. Timeout * got \in Nat
    BY SMT
  <2> DEFINE held == Timeout * got
  <2>3. held' = held
    BY <2>1
  <2> HIDE DEF held
  <2>4. elapsed + 1 <= held + (quiet + 1)
    BY <2>2 DEF held
  <2>5. QED
    BY <2>1, <2>3, <2>4 DEF held
<1>2. CASE ReadByte
  <2>1. got' = got + 1 /\ quiet' = 0 /\ elapsed' = elapsed /\ got < Cap
    BY <1>2 DEF ReadByte, WantsMore
  <2>2. Timeout * (got + 1) = Timeout * got + Timeout
    BY SMT
  <2> DEFINE held == Timeout * got
             after == Timeout * (got + 1)
  <2>3. held \in Nat /\ after = held + Timeout
    BY <2>2, SMT
  <2>4. Timeout * got' + quiet' = after + quiet'
    BY <2>1
  <2> HIDE DEF held, after
  <2>5. elapsed <= held + quiet
    BY DEF held
  <2>6. elapsed' <= after + quiet'
    BY <2>1, <2>3, <2>5
  <2>7. QED
    BY <2>1, <2>4, <2>6
<1>3. CASE Accept \/ Answer \/ Crash
  BY <1>3, SMT DEF Accept, Answer, Crash, Close
<1>4. CASE UNCHANGED <<got, quiet, elapsed>>
  BY <1>4
<1>5. QED
  BY <1>1, <1>2, <1>3, <1>4
  DEF Next, Connect, Read, GiveUp, Write, Wake, AcceptDone, Stop, server, vars

\* The invariant holds at the start.
LEMMA InitialState == Init => IpcInv /\ HoldInv
<1> SUFFICES ASSUME Init PROVE IpcInv /\ HoldInv
  OBVIOUS
<1>1. IpcInv
  BY ClientAssumption DEF Init, IpcInv, Types, ServedOnce, Open, AnswersTell,
     EndMeansStopped, SuccessMeansRun
<1>2. HoldInv
  BY LimitsAssumption, SMT DEF Init, HoldInv
<1>3. QED
  BY <1>1, <1>2

\* An exit code of success means that the whole line was executed, once, and
\* nothing else, or that the compositor died on the connection and executed nothing
\* but that: for any lines, however they arrive and wherever the cap and the
\* timeout cut them.
THEOREM SuccessIsTrue == Spec => []SuccessMeansRun
<1>1. IpcInv /\ HoldInv /\ [Next]_vars => (IpcInv /\ HoldInv)'
  BY IpcInvStep, HoldInvStep
<1>2. IpcInv => SuccessMeansRun
  BY DEF IpcInv
<1>3. QED
  BY InitialState, <1>1, <1>2, PTL DEF Spec

\* One connection holds the event loop for at most a timeout per byte under the
\* cap and one more.
THEOREM HoldsBounded == Spec => []HoldBounded
<1>1. HoldInv => HoldBounded
  <2> SUFFICES ASSUME HoldInv PROVE elapsed <= Timeout * (Cap + 1)
    BY DEF HoldBounded
  <2>1. Timeout \in Nat /\ Cap \in Nat /\ got \in Nat /\ got <= Cap /\ quiet <= Timeout
        /\ quiet \in Nat /\ elapsed \in Nat
    BY LimitsAssumption DEF HoldInv
  <2>2. Timeout * got <= Timeout * Cap
    BY <2>1, SMT
  <2>3. Timeout * (Cap + 1) = Timeout * Cap + Timeout
    BY <2>1, SMT
  <2> DEFINE held == Timeout * got
             most == Timeout * Cap
  <2>4. held \in Nat /\ most \in Nat /\ held <= most /\ Timeout * (Cap + 1) = most + Timeout
    BY <2>1, <2>2, <2>3, SMT
  <2>5. elapsed <= held + quiet
    BY DEF HoldInv
  <2> HIDE DEF held, most
  <2>6. QED
    BY <2>1, <2>4, <2>5
<1>2. QED
  BY <1>1, InitialState, HoldInvStep, PTL DEF Spec
=============================================================================
