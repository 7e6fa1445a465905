------------------------------ MODULE AgentLink ------------------------------
(***************************************************************************)
(* The agent's connection to the relay (agent/client.go): the goroutine    *)
(* that runs Client.Run, the writer and heartbeat goroutines of each       *)
(* connection, and the readPTY goroutines that outlive connections, which  *)
(* all meet at the channel sendCh.  A Go channel is modelled by what the   *)
(* runtime does: a receive from a full channel lets the longest waiting    *)
(* sender in, so senders wait only while the channel is full.              *)
(* A message is told apart by whether it is agent.hello, which the relay   *)
(* wants first, and by whether it was sent for a connection since lost.    *)
(***************************************************************************)
EXTENDS Naturals, Sequences, FiniteSets, SequencesExt

CONSTANTS
    Shells,         \* pool of sessions, each with its readPTY goroutine
    Capacity,       \* make(chan []byte, 256)
    MaxBackoff,     \* maxBackoff in seconds
    MaxRetries,     \* config.MaxRetries, 0 for no limit
    RetryBound      \* bound of the model: retries is not counted beyond it

Power2[n \in Nat] == IF n = 0 THEN 1 ELSE 2 * Power2[n - 1]

ASSUME LinkConstants ==
    /\ Capacity \in Nat \ {0} /\ MaxBackoff \in Nat \ {0}
    /\ MaxRetries \in Nat /\ RetryBound \in Nat \ {0}
    /\ MaxRetries <= RetryBound
    /\ Power2[RetryBound - 1] >= MaxBackoff     \* by then every pause is the longest
    /\ {"main", "heart"} \intersect Shells = {}

VARIABLES
    main,           \* where Run is
    retries, backoff,
    sendCh,         \* the channel's buffer
    waiting,        \* the senders blocked in Send, longest first
    writer, held,   \* writeLoop: alive or not, the message it is writing
    heart,          \* startHeartbeat: alive or not
    shells,         \* sessions whose readPTY is running
    link,           \* the TCP connection
    first           \* type of the first message the relay got over it

vars == <<main, retries, backoff, sendCh, waiting, writer, held, heart,
          shells, link, first>>
queue == <<sendCh, waiting>>
workers == <<writer, held, heart>>
network == <<link, first>>
patience == <<retries, backoff>>

Senders == {"main", "heart"} \union Shells
Message == [type : {"hello", "other"}, old : BOOLEAN]
Hello == [type |-> "hello", old |-> FALSE]
Other == [type |-> "other", old |-> FALSE]

TypeOK ==
    /\ main \in {"connect", "hello", "read", "join", "drain", "sleep", "stopped"}
    /\ retries \in 0..RetryBound /\ backoff \in 1..MaxBackoff
    /\ sendCh \in Seq(Message) /\ Len(sendCh) <= Capacity
    /\ waiting \in Seq([proc : Senders, msg : Message])
    /\ writer \in {"off", "run"} /\ heart \in {"off", "run"}
    /\ held \in Seq(Message) /\ Len(held) <= 1
    /\ shells \subseteq Shells
    /\ link \in {"down", "up", "broken"}
    /\ first \in {"none", "hello", "other"}

Init ==
    /\ main = "connect" /\ retries = 0 /\ backoff = 1
    /\ sendCh = <<>> /\ waiting = <<>>
    /\ writer = "off" /\ held = <<>> /\ heart = "off"
    /\ shells = {}
    /\ link = "down" /\ first = "none"

-----------------------------------------------------------------------------
\* The channel

Blocked(p) == \E i \in DOMAIN waiting : waiting[i].proc = p

Send(p, m) ==
    IF Len(sendCh) < Capacity
    THEN sendCh' = Append(sendCh, m) /\ UNCHANGED waiting
    ELSE waiting' = Append(waiting, [proc |-> p, msg |-> m]) /\ UNCHANGED sendCh

Receive ==
    /\ sendCh # <<>>
    /\ IF waiting = <<>>
       THEN sendCh' = Tail(sendCh) /\ UNCHANGED waiting
       ELSE /\ sendCh' = Append(Tail(sendCh), Head(waiting).msg)
            /\ waiting' = Tail(waiting)

MayTimeOut(p) == Blocked(p)

\* The process exits when Run returns
Running == main # "stopped"

\* The message is dropped after five seconds
SendTimeout(p) ==
    /\ MayTimeOut(p) /\ Running
    /\ \E i \in DOMAIN waiting :
         waiting[i].proc = p /\ waiting' = RemoveAt(waiting, i)
    /\ UNCHANGED <<main, patience, sendCh, workers, shells, network>>

-----------------------------------------------------------------------------
\* Run

Smaller(x, y) == IF x <= y THEN x ELSE y
CountRetry(n) == Smaller(n + 1, RetryBound)
BugUncapped(n) == 2 * n                     \* min(..., maxBackoff) forgotten
Doubled(n) == Smaller(2 * n, MaxBackoff)

\* What follows each retries++: give up or sleep
GiveUpOrSleep ==
    /\ retries' = CountRetry(retries)
    /\ main' = IF MaxRetries > 0 /\ retries' >= MaxRetries THEN "stopped" ELSE "sleep"

\* Dial or verifyServerChallenge returns an error
ConnectFails ==
    /\ main = "connect"
    /\ GiveUpOrSleep
    /\ UNCHANGED <<backoff, queue, workers, shells, network>>

\* Connect queues agent.hello before writeLoop exists
ConnectOpens ==
    /\ main = "connect"
    /\ link' = "up" /\ first' = "none"
    /\ main' = "hello"
    /\ Send("main", Hello)
    /\ UNCHANGED <<patience, workers, shells>>

BugKeepBackoff == backoff                   \* only retries is reset
BackoffOnSuccess == 1

\* Connect has returned: reset, start the goroutines, enter readLoop
StartLoops ==
    /\ main = "hello" /\ ~Blocked("main")
    /\ retries' = 0 /\ backoff' = BackoffOnSuccess
    /\ writer' = "run" /\ heart' = "run"
    /\ main' = "read"
    /\ UNCHANGED <<queue, held, shells, network>>

\* A message of the relay that makes readLoop send one: agent.ping, a replay
\* request, a transfer.  (Those that send nothing change nothing here.)
Reply ==
    /\ main = "read" /\ ~Blocked("main")
    /\ Send("main", Other)
    /\ UNCHANGED <<main, patience, workers, shells, network>>

\* handlePtyCreate sends pty.created and starts readPTY
ShellStarts(s) ==
    /\ main = "read" /\ ~Blocked("main")
    /\ s \notin shells /\ ~Blocked(s)
    /\ shells' = shells \union {s}
    /\ Send("main", Other)
    /\ UNCHANGED <<main, patience, workers, network>>

AsOld(m) == [m EXCEPT !.old = TRUE]
AllOld(ms) == [i \in DOMAIN ms |-> AsOld(ms[i])]

\* ReadMessage fails; close(c.done).  What is on its way is marked.
ReadFails ==
    /\ main = "read" /\ ~Blocked("main")
    /\ link = "broken"
    /\ main' = "join"
    /\ sendCh' = AllOld(sendCh) /\ held' = AllOld(held)
    /\ waiting' = [i \in DOMAIN waiting |-> [waiting[i] EXCEPT !.msg = AsOld(@)]]
    /\ UNCHANGED <<patience, writer, heart, shells, network>>

BugNoWait == TRUE                           \* c.wg.Wait forgotten
WorkersGone == writer = "off" /\ heart = "off"

\* c.wg.Wait() returns; c.conn.Close()
WaitReturns ==
    /\ main = "join" /\ WorkersGone
    /\ main' = "drain" /\ link' = "down"
    /\ UNCHANGED <<patience, queue, workers, shells, first>>

\* What is left of <<sendCh, waiting>> after the drain loop.  The loop receives until
\* the channel is empty, so it also frees every blocked sender.
BugDrainOnce ==                             \* one receive instead of a loop
    IF sendCh = <<>> THEN queue
    ELSE IF waiting = <<>> THEN <<Tail(sendCh), waiting>>
    ELSE <<Append(Tail(sendCh), Head(waiting).msg), Tail(waiting)>>
Drained == <<(<<>>), (<<>>)>>

\* One step: what a shell sends during the loop is drained as well, what it
\* sends after the last receive is sent after this step.
Drain ==
    /\ main = "drain"
    /\ sendCh' = Drained[1] /\ waiting' = Drained[2]
    /\ GiveUpOrSleep
    /\ UNCHANGED <<backoff, workers, shells, network>>

\* time.Sleep(backoff) returns
Wake ==
    /\ main = "sleep"
    /\ main' = "connect"
    /\ backoff' = Doubled(backoff)
    /\ UNCHANGED <<retries, queue, workers, shells, network>>

-----------------------------------------------------------------------------
\* The goroutines of a connection

WriterTakes ==
    /\ writer = "run" /\ held = <<>>
    /\ Receive
    /\ held' = <<Head(sendCh)>>
    /\ UNCHANGED <<main, patience, writer, heart, shells, network>>

\* WriteMessage succeeds: into a connection that is up, or into the buffers
\* of one that is broken already
WriterWrites ==
    /\ held # <<>>
    /\ held' = <<>>
    /\ first' = IF link = "up" /\ first = "none" THEN Head(held).type ELSE first
    /\ UNCHANGED <<main, patience, queue, writer, heart, shells, link>>

WriterFails ==
    /\ held # <<>> /\ link = "broken"
    /\ held' = <<>> /\ writer' = "off"
    /\ UNCHANGED <<main, patience, queue, heart, shells, network>>

DoneClosed == main # "read"                 \* for a goroutine that is alive
BugDeafWriter == FALSE                      \* writeLoop does not watch c.done
WriterToldToStop == DoneClosed

WriterStops ==
    /\ writer = "run" /\ held = <<>> /\ WriterToldToStop
    /\ writer' = "off"
    /\ UNCHANGED <<main, patience, queue, held, heart, shells, network>>

HeartBeats ==
    /\ heart = "run" /\ ~Blocked("heart")
    /\ Send("heart", Other)
    /\ UNCHANGED <<main, patience, workers, shells, network>>

HeartStops ==
    /\ heart = "run" /\ ~Blocked("heart") /\ DoneClosed
    /\ heart' = "off"
    /\ UNCHANGED <<main, patience, queue, writer, held, shells, network>>

-----------------------------------------------------------------------------
\* readPTY and the network

ShellOutput(s) ==
    /\ s \in shells /\ ~Blocked(s) /\ Running
    /\ Send(s, Other)
    /\ UNCHANGED <<main, patience, workers, shells, network>>

\* The last message is pty.exited
ShellExits(s) ==
    /\ s \in shells /\ ~Blocked(s) /\ Running
    /\ Send(s, Other)
    /\ shells' = shells \ {s}
    /\ UNCHANGED <<main, patience, workers, network>>

\* The network, or the relay, ends the connection.  The relay does so when
\* the first message is not agent.hello (agentHub.ts).
LinkBreaks ==
    /\ link = "up"
    /\ link' = "broken"
    /\ UNCHANGED <<main, patience, queue, workers, shells, first>>

RunStep ==
    \/ ConnectFails \/ ConnectOpens \/ StartLoops
    \/ Reply \/ ReadFails \/ WaitReturns \/ Drain \/ Wake
WorkerStep ==
    \/ WriterTakes \/ WriterWrites \/ WriterFails \/ WriterStops
    \/ HeartBeats \/ HeartStops

Next ==
    \/ RunStep \/ WorkerStep \/ LinkBreaks
    \/ \E s \in Shells : ShellStarts(s) \/ ShellOutput(s) \/ ShellExits(s)
    \/ \E p \in Senders : SendTimeout(p)

Spec == Init /\ [][Next]_vars

(***************************************************************************)
(* Fairness.  Goroutines that can run do run, timers fire and writes       *)
(* return (weak).  A select with several ready cases picks one at random,  *)
(* so a goroutine that finds c.done closed again and again stops, and the  *)
(* reader that is handed messages reaches the error behind them (strong).  *)
(* The relay can be reached now and then: an attempt at connecting that is *)
(* made again and again succeeds (strong).                                 *)
(***************************************************************************)
Fairness ==
    /\ WF_vars(StartLoops \/ WaitReturns \/ Drain \/ Wake)
    /\ WF_vars(WriterWrites \/ WriterFails)
    /\ SF_vars(WriterStops) /\ SF_vars(HeartStops)
    /\ SF_vars(ReadFails)
    /\ SF_vars(ConnectOpens)
    /\ WF_vars(ConnectOpens \/ ConnectFails)
    /\ \A p \in Senders : WF_vars(SendTimeout(p))

FairSpec == Spec /\ Fairness

-----------------------------------------------------------------------------
\* Properties

\* Two goroutines must never write to one connection: when Run is outside
\* the read loop and its clean-up, no writer or heartbeat of an earlier
\* connection is left, neither running nor blocked in Send.
NoStragglers ==
    main \in {"drain", "sleep", "connect", "hello"} =>
        writer = "off" /\ held = <<>> /\ heart = "off" /\ ~Blocked("heart")

\* retries and backoff are kept apart but move together: the n-th pause of a
\* row of failures is 2^(n-1) seconds, at most MaxBackoff.
PauseDoubles ==
    main = "sleep" => backoff = Smaller(Power2[retries - 1], MaxBackoff)

\* A message whose Send began for one connection is not written on a later
\* one, whether it was in the channel, in a goroutine blocked in Send or in
\* the hands of the writer when the connection was lost.
LostMessagesStayLost ==
    link = "up" => /\ \A i \in DOMAIN held : ~held[i].old
                   /\ \A i \in DOMAIN sendCh : ~sendCh[i].old
                   /\ \A i \in DOMAIN waiting : ~waiting[i].msg.old

\* A lost connection is replaced by a new one, or Run returns, however full
\* the channel and wherever its senders stand.
Reconnects == (link # "up") ~> (link = "up" \/ main = "stopped")

\* "First message must be agent.hello" (packages/relay/src/agentHub.ts:75)
HelloFirst == first # "other"
=============================================================================
