----------------------------- MODULE E2ESession -----------------------------
(***************************************************************************)
(* The encrypted messages of one session between the agent (session.go,    *)
(* file_transfer.go) and the browser (TerminalView.tsx).  Each direction   *)
(* has a counter at both ends.  A message is sealed with the sender's      *)
(* counter and opens only if that is the receiver's counter too; a message *)
(* that does not open leaves the receiver's counter where it is.           *)
(*                                                                         *)
(* A message from the agent is told apart by its counter alone, since the  *)
(* browser opens all kinds alike.  On the agent readPTY ("shell") and      *)
(* readLoop ("loop") take a counter and queue the message in two steps.    *)
(* In the browser opening and sealing are asynchronous and go through a    *)
(* promise queue each.                                                     *)
(***************************************************************************)
EXTENDS Naturals, Sequences, FiniteSets, SequencesExt, Functions

CONSTANTS
    Transfers,      \* transferIds
    Acceptable,     \* those whose metadata are within the agent's limits
    Chunks,         \* totalChunks of every transfer
    ProgressEvery,  \* chunks per file.transfer.progress, 10 in the code
    MaxOutput,      \* bound of the model: counters the agent uses
    MaxKeys         \* bound of the model: keystrokes

ASSUME SessionConstants ==
    /\ Acceptable \subseteq Transfers
    /\ Chunks \in Nat \ {0} /\ ProgressEvery \in Nat \ {0}
    /\ MaxOutput \in Nat /\ MaxKeys \in Nat

VARIABLES
    \* the agent
    SendCounter, RecvCounter,
    staged,         \* per goroutine: the sealed message it has yet to queue
    pending,        \* PendingTransfers: transfer -> indices of its chunks
    \* on the way
    down,           \* counters of the agent's messages
    up,             \* the browser's messages
    \* the browser
    subscribed,     \* TerminalView has derived the keys and subscribed
    sendCounter, recvCounter,
    sendQueue, sealing,
    recvQueue, opening,
    keys, uploads,  \* keystrokes typed, transfers begun
    \* what has happened, for the properties
    lost,           \* directions in which a message was lost
    overtaken,      \* a message of the agent was queued before an earlier one
    skipped         \* the agent put a message aside unopened

agentVars   == <<SendCounter, RecvCounter, staged, pending>>
sendVars    == <<sendCounter, sendQueue, sealing>>
recvVars    == <<recvCounter, recvQueue, opening>>
userVars    == <<subscribed, keys, uploads>>
historyVars == <<lost, overtaken, skipped>>
vars == <<agentVars, down, up, sendVars, recvVars, userVars, historyVars>>

Goroutines == {"shell", "loop"}
Keystroke == [type |-> "pty.data"]
LargePaste == [type |-> "paste"]            \* a pty.data beyond maxPtyPayloadBytes * 2
TransferStart(t) == [type |-> "start", transfer |-> t]
TransferChunk(t, i) == [type |-> "chunk", transfer |-> t, index |-> i]
TransferEnd(t) == [type |-> "end", transfer |-> t]
Contents ==
    {Keystroke, LargePaste} \union {TransferStart(t) : t \in Transfers}
      \union {TransferChunk(t, i) : t \in Transfers, i \in 1..Chunks}
      \union {TransferEnd(t) : t \in Transfers}
Sealed == [n : Nat, content : Contents]

TypeOK ==
    /\ SendCounter \in Nat /\ RecvCounter \in Nat
    /\ sendCounter \in Nat /\ recvCounter \in Nat
    /\ staged \in [Goroutines -> Seq(Nat)]
    /\ \A g \in Goroutines : Len(staged[g]) <= 1
    /\ DOMAIN pending \subseteq Transfers /\ Cardinality(DOMAIN pending) <= 1
    /\ \A t \in DOMAIN pending : pending[t] \subseteq 1..Chunks
    /\ down \in Seq(Nat) /\ recvQueue \in Seq(Nat)
    /\ up \in Seq(Sealed) /\ sendQueue \in Seq(Contents) /\ sealing \in Seq(Sealed)
    /\ opening \in Seq([n : Nat, expected : Nat])
    /\ subscribed \in BOOLEAN /\ keys \in Nat /\ uploads \subseteq Transfers
    /\ lost \subseteq {"down", "up"} /\ overtaken \in BOOLEAN /\ skipped \in BOOLEAN

Init ==
    /\ SendCounter = 0 /\ RecvCounter = 0
    /\ staged = [g \in Goroutines |-> <<>>]
    /\ pending = [t \in {} |-> {}]
    /\ down = <<>> /\ up = <<>>
    /\ subscribed = FALSE
    /\ sendCounter = 0 /\ sendQueue = <<>> /\ sealing = <<>>
    /\ recvCounter = 0 /\ recvQueue = <<>> /\ opening = <<>>
    /\ keys = 0 /\ uploads = {}
    /\ lost = {} /\ overtaken = FALSE /\ skipped = FALSE

-----------------------------------------------------------------------------
\* The agent sends

\* Take a counter and seal
Seal(g) ==
    /\ staged' = [staged EXCEPT ![g] = Append(@, SendCounter)]
    /\ SendCounter' = SendCounter + 1

ShellOutput ==
    /\ staged["shell"] = <<>> /\ SendCounter < MaxOutput
    /\ Seal("shell")
    /\ UNCHANGED <<RecvCounter, pending, down, up, sendVars, recvVars, userVars,
                   historyVars>>

\* Send: the message gets into sendCh
Queue(g) ==
    /\ staged[g] # <<>>
    /\ down' = down \o staged[g]
    /\ staged' = [staged EXCEPT ![g] = <<>>]
    /\ overtaken' = (overtaken \/ \E h \in Goroutines :
                       staged[h] # <<>> /\ Head(staged[h]) < Head(staged[g]))
    /\ UNCHANGED <<SendCounter, RecvCounter, pending, up, sendVars, recvVars,
                   userVars, lost, skipped>>

\* Send gives up after five seconds
QueueTimeout(g) ==
    /\ staged[g] # <<>>
    /\ staged' = [staged EXCEPT ![g] = <<>>]
    /\ lost' = lost \union {"down"}
    /\ UNCHANGED <<SendCounter, RecvCounter, pending, down, up, sendVars, recvVars,
                   userVars, overtaken, skipped>>

\* The agent's connection is replaced while the relay keeps the session:
\* what was in sendCh or in the old sockets is gone.
LoseDown ==
    /\ \E i \in DOMAIN down : down' = RemoveAt(down, i)
    /\ lost' = lost \union {"down"}
    /\ UNCHANGED <<agentVars, up, sendVars, recvVars, userVars, overtaken, skipped>>

LoseUp ==
    /\ \E i \in DOMAIN up : up' = RemoveAt(up, i)
    /\ lost' = lost \union {"up"}
    /\ UNCHANGED <<agentVars, down, sendVars, recvVars, userVars, overtaken, skipped>>

-----------------------------------------------------------------------------
\* The agent receives: readLoop, which is busy while it has a message to queue

BugNotBusy(type) ==                         \* a goroutine per message
    up # <<>> /\ Head(up).content.type = type
NextUp(type) == staged["loop"] = <<>> /\ up # <<>> /\ Head(up).content.type = type
Received == Head(up).content

BugLenient == Head(up).n >= RecvCounter     \* the nonce is trusted if it is later
Opens == Head(up).n = RecvCounter

BugOnlyKeystrokes ==                        \* transfers are opened uncounted
    IF Opens /\ Received.type = "pty.data" THEN RecvCounter + 1 ELSE RecvCounter
NextCounter == IF Opens THEN RecvCounter + 1 ELSE RecvCounter

OpenNext == RecvCounter' = NextCounter

ReceiveKeystroke ==
    /\ NextUp("pty.data")
    /\ up' = Tail(up)
    /\ OpenNext
    /\ UNCHANGED <<SendCounter, staged, pending, down, sendVars, recvVars, userVars,
                   historyVars>>

\* A request is not encrypted, so it is not in up; the answer is
ReplayRequest ==
    /\ staged["loop"] = <<>> /\ SendCounter < MaxOutput
    /\ Seal("loop")
    /\ UNCHANGED <<RecvCounter, pending, down, up, sendVars, recvVars, userVars,
                   historyVars>>

Untouched == UNCHANGED <<SendCounter, staged>>

\* maxTransfersPerSess is 1
Accepts(t) == t \in Acceptable /\ DOMAIN pending = {}

\* handleFileTransferStart: each outcome is answered, unless it does not open
ReceiveStart ==
    /\ NextUp("start")
    /\ up' = Tail(up)
    /\ OpenNext
    /\ LET t == Received.transfer IN
         pending' = IF Opens /\ Accepts(t)
                    THEN [x \in DOMAIN pending \union {t} |->
                            IF x = t THEN {} ELSE pending[x]]
                    ELSE pending
    /\ IF Opens THEN Seal("loop") ELSE Untouched
    /\ UNCHANGED <<down, sendVars, recvVars, userVars, historyVars>>

Forget(t) == Restrict(pending, DOMAIN pending \ {t})

\* Put aside unopened: what is too large, and a chunk or an end of a transfer
\* that is not pending
PutAside ==
    /\ \/ NextUp("paste")
       \/ (NextUp("chunk") \/ NextUp("end")) /\ Received.transfer \notin DOMAIN pending
    /\ up' = Tail(up)
    /\ skipped' = TRUE
    /\ UNCHANGED <<agentVars, down, sendVars, recvVars, userVars, lost, overtaken>>

\* A chunk sixty seconds after the start: the transfer is forgotten and the
\* chunk is not opened either
ReceiveLateChunk ==
    /\ NextUp("chunk")
    /\ Received.transfer \in DOMAIN pending
    /\ up' = Tail(up)
    /\ pending' = Forget(Received.transfer)
    /\ skipped' = TRUE
    /\ UNCHANGED <<SendCounter, RecvCounter, staged, down, sendVars, recvVars,
                   userVars, lost, overtaken>>

ReceiveChunk ==
    /\ NextUp("chunk")
    /\ Received.transfer \in DOMAIN pending
    /\ up' = Tail(up)
    /\ OpenNext
    /\ LET t == Received.transfer
           got == pending[t] \union {Received.index} IN
         IF Opens
         THEN /\ pending' = [pending EXCEPT ![t] = got]
              /\ IF Cardinality(got) % ProgressEvery = 0
                 THEN Seal("loop") ELSE Untouched
         ELSE UNCHANGED pending /\ Untouched
    /\ UNCHANGED <<down, sendVars, recvVars, userVars, historyVars>>

\* handleFileTransferEnd: the answer is file.transfer.complete, or an ack
\* with an error if chunks are missing or the file cannot be saved
ReceiveEnd ==
    /\ NextUp("end")
    /\ Received.transfer \in DOMAIN pending
    /\ up' = Tail(up)
    /\ OpenNext
    /\ pending' = Forget(Received.transfer)
    /\ IF Opens THEN Seal("loop") ELSE Untouched
    /\ UNCHANGED <<down, sendVars, recvVars, userVars, historyVars>>

-----------------------------------------------------------------------------
\* The browser sends

\* The key exchange is over and the handlers are registered
Subscribe ==
    /\ ~subscribed
    /\ subscribed' = TRUE
    /\ UNCHANGED <<agentVars, down, up, sendVars, recvVars, keys, uploads, historyVars>>

Type ==
    /\ subscribed /\ keys < MaxKeys
    /\ keys' = keys + 1
    /\ \E m \in {Keystroke, LargePaste} : sendQueue' = Append(sendQueue, m)
    /\ UNCHANGED <<agentVars, down, up, sendCounter, sealing, recvVars, subscribed,
                   uploads, historyVars>>

\* startImageTransfer queues a whole transfer.  A drop does not look at
\* whether another one is under way.
Upload(t) ==
    /\ subscribed /\ t \notin uploads
    /\ uploads' = uploads \union {t}
    /\ sendQueue' = sendQueue \o <<TransferStart(t)>>
                      \o [i \in 1..Chunks |-> TransferChunk(t, i)] \o <<TransferEnd(t)>>
    /\ UNCHANGED <<agentVars, down, up, sendCounter, sealing, recvVars, subscribed,
                   keys, historyVars>>

BugNoSendQueue == TRUE                      \* sends do not wait for each other
SendIdle == sealing = <<>>

\* encrypt() is called with the counter of this moment
SealBegins ==
    /\ SendIdle /\ sendQueue # <<>>
    /\ sealing' = Append(sealing, [n |-> sendCounter, content |-> Head(sendQueue)])
    /\ sendQueue' = Tail(sendQueue)
    /\ UNCHANGED <<agentVars, down, up, sendCounter, recvVars, userVars, historyVars>>

\* It resolves: sendCounter++, send
SealEnds ==
    /\ \E i \in DOMAIN sealing :
         /\ up' = Append(up, sealing[i])
         /\ sealing' = RemoveAt(sealing, i)
    /\ sendCounter' = sendCounter + 1
    /\ UNCHANGED <<agentVars, down, sendQueue, recvVars, userVars, historyVars>>

-----------------------------------------------------------------------------
\* The browser receives

\* A message nobody has subscribed to yet is dropped
Deliver ==
    /\ down # <<>>
    /\ down' = Tail(down)
    /\ recvQueue' = IF subscribed THEN Append(recvQueue, Head(down)) ELSE recvQueue
    /\ lost' = IF subscribed THEN lost ELSE lost \union {"down"}
    /\ UNCHANGED <<agentVars, up, sendVars, recvCounter, opening, userVars,
                   overtaken, skipped>>

BugNoRecvQueue == TRUE                      \* messages are opened as they come
RecvIdle == opening = <<>>

OpenBegins ==
    /\ RecvIdle /\ recvQueue # <<>>
    /\ opening' = Append(opening, [n |-> Head(recvQueue), expected |-> recvCounter])
    /\ recvQueue' = Tail(recvQueue)
    /\ UNCHANGED <<agentVars, down, up, sendVars, recvCounter, userVars, historyVars>>

OpenEnds ==
    /\ \E i \in DOMAIN opening :
         /\ recvCounter' = IF opening[i].n = opening[i].expected
                           THEN recvCounter + 1 ELSE recvCounter
         /\ opening' = RemoveAt(opening, i)
    /\ UNCHANGED <<agentVars, down, up, sendVars, recvQueue, userVars, historyVars>>

AgentStep ==
    \/ ShellOutput \/ \E g \in Goroutines : Queue(g) \/ QueueTimeout(g)
    \/ ReplayRequest \/ ReceiveKeystroke \/ ReceiveStart \/ PutAside
    \/ ReceiveLateChunk \/ ReceiveChunk \/ ReceiveEnd
BrowserStep ==
    \/ Subscribe \/ Type \/ \E t \in Transfers : Upload(t)
    \/ SealBegins \/ SealEnds \/ Deliver \/ OpenBegins \/ OpenEnds

Next == AgentStep \/ BrowserStep \/ LoseDown \/ LoseUp

Spec == Init /\ [][Next]_vars

-----------------------------------------------------------------------------
\* Properties

Counters(messages) == [i \in DOMAIN messages |-> messages[i].n]
DownInTransit == Counters(opening) \o recvQueue \o down
UpInTransit == Counters(up) \o Counters(sealing)

\* AES-GCM breaks when a nonce is used twice: the messages of the browser
\* that are on their way bear different counters, whatever is being sealed
\* at the same time, and so do those of the agent with its two goroutines.
NoncesDistinct ==
    /\ IsInjective(UpInTransit)
    /\ IsInjective(DownInTransit \o staged["shell"] \o staged["loop"])

\* As long as no message was lost and no goroutine of the agent overtook the
\* other, every message on its way to the browser will open there: the
\* counters in transit continue the browser's.
DownInStep ==
    "down" \in lost \/ overtaken
      \/ \A i \in DOMAIN DownInTransit : DownInTransit[i] = recvCounter + i - 1

\* As long as no message was lost and the agent put none aside unopened,
\* every message on its way to the agent will open there.
UpInStep ==
    "up" \in lost \/ skipped
      \/ \A i \in DOMAIN UpInTransit : UpInTransit[i] = RecvCounter + i - 1

\* The end of a transfer opens only if every chunk of it has been opened, in
\* spite of lost messages, timeouts and transfers in between, so a file is
\* never assembled from a part of its chunks.
EndMeansWhole ==
    NextUp("end") /\ Opens /\ Received.transfer \in DOMAIN pending
      => pending[Received.transfer] = 1..Chunks

\* CHANGELOG.md:51 reports as fixed that file transfers made the nonces of
\* the two ends disagree for ever: a file transfer that loses no message must
\* leave the messages behind it readable for the agent.
UploadKeepsInput ==
    lost = {} => \A i \in DOMAIN UpInTransit : UpInTransit[i] = RecvCounter + i - 1
=============================================================================
