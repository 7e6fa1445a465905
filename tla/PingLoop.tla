------------------------------- MODULE PingLoop -------------------------------
(***************************************************************************)
(* The latency of an agent: the ping loop and the pongs of                 *)
(* packages/relay/src/agentHub.ts, what router.ts tells the browsers, what *)
(* GET /api/agents answers, and what useAgentStore.ts in packages/web/src  *)
(* keeps of both.  A tick is the 30 s interval, longer than the 10 s a     *)
(* ping is given; ticks that find the agent's socket not open change       *)
(* nothing and are not counted.  A ping is known by its tick, a latency by *)
(* the ping of the pong that it was last computed from.  The agent's token *)
(* has an owner, who is the user of the browser.                           *)
(***************************************************************************)
EXTENDS Naturals, Sequences

CONSTANTS
    MaxTicks,       \* bound of the model: ticks of the loop
    MaxLists        \* bound of the model: lists under way

VARIABLES
    ticks,          \* history: ticks of the loop
    pendingPing,    \* Null or the ping that is waited for
    toAgent, toRelay,   \* pings and pongs under way
    latencyMs,      \* Null or the latency
    zeros,          \* the latencies of 0 ms or less
    connected,      \* the WebSocket of the browser
    toBrowser,      \* agent.latency messages on it, in order
    lists,          \* calls of GET /api/agents, with the latency in their answers
    listed,         \* useAgentStore: the agent is in the list
    shown,          \* useAgentStore: latencyMs of the agent
    behind          \* history: the browser was not told of the latency, see below

vars == <<ticks, pendingPing, toAgent, toRelay, latencyMs, zeros, connected, toBrowser,
          lists, listed, shown, behind>>
agentVars == <<ticks, pendingPing, toAgent, toRelay, latencyMs, zeros>>

Null == 0
Pings == 1..ticks
Latency == 0..ticks
Calls == 1..MaxLists
\* A list is old when the latency has changed since it was answered
List == [answered : BOOLEAN, latencyMs : Latency, old : BOOLEAN]
NoList == [answered |-> FALSE, latencyMs |-> Null, old |-> FALSE]

TypeOK ==
    /\ ticks \in 0..MaxTicks /\ {pendingPing, latencyMs, shown} \subseteq Latency
    /\ toAgent \union toRelay \union zeros \subseteq Pings
    /\ toBrowser \in Seq(Latency) /\ lists \in [Calls -> List]
    /\ {connected, listed, behind} \subseteq BOOLEAN

Init ==
    /\ ticks = 0 /\ pendingPing = Null /\ toAgent = {} /\ toRelay = {}
    /\ latencyMs = Null /\ zeros = {}
    /\ connected \in BOOLEAN /\ toBrowser = <<>> /\ lists = [c \in Calls |-> NoList]
    /\ listed = FALSE /\ shown = Null /\ behind = FALSE

-----------------------------------------------------------------------------
\* The relay

Aged == lists' = [c \in Calls |-> [lists[c] EXCEPT !.old = lists[c].answered]]

\* Told the latency, the browser will show it; not connected, it falls behind.
Tell(l) ==
    /\ toBrowser' = IF connected THEN Append(toBrowser, l) ELSE toBrowser
    /\ behind' = ~connected
    /\ Aged

TimedOut == pendingPing # Null

GiveUp ==
    /\ latencyMs' = Null /\ pendingPing' = Null
    /\ IF latencyMs # Null THEN Tell(Null) ELSE UNCHANGED <<toBrowser, behind, lists>>
    /\ UNCHANGED toAgent

SendPing ==
    /\ pendingPing' = ticks' /\ toAgent' = toAgent \union {ticks'}
    /\ UNCHANGED <<latencyMs, toBrowser, behind, lists>>

\* A ping that times out is not followed by another in the same tick
Tick ==
    /\ ticks < MaxTicks /\ ticks' = ticks + 1
    /\ IF TimedOut THEN GiveUp ELSE SendPing
    /\ UNCHANGED <<toRelay, zeros, connected, listed, shown>>

AgentPongs ==
    /\ \E id \in toAgent : toAgent' = toAgent \ {id} /\ toRelay' = toRelay \union {id}
    /\ UNCHANGED <<ticks, pendingPing, latencyMs, zeros, connected, toBrowser, lists, listed,
                   shown, behind>>

BugAnyPong(id) == TRUE                      \* pong.id is not compared
Awaited(id) == id = pendingPing

\* The latency is smoothed, and may round to 0 ms after one that was not, or not
Pong(id) ==
    /\ toRelay' = toRelay \ {id}
    /\ IF Awaited(id)
       THEN /\ latencyMs' = id /\ zeros' \in {zeros, zeros \union {id}}
            /\ pendingPing' = Null /\ Tell(id)
       ELSE UNCHANGED <<latencyMs, zeros, pendingPing, toBrowser, behind, lists>>
    /\ UNCHANGED <<ticks, toAgent, connected, listed, shown>>

\* The connection ends and a hello starts the next, or a hello replaces it: the new
\* one has no latency, which nobody is told.  Pongs of the old one may still come.
NewConnection ==
    /\ pendingPing' = Null /\ toAgent' = {} /\ latencyMs' = Null
    /\ IF latencyMs # Null THEN behind' = TRUE /\ Aged ELSE UNCHANGED <<behind, lists>>
    /\ UNCHANGED <<ticks, toRelay, zeros, connected, toBrowser, listed, shown>>

\* GET /api/agents
AnswerList(c) ==
    /\ lists[c] = NoList
    /\ lists' = [lists EXCEPT ![c] = [answered |-> TRUE, latencyMs |-> latencyMs, old |-> FALSE]]
    /\ UNCHANGED <<agentVars, connected, toBrowser, listed, shown, behind>>

-----------------------------------------------------------------------------
\* The browser

\* useAgentStore takes 0 ms for no latency, in messages but not in lists
Seen(l) == IF l \in zeros THEN Null ELSE l

\* Lost on a browser that does not have the agent in its list yet
OnLatency ==
    /\ toBrowser # <<>> /\ toBrowser' = Tail(toBrowser)
    /\ shown' = IF listed THEN Seen(Head(toBrowser)) ELSE shown
    /\ behind' = (behind \/ (~listed /\ toBrowser' = <<>>))
    /\ UNCHANGED <<agentVars, connected, lists, listed>>

\* The answer to fetchAgents.  Of an agent without a latency the last one that was
\* known is kept.  A list that has one catches up, or is itself behind, unless a
\* message that comes later will set it right.
Shown(l) == IF l # Null THEN l ELSE shown
FetchAgents(c) ==
    /\ lists[c].answered
    /\ lists' = [lists EXCEPT ![c] = NoList]
    /\ shown' = Shown(lists[c].latencyMs) /\ listed' = TRUE
    /\ behind' = CASE lists[c].latencyMs = Null -> behind
                   [] lists[c].latencyMs # Null /\ lists[c].old -> behind \/ toBrowser = <<>>
                   [] OTHER -> FALSE
    /\ UNCHANGED <<agentVars, connected, toBrowser>>

FetchFails(c) ==
    /\ lists[c].answered
    /\ lists' = [lists EXCEPT ![c] = NoList]
    /\ UNCHANGED <<agentVars, connected, toBrowser, listed, shown, behind>>

\* The messages on a socket are lost with it
BrowserConnection ==
    /\ connected' = ~connected
    /\ toBrowser' = <<>> /\ behind' = (behind \/ toBrowser # <<>>)
    /\ UNCHANGED <<agentVars, lists, listed, shown>>

Next ==
    \/ Tick \/ AgentPongs \/ NewConnection \/ OnLatency \/ BrowserConnection
    \/ \E id \in toRelay : Pong(id)
    \/ \E c \in Calls : AnswerList(c) \/ FetchAgents(c) \/ FetchFails(c)

Spec == Init /\ [][Next]_vars

-----------------------------------------------------------------------------
\* The latency that is known is that of the ping of this tick or of the one
\* before, however late pongs come in and whichever connection they are of.  The
\* browser, when it has no message to come, shows that latency and no other, a
\* latency that has ended included, or nothing where the message said 0 ms.  Behind
\* is the browser that was not told of the last change: by a message it missed, by a
\* new connection of the agent, or since it put the latency of a list over a message
\* that was newer.  It catches up with the next message, or a list with a latency.
LatencyIsFresh ==
    /\ latencyMs # Null => ticks - latencyMs <= 1
    /\ toBrowser = <<>> /\ ~behind => shown \in {latencyMs, Seen(latencyMs)}

-----------------------------------------------------------------------------
\* The inductive invariant

\* The ping that is waited for is of this tick, as the next one gives it up; a
\* latency that is known is as old as the loop allows: of this tick, or, when the
\* ping of this tick is waited for, of the one before.
Recent ==
    /\ pendingPing \in {Null, ticks}
    /\ latencyMs # Null => latencyMs = IF pendingPing = Null THEN ticks ELSE ticks - 1

\* The last message to come is of the latency there is, and so is a list that is
\* not old; a browser that is behind while there is a latency has none to come, and
\* none comes without a connection.
Told ==
    /\ ~connected => toBrowser = <<>>
    /\ ~behind => IF toBrowser = <<>> THEN shown \in {latencyMs, Seen(latencyMs)}
                  ELSE toBrowser[Len(toBrowser)] = latencyMs
    /\ behind /\ latencyMs # Null => toBrowser = <<>>
    /\ \A c \in Calls : ~lists[c].old /\ lists[c].answered => lists[c].latencyMs = latencyMs

PingInv == TypeOK /\ Recent /\ Told
=============================================================================
