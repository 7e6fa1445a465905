------------------------------ MODULE AgentHub ------------------------------
(***************************************************************************)
(* The relay's side of its agent WebSockets (packages/relay/src/agentHub   *)
(* .ts), with the rows of db.ts it reads and writes and the REST calls of  *)
(* index.ts that change them.  Node runs one handler at a time, so each    *)
(* handler is one action.  A WebSocket is "open", then "closing" from the  *)
(* call of ws.close() or the peer's close frame until its 'close' event;   *)
(* messages of a closing socket are still handled.  A connection object    *)
(* that is gone may be used again for a later socket, and so may an agent  *)
(* id that no row, socket or map entry holds any more.  Definitions named   *)
(* Bug... are variants of the one below them with a plausible mistake; the *)
(* specifications use none of them.                                        *)
(***************************************************************************)
EXTENDS Naturals, FiniteSets, Functions

CONSTANTS
    Conns,          \* WebSocket objects of agents
    Tokens,         \* hashes of agent tokens
    Names,          \* the names agents give in agent.hello
    AgentIds,       \* pool of randomUUID() results used as agent ids
    Fingerprints,   \* machine fingerprints
    Sessions,       \* pool of randomUUID() results used as session ids
    Users,
    TokenUser,      \* agent_tokens.user_id of each token
    NoAgent, NoFingerprint

ASSUME HubConstants ==
    /\ TokenUser \in [Tokens -> Users]
    /\ NoAgent \notin AgentIds
    /\ NoFingerprint \notin Fingerprints

VARIABLES
    conn,           \* per socket: its state and what its closure remembers
    agents,         \* the agents Map: agent id -> current AgentConnection
    agentRows,      \* table agents: agent id -> row
    tokenRow,       \* table agent_tokens: what has become of each token
    users           \* table users

hubVars == <<conn, agents, agentRows, tokenRow, users>>

\* fp is the fingerprint the agent reported in its hello.  The code checks it
\* and forgets it; it is kept here so that properties can speak of it.
Connection == [state   : {"none", "open", "closing"},
               token   : Tokens,
               agentId : AgentIds \union {NoAgent},
               fp      : Fingerprints \union {NoFingerprint}]

AgentConnection == [ws : Conns, token : Tokens, sessions : SUBSET Sessions]

AgentRow == [name : Names, token : Tokens,
             fingerprint : Fingerprints \union {NoFingerprint},
             online : BOOLEAN]

HubTypeOK ==
    /\ conn \in [Conns -> Connection]
    /\ DOMAIN agents \subseteq AgentIds
    /\ agents \in [DOMAIN agents -> AgentConnection]
    /\ DOMAIN agentRows \subseteq AgentIds
    /\ agentRows \in [DOMAIN agentRows -> AgentRow]
    /\ tokenRow \in [Tokens -> {"unissued", "enabled", "disabled", "deleted"}]
    /\ users \subseteq Users

Unconnected(t) == [state |-> "none", token |-> t,
                   agentId |-> NoAgent, fp |-> NoFingerprint]

HubInit ==
    /\ \E t \in Tokens : conn = [c \in Conns |-> Unconnected(t)]
    /\ agents = [a \in {} |-> a]
    /\ agentRows = [a \in {} |-> a]
    /\ tokenRow = [t \in Tokens |-> "unissued"]
    /\ users = Users

-----------------------------------------------------------------------------
\* Maps and rows

IsOpen(c) == conn[c].state = "open"
Live(c)   == conn[c].state # "none"        \* its events are still delivered

BugKeepEntry(f, a) == f                     \* agents.delete forgotten
Without(f, a) == Restrict(f, DOMAIN f \ {a})
With(f, a, v) == [x \in DOMAIN f \union {a} |-> IF x = a THEN v ELSE f[x]]

Closed(cs) ==                              \* ws.close() on the sockets of cs
    [c \in Conns |-> IF c \in cs /\ IsOpen(c)
                     THEN [conn[c] EXCEPT !.state = "closing"] ELSE conn[c]]

TokenExists(t) == tokenRow[t] \in {"enabled", "disabled"}

RowsOf(t, n) ==                            \* UNIQUE(token, name)
    {a \in DOMAIN agentRows : agentRows[a].token = t /\ agentRows[a].name = n}

FreshAgentId(a) ==
    /\ a \notin DOMAIN agentRows \union DOMAIN agents
    /\ \A c \in Conns : conn[c].agentId # a

IsAgentOwnedByUser(a, u) ==
    /\ a \in DOMAIN agentRows
    /\ TokenExists(agentRows[a].token)
    /\ TokenUser[agentRows[a].token] = u

SocketsOfToken(t) == {agents[a].ws : a \in {b \in DOMAIN agents : agents[b].token = t}}

-----------------------------------------------------------------------------
\* The life of an agent's socket

\* HTTP upgrade: the token is verified here and not looked at again.
AgentUpgrade(c, t) ==
    /\ conn[c].state = "none"
    /\ tokenRow[t] = "enabled"
    /\ conn' = [conn EXCEPT ![c] = [Unconnected(t) EXCEPT !.state = "open"]]
    /\ UNCHANGED <<agents, agentRows, tokenRow, users>>

\* The first message is not agent.hello, or the hello has no fingerprint.
RefuseFirstMessage(c) ==
    /\ Live(c) /\ conn[c].agentId = NoAgent
    /\ conn' = Closed({c})
    /\ UNCHANGED <<agents, agentRows, tokenRow, users>>

RefuseFingerprint(c, n, f) ==
    /\ Live(c) /\ conn[c].agentId = NoAgent
    /\ \E a \in RowsOf(conn[c].token, n) :
         agentRows[a].fingerprint \notin {NoFingerprint, f}
    /\ conn' = Closed({c})
    /\ UNCHANGED <<agents, agentRows, tokenRow, users>>

BugAnyFingerprint(c, n, f, a) ==            \* the mismatch test is missing
    LET existing == RowsOf(conn[c].token, n) IN
    \/ a \in existing
    \/ existing = {} /\ FreshAgentId(a)

\* existing?.id ?? randomUUID()
HelloId(c, n, f, a) ==
    LET existing == RowsOf(conn[c].token, n) IN
    \/ a \in existing /\ agentRows[a].fingerprint \in {NoFingerprint, f}
    \/ existing = {} /\ FreshAgentId(a)

RowAfterHello(c, n, f, a) ==
    [name |-> n, token |-> conn[c].token, online |-> TRUE,
     fingerprint |-> IF a \in DOMAIN agentRows /\ agentRows[a].fingerprint # NoFingerprint
                     THEN agentRows[a].fingerprint ELSE f]

ReplacedSocket(a) == IF a \in DOMAIN agents THEN {agents[a].ws} ELSE {}

BugNoUuid(c, n, f, a) ==                    \* existing?.id and nothing else
    /\ Live(c) /\ conn[c].agentId = NoAgent
    /\ agents' = With(agents, IF RowsOf(conn[c].token, n) = {} THEN NoAgent ELSE a,
                      [ws |-> c, token |-> conn[c].token, sessions |-> {}])
    /\ UNCHANGED <<conn, agentRows, tokenRow, users>>

AcceptHello(c, n, f, a) ==
    /\ Live(c) /\ conn[c].agentId = NoAgent
    /\ HelloId(c, n, f, a)
    /\ conn' = [Closed(ReplacedSocket(a)) EXCEPT ![c].agentId = a, ![c].fp = f]
    /\ agentRows' = With(agentRows, a, RowAfterHello(c, n, f, a))
    /\ agents' = With(agents, a, [ws |-> c, token |-> conn[c].token, sessions |-> {}])
    /\ UNCHANGED <<tokenRow, users>>

\* The peer starts the close, or a message is over MAX_AGENT_MSG_SIZE.
AgentSocketClosing(c) ==
    /\ IsOpen(c)
    /\ conn' = Closed({c})
    /\ UNCHANGED <<agents, agentRows, tokenRow, users>>

IsCurrent(c) ==
    LET a == conn[c].agentId IN a \in DOMAIN agents /\ agents[a].ws = c

\* The 'close' event.  A socket that was replaced leaves everything alone.
AgentSocketClosed(c) ==
    /\ Live(c)
    /\ conn' = [conn EXCEPT ![c] = Unconnected(conn[c].token)]
    /\ LET a == conn[c].agentId IN
       IF IsCurrent(c)
       THEN /\ agents' = Without(agents, a)
            /\ agentRows' = IF a \in DOMAIN agentRows
                            THEN [agentRows EXCEPT ![a].online = FALSE] ELSE agentRows
       ELSE UNCHANGED <<agents, agentRows>>
    /\ UNCHANGED <<tokenRow, users>>

-----------------------------------------------------------------------------
\* REST calls

TokenCreate(t) ==
    /\ tokenRow[t] = "unissued" /\ TokenUser[t] \in users
    /\ tokenRow' = [tokenRow EXCEPT ![t] = "enabled"]
    /\ UNCHANGED <<conn, agents, agentRows, users>>

TokenEnable(t) ==
    /\ TokenExists(t)
    /\ tokenRow' = [tokenRow EXCEPT ![t] = "enabled"]
    /\ UNCHANGED <<conn, agents, agentRows, users>>

TokenDisable(t) ==
    /\ TokenExists(t)
    /\ tokenRow' = [tokenRow EXCEPT ![t] = "disabled"]
    /\ conn' = Closed(SocketsOfToken(t))
    /\ UNCHANGED <<agents, agentRows, users>>

\* The rows of the token's agents stay.
TokenDelete(t) ==
    /\ TokenExists(t)
    /\ tokenRow' = [tokenRow EXCEPT ![t] = "deleted"]
    /\ conn' = Closed(SocketsOfToken(t))
    /\ UNCHANGED <<agents, agentRows, users>>

\* DELETE /api/agents/:id touches no connection.
AgentDelete(a) ==
    /\ a \in DOMAIN agentRows /\ TokenExists(agentRows[a].token)
    /\ agentRows' = Without(agentRows, a)
    /\ UNCHANGED <<conn, agents, tokenRow, users>>

FingerprintClear(a) ==
    /\ a \in DOMAIN agentRows /\ TokenExists(agentRows[a].token)
    /\ agentRows' = [agentRows EXCEPT ![a].fingerprint = NoFingerprint]
    /\ UNCHANGED <<conn, agents, tokenRow, users>>

TokensOf(u) == {t \in Tokens : TokenUser[t] = u /\ TokenExists(t)}

UserDelete(u) ==
    /\ u \in users /\ users # {u}             \* nobody can delete oneself
    /\ users' = users \ {u}
    /\ agentRows' = Restrict(agentRows,
                             {a \in DOMAIN agentRows : agentRows[a].token \notin TokensOf(u)})
    /\ tokenRow' = [t \in Tokens |-> IF t \in TokensOf(u) THEN "deleted" ELSE tokenRow[t]]
    /\ conn' = Closed(UNION {SocketsOfToken(t) : t \in TokensOf(u)})
    /\ UNCHANGED agents

BugNoReset ==                               \* the online column is kept
    /\ conn' = [c \in Conns |-> Unconnected(conn[c].token)]
    /\ agents' = [a \in {} |-> a]
    /\ UNCHANGED <<agentRows, tokenRow, users>>

\* The process dies with its maps and sockets; resetAllAgentsOffline() runs
\* before the next one serves anything.
HubRestart ==
    /\ conn' = [c \in Conns |-> Unconnected(conn[c].token)]
    /\ agents' = [a \in {} |-> a]
    /\ agentRows' = [a \in DOMAIN agentRows |-> [agentRows[a] EXCEPT !.online = FALSE]]
    /\ UNCHANGED <<tokenRow, users>>
=============================================================================
