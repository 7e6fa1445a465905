------------------------------- MODULE Router -------------------------------
(***************************************************************************)
(* The relay's routing core (packages/relay/src/router.ts) together with   *)
(* the two hubs it calls.  A PTY session is a mapping from its id to one   *)
(* agent and the browsers attached to it.  What a handler writes to        *)
(* sockets is toAgent and toBrowser: the messages of the last step only.   *)
(* Agents and browsers are the environment: they send any message of the   *)
(* protocol at any time.  A message the handler ignores is a stuttering    *)
(* step.                                                                   *)
(***************************************************************************)
EXTENDS BrowserHub

CONSTANTS MaxSessions, MaxSessionsPerAgent, MaxSessionsPerBrowser

ASSUME RouterConstants ==
    /\ MaxSessions \in Nat
    /\ MaxSessionsPerAgent \in Nat
    /\ MaxSessionsPerBrowser \in Nat
    /\ Sessions \intersect AgentIds = {}    \* both are results of randomUUID()

VARIABLES
    sessions,       \* the sessions Map: session id -> SessionMapping
    issued,         \* session ids handed out so far; randomUUID() repeats none
    toAgent,        \* what the last handler wrote to agent sockets
    toBrowser       \* what the last handler wrote to browser sockets

sessionVars == <<sessions, issued>>
outVars     == <<toAgent, toBrowser>>
vars        == <<hubVars, browsers, sessionVars, outVars>>

\* idle: the TTL has passed since lastActivity
SessionMapping == [agentId : AgentIds, browserIds : SUBSET Browsers, idle : BOOLEAN]

ToAgentTypes   == {"pty.create", "pty.data", "pty.resize", "pty.close",
                   "pty.replay.request", "file.transfer"}
ToBrowserTypes == {"pty.created", "pty.data", "pty.exited", "pty.replay", "pty.error",
                   "pty.create.error", "file.transfer", "agent.online", "agent.offline"}

\* id is the session the message is about; an agent for the agent.* messages
\* and for a pty.create.error, which names no session.
AgentBound   == [to : Conns, type : ToAgentTypes, id : Sessions]
BrowserBound == [to : Browsers, type : ToBrowserTypes, id : Sessions \union AgentIds]

TypeOK ==
    /\ HubTypeOK
    /\ BrowserTypeOK
    /\ DOMAIN sessions \subseteq Sessions
    /\ sessions \in [DOMAIN sessions -> SessionMapping]
    /\ issued \subseteq Sessions
    /\ toAgent \subseteq AgentBound
    /\ toBrowser \subseteq BrowserBound

Init ==
    /\ HubInit
    /\ BrowserInit
    /\ sessions = [s \in {} |-> s]
    /\ issued = {}
    /\ toAgent = {} /\ toBrowser = {}

-----------------------------------------------------------------------------
\* Sending, and the shared parts of the handlers

SendToAgent(a, type, ss) ==
    IF a \in DOMAIN agents /\ IsOpen(agents[a].ws)
    THEN {[to |-> agents[a].ws, type |-> type, id |-> s] : s \in ss} ELSE {}

SendToBrowsers(bs, type, i) ==
    {[to |-> b, type |-> type, id |-> i] : b \in bs \intersect OpenBrowsers}

Silent == toAgent' = {} /\ toBrowser' = {}

\* broadcastToUserBrowsers(getTokenOwner(t), ...)
TellOwner(t, type, a) ==
    SendToBrowsers(IF TokenExists(t) THEN BrowsersOfUser(TokenUser[t]) ELSE {}, type, a)

SessionsOf(a)   == {s \in DOMAIN sessions : sessions[s].agentId = a}
SessionsWith(b) == {s \in DOMAIN sessions : b \in sessions[s].browserIds}

SessionsLeft(ss) == Restrict(sessions, DOMAIN sessions \ ss)

AgentsLeft(ss) ==
    [a \in DOMAIN agents |-> [agents[a] EXCEPT !.sessions = @ \ ss]]

\* destroySession for each session of ss
DestroySessions(ss) ==
    /\ sessions' = SessionsLeft(ss)
    /\ agents' = AgentsLeft(ss)
    /\ browsers' = Unsubscribed(ss)
    /\ UNCHANGED <<conn, agentRows, tokenRow, users, issued>>

BugNoNotice(ss) == {}                       \* notifyAgent is false

CloseAtAgents(ss) ==
    UNION {SendToAgent(a, "pty.close", SessionsOf(a) \intersect ss) : a \in DOMAIN agents}

\* !mapping || mapping.agentId !== agentId
OwnedByAgent(c, s) ==
    /\ Live(c) /\ conn[c].agentId # NoAgent
    /\ s \in SessionsOf(conn[c].agentId)

\* ... || !mapping.browserIds.has(browserId)
AttachedTo(b, s) == b \in DOMAIN browsers /\ s \in SessionsWith(b)

Touched(s) == sessions' = [sessions EXCEPT ![s].idle = FALSE]

-----------------------------------------------------------------------------
\* handleAgentMessage

AgentHello(c, n, f, a) ==
    /\ AcceptHello(c, n, f, a)
    /\ toBrowser' = TellOwner(conn[c].token, "agent.online", a)
    /\ toAgent' = {}
    /\ UNCHANGED <<browsers, sessionVars>>

\* agent.hello once more on a socket that has identified
HelloAgain(c) ==
    LET a == conn[c].agentId IN
    /\ Live(c) /\ a \in DOMAIN agents
    /\ toBrowser' = TellOwner(agents[a].token, "agent.online", a)
    /\ toAgent' = {}
    /\ UNCHANGED <<hubVars, browsers, sessionVars>>

PtyCreated(c, s) ==
    /\ OwnedByAgent(c, s)
    /\ toBrowser' = SendToBrowsers(sessions[s].browserIds, "pty.created", s)
    /\ toAgent' = {}
    /\ UNCHANGED <<hubVars, browsers, sessionVars>>

AgentData(c, s) ==
    /\ OwnedByAgent(c, s)
    /\ Touched(s)
    /\ toBrowser' = SendToBrowsers(Subscribers(s), "pty.data", s)
    /\ toAgent' = {}
    /\ UNCHANGED <<hubVars, browsers, issued>>

\* pty.replay, pty.error without clientReqId, file.transfer.*
AgentForward(c, s, type) ==
    /\ OwnedByAgent(c, s)
    /\ toBrowser' = SendToBrowsers(Subscribers(s), type, s)
    /\ toAgent' = {}
    /\ UNCHANGED <<hubVars, browsers, sessionVars>>

PtyExited(c, s) ==
    /\ OwnedByAgent(c, s)
    /\ toBrowser' = SendToBrowsers(Subscribers(s), "pty.exited", s)
    /\ toAgent' = {}
    /\ DestroySessions({s})

\* pty.error with the clientReqId of the pty.create it answers
PtyCreateFailed(c, s) ==
    /\ OwnedByAgent(c, s)
    /\ toBrowser' = SendToBrowsers(sessions[s].browserIds, "pty.create.error",
                                   conn[c].agentId)
    /\ toAgent' = {}
    /\ DestroySessions({s})

-----------------------------------------------------------------------------
\* handleBrowserMessage

BugNoOwnership(b, a) ==                     \* isAgentOwnedByUser is not asked
    /\ a \in DOMAIN agents
    /\ Cardinality(DOMAIN sessions) < MaxSessions
    /\ Cardinality(SessionsOf(a)) < MaxSessionsPerAgent
    /\ Cardinality(SessionsWith(b)) < MaxSessionsPerBrowser

BugOffByOne(b, a) ==                        \* > for >= in the first limit
    /\ a \in DOMAIN agents
    /\ IsAgentOwnedByUser(a, browsers[b].userId)
    /\ Cardinality(DOMAIN sessions) <= MaxSessions
    /\ Cardinality(SessionsOf(a)) < MaxSessionsPerAgent
    /\ Cardinality(SessionsWith(b)) < MaxSessionsPerBrowser

MayCreate(b, a) ==
    /\ a \in DOMAIN agents
    /\ IsAgentOwnedByUser(a, browsers[b].userId)
    /\ Cardinality(DOMAIN sessions) < MaxSessions
    /\ Cardinality(SessionsOf(a)) < MaxSessionsPerAgent
    /\ Cardinality(SessionsWith(b)) < MaxSessionsPerBrowser

BugReusedId(s) == s \notin DOMAIN sessions  \* unique among live sessions only
FreshSession(s) == s \notin issued

PtyCreate(b, a, s) ==
    /\ b \in DOMAIN browsers
    /\ MayCreate(b, a)
    /\ FreshSession(s)
    /\ issued' = issued \union {s}
    /\ sessions' = With(sessions, s, [agentId |-> a, browserIds |-> {b}, idle |-> FALSE])
    /\ browsers' = Subscribing(b, s)
    /\ agents' = [agents EXCEPT ![a].sessions = @ \union {s}]
    /\ toAgent' = SendToAgent(a, "pty.create", {s})
    /\ toBrowser' = {}
    /\ UNCHANGED <<conn, agentRows, tokenRow, users>>

\* One of MayCreate fails, or the shell or the working directory is not valid.
PtyCreateRefused(b, a) ==
    /\ b \in DOMAIN browsers
    /\ toBrowser' = SendToBrowsers({b}, "pty.create.error", a)
    /\ toAgent' = {}
    /\ UNCHANGED <<hubVars, browsers, sessionVars>>

\* pty.data, file.transfer.*
BrowserData(b, s, type) ==
    /\ AttachedTo(b, s)
    /\ Touched(s)
    /\ toAgent' = SendToAgent(sessions[s].agentId, type, {s})
    /\ toBrowser' = {}
    /\ UNCHANGED <<hubVars, browsers, issued>>

\* pty.resize, pty.close: the mapping of a closed session stays until pty.exited
BrowserControl(b, s, type) ==
    /\ AttachedTo(b, s)
    /\ toAgent' = SendToAgent(sessions[s].agentId, type, {s})
    /\ toBrowser' = {}
    /\ UNCHANGED <<hubVars, browsers, sessionVars>>

ReplayRequest(b, s) ==
    /\ AttachedTo(b, s)
    /\ browsers' = Subscribing(b, s)
    /\ toAgent' = SendToAgent(sessions[s].agentId, "pty.replay.request", {s})
    /\ toBrowser' = {}
    /\ UNCHANGED <<hubVars, sessionVars>>

-----------------------------------------------------------------------------
\* Connections coming and going, timers

BrowserConnect(b, u) ==
    /\ RegisterBrowser(b, u)
    /\ Silent
    /\ UNCHANGED <<hubVars, sessionVars>>

\* The peer starts the close, or a message is over MAX_BROWSER_MSG_SIZE.
BrowserSocketClosing(b) ==
    /\ b \in OpenBrowsers
    /\ browsers' = ClosingBrowsers({b})
    /\ Silent
    /\ UNCHANGED <<hubVars, sessionVars>>

BugOrphans(b) ==                            \* size is tested before the delete
    {s \in DOMAIN sessions : sessions[s].browserIds = {}}

\* handleBrowserDisconnect: b leaves every mapping, and the mappings nobody
\* is left in are destroyed.
Orphans(b) == {s \in DOMAIN sessions : sessions[s].browserIds \ {b} = {}}

BrowserDisconnect(b) ==
    /\ b \in DOMAIN browsers
    /\ sessions' = [s \in DOMAIN sessions \ Orphans(b) |->
                      [sessions[s] EXCEPT !.browserIds = @ \ {b}]]
    /\ browsers' = Restrict(Unsubscribed(Orphans(b)), DOMAIN browsers \ {b})
    /\ agents' = AgentsLeft(Orphans(b))
    /\ toAgent' = CloseAtAgents(Orphans(b))
    /\ toBrowser' = {}
    /\ UNCHANGED <<conn, agentRows, tokenRow, users, issued>>

\* The 'close' event of an agent's socket and, when it was the current one,
\* handleAgentDisconnect.
AgentDisconnect(c) ==
    /\ AgentSocketClosed(c)
    /\ LET a == conn[c].agentId IN
       IF IsCurrent(c)
       THEN /\ toBrowser' = TellOwner(agents[a].token, "agent.offline", a)
            /\ browsers' = Unsubscribed(SessionsOf(a))
            /\ sessions' = SessionsLeft(SessionsOf(a))
       ELSE /\ toBrowser' = {}
            /\ UNCHANGED <<browsers, sessions>>
    /\ toAgent' = {}
    /\ UNCHANGED issued

\* 24 hours pass without a message that counts as activity
SessionIdles(s) ==
    /\ s \in DOMAIN sessions /\ ~sessions[s].idle
    /\ sessions' = [sessions EXCEPT ![s].idle = TRUE]
    /\ Silent
    /\ UNCHANGED <<hubVars, browsers, issued>>

IdleSessions == {s \in DOMAIN sessions : sessions[s].idle}

TtlSweep ==
    /\ DestroySessions(IdleSessions)
    /\ toAgent' = CloseAtAgents(IdleSessions)
    /\ toBrowser' = {}

\* Steps of the agent hub and of the REST calls that the router takes no part in
HubStep ==
    /\ \/ \E c \in Conns :
            \/ \E t \in Tokens : AgentUpgrade(c, t)
            \/ RefuseFirstMessage(c)
            \/ \E n \in Names, f \in Fingerprints : RefuseFingerprint(c, n, f)
            \/ AgentSocketClosing(c)
       \/ \E t \in Tokens : \/ TokenCreate(t) \/ TokenEnable(t)
                            \/ TokenDisable(t) \/ TokenDelete(t)
       \/ \E a \in AgentIds : AgentDelete(a) \/ FingerprintClear(a)
    /\ Silent
    /\ UNCHANGED <<browsers, sessionVars>>

\* DELETE /api/users/:username
UserRemoved(u) ==
    /\ UserDelete(u)
    /\ browsers' = ClosingBrowsers({b \in DOMAIN browsers : browsers[b].userId = u})
    /\ Silent
    /\ UNCHANGED sessionVars

RelayRestart ==
    /\ HubRestart
    /\ browsers' = [b \in {} |-> b]
    /\ sessions' = [s \in {} |-> s]
    /\ Silent
    /\ UNCHANGED issued

-----------------------------------------------------------------------------

FromAgent(c) ==
    \/ \E n \in Names, f \in Fingerprints, a \in AgentIds : AgentHello(c, n, f, a)
    \/ HelloAgain(c)
    \/ \E s \in Sessions :
         \/ PtyCreated(c, s)
         \/ AgentData(c, s)
         \/ \E type \in {"pty.replay", "pty.error", "file.transfer"} : AgentForward(c, s, type)
         \/ PtyExited(c, s)
         \/ PtyCreateFailed(c, s)

FromBrowser(b) ==
    \/ \E a \in AgentIds : PtyCreateRefused(b, a) \/ \E s \in Sessions : PtyCreate(b, a, s)
    \/ \E s \in Sessions :
         \/ \E type \in {"pty.data", "file.transfer"} : BrowserData(b, s, type)
         \/ \E type \in {"pty.resize", "pty.close"} : BrowserControl(b, s, type)
         \/ ReplayRequest(b, s)

Next ==
    \/ HubStep
    \/ \E c \in Conns : FromAgent(c) \/ AgentDisconnect(c)
    \/ \E b \in Browsers : \/ FromBrowser(b)
                           \/ \E u \in Users : BrowserConnect(b, u)
                           \/ BrowserSocketClosing(b)
                           \/ BrowserDisconnect(b)
    \/ \E s \in Sessions : SessionIdles(s)
    \/ TtlSweep
    \/ \E u \in Users : UserRemoved(u)
    \/ RelayRestart

Spec == Init /\ [][Next]_vars

\* The ws library destroys a closing socket after a timeout, so its 'close'
\* event comes; setInterval keeps calling the sweep.
Fairness ==
    /\ \A c \in Conns : WF_vars(conn[c].state = "closing" /\ AgentDisconnect(c))
    /\ \A b \in Browsers : WF_vars(b \notin OpenBrowsers /\ BrowserDisconnect(b))
    /\ WF_vars(IdleSessions # {} /\ TtlSweep)

FairSpec == Spec /\ Fairness
-----------------------------------------------------------------------------
(***************************************************************************)
(* Safety                                                                  *)
(***************************************************************************)

\* The two records of who watches a session, mapping.browserIds and each
\* browser's subscribedSessions, agree, and no subscription outlives its
\* session: the handlers update them separately (router.ts 268-279, 380-405).
MembershipMirrored ==
    \A b \in DOMAIN browsers : browsers[b].subscribedSessions = SessionsWith(b)

\* A mapping always has an agent in the agents Map and exactly one browser in
\* the browsers Map: every path on which one of them goes (close events,
\* replacement, sweep, restart) takes its sessions along.
SessionsHaveBothEnds ==
    \A s \in DOMAIN sessions :
        /\ sessions[s].agentId \in DOMAIN agents
        /\ \E b \in DOMAIN browsers : sessions[s].browserIds = {b}

\* What GET /api/agents lists as an agent's sessions (conn.sessions) are
\* sessions the router maps to it: none is listed after it has ended.
ListedSessionsAreMapped ==
    \A a \in DOMAIN agents : agents[a].sessions \subseteq SessionsOf(a)

\* Every record of which sessions there are and who watches them agrees with the
\* mappings: the browsers' subscriptions and the sessions listed for an agent.
RecordsAgree == MembershipMirrored /\ ListedSessionsAreMapped

\* The limits of pty.create are never exceeded, in total, per agent or per
\* browser, whatever else happens between the checks of two creations.
WithinLimits ==
    /\ Cardinality(DOMAIN sessions) <= MaxSessions
    /\ \A a \in AgentIds : Cardinality(SessionsOf(a)) <= MaxSessionsPerAgent
    /\ \A b \in Browsers : Cardinality(SessionsWith(b)) <= MaxSessionsPerBrowser

\* A session connects a user's browser with an agent of the same user's token,
\* through reconnections, replaced sockets and deleted rows.
SessionsStayWithinUser ==
    \A s \in DOMAIN sessions : \A b \in sessions[s].browserIds :
        browsers[b].userId = TokenUser[agents[sessions[s].agentId].token]

\* Every message about a session goes to a browser that was attached to it
\* when the message was handled; a session that ended is never heard of again.
DeliveredToMembers ==
    \A m \in toBrowser' : m.id \in Sessions =>
        m.id \in DOMAIN sessions /\ m.to \in sessions[m.id].browserIds

\* What the relay writes about a session goes to the current socket of the
\* session's own agent; only its pty.create comes before there is a mapping.
SentToOwnAgent ==
    \A m \in toAgent' :
        \/ m.id \in DOMAIN sessions /\ m.to = agents[sessions[m.id].agentId].ws
        \/ m.type = "pty.create" /\ m.id \notin issued

\* Whatever the relay forwards about a session, to browsers or to an agent's
\* socket, stays between the ends of that session.
MessagesStayWithinSession == [][DeliveredToMembers /\ SentToOwnAgent]_vars

\* The relay never forgets a session behind the back of an agent it can reach:
\* either the agent reported the end itself, or it is sent pty.close in the
\* step that drops the mapping (else its shell would run on unreachable).
Reachable(a) == a \in DOMAIN agents /\ IsOpen(agents[a].ws)

ToldOfEnd ==
    \A a \in AgentIds : \A s \in SessionsOf(a) \ DOMAIN sessions' :
        Reachable(a) /\ Reachable(a)' =>
            \/ [to |-> agents[a].ws, type |-> "pty.close", id |-> s] \in toAgent'
            \/ \E c \in Conns : PtyExited(c, s) \/ PtyCreateFailed(c, s)

ReachableAgentToldOfEnd == [][ToldOfEnd]_vars

\* The online column shown to users says what the agents Map says, for every
\* row, through replaced and stale sockets, deletions and restarts.
OnlineFlagMatchesMap ==
    \A a \in DOMAIN agentRows : agentRows[a].online <=> a \in DOMAIN agents

\* Of the sockets that identified as one agent at most one is open, and it is
\* the one messages are sent to.
OneOpenSocketPerAgent ==
    \A c \in Conns : IsOpen(c) /\ conn[c].agentId # NoAgent => IsCurrent(c)

\* The agents Map, the sockets' own records and the rows tell one story: an
\* entry's socket is live, identified as that agent and of the same token as
\* the entry and its row; a socket that is gone identifies nobody.
MapMatchesSockets ==
    /\ \A a \in DOMAIN agents :
          /\ Live(agents[a].ws)
          /\ conn[agents[a].ws].agentId = a
          /\ conn[agents[a].ws].token = agents[a].token
          /\ a \in DOMAIN agentRows => agentRows[a].token = agents[a].token
    /\ \A c \in Conns : ~Live(c) => conn[c].agentId = NoAgent

\* The agents Map agrees with the online column, with the sockets and rows, and
\* has the one open socket of each agent, whatever is replaced, stale or deleted.
HubAgrees == OnlineFlagMatchesMap /\ MapMatchesSockets /\ OneOpenSocketPerAgent

\* While a row holds a fingerprint, the machine connected as that agent is the
\* one with that fingerprint (agentHub.ts 93-110), also after
\* a fingerprint reset while another machine was connected.
ServedByPinnedMachine ==
    \A a \in DOMAIN agentRows \intersect DOMAIN agents :
        agentRows[a].fingerprint \in {NoFingerprint, conn[agents[a].ws].fp}

-----------------------------------------------------------------------------
(***************************************************************************)
(* Refinement: a session as its users see it                               *)
(***************************************************************************)

TheBrowser(s) == CHOOSE b \in DOMAIN browsers : b \in sessions[s].browserIds

EndsOf(s) == [agent |-> sessions[s].agentId, browser |-> TheBrowser(s)]

Ledger == INSTANCE SessionLedger
              WITH live  <- [s \in DOMAIN sessions |-> EndsOf(s)],
                   ended <- issued \ DOMAIN sessions

\* The router implements the session ledger: ids are used once, a live session
\* keeps its agent and its browser, ended is final, the totals are respected.
ImplementsLedger == Ledger!Spec

-----------------------------------------------------------------------------
(***************************************************************************)
(* Liveness                                                                *)
(***************************************************************************)

\* A session whose browser's socket is going away, or that is idle for the TTL,
\* does not stay so: it is reaped, by the close event or by the sweep, unless
\* it shows activity.
Unusable(s) ==
    /\ s \in DOMAIN sessions
    /\ sessions[s].idle \/ sessions[s].browserIds \intersect OpenBrowsers = {}
UnusableSessionReaped == \A s \in Sessions : Unusable(s) ~> ~Unusable(s)

\* A socket the relay has begun to close does not stay the current one of an
\* agent for ever: the agent goes offline or is served by another socket.
ClosingSocketRetired ==
    \A c \in Conns, a \in AgentIds :
        (conn[c].state = "closing" /\ a \in DOMAIN agents /\ agents[a].ws = c)
            ~> ~(a \in DOMAIN agents /\ agents[a].ws = c)

\* Nothing that cannot be used any more lingers: neither sessions nor sockets.
NothingLingers == UnusableSessionReaped /\ ClosingSocketRetired

-----------------------------------------------------------------------------
(***************************************************************************)
(* Claims of the interface and the README that the code does not keep      *)
(***************************************************************************)

\* packages/web/src/components/AgentsPage.tsx 109: "Connected agents will be
\* disconnected" when a token is revoked.
RevokedTokenDisconnects ==
    \A t \in Tokens :
        tokenRow[t] = "deleted" ~> [](\A c \in SocketsOfToken(t) : ~IsOpen(c))
=============================================================================
