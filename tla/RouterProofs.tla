---------------------------- MODULE RouterProofs ----------------------------
(***************************************************************************)
(* Proofs about the relay's routing core for any number of sockets,        *)
(* tokens, agents, browsers and sessions, and that it implements the       *)
(* ledger of sessions.                                                     *)
(***************************************************************************)
EXTENDS Router, FiniteSetTheorems, TLAPS

-----------------------------------------------------------------------------
(***************************************************************************)
(* What the operators the handlers are built from return                   *)
(***************************************************************************)

LEMMA ClosedType ==
    ASSUME conn \in [Conns -> Connection], NEW cs
    PROVE  /\ Closed(cs) \in [Conns -> Connection]
           /\ \A c \in Conns : /\ Closed(cs)[c].agentId = conn[c].agentId
                               /\ Closed(cs)[c].token = conn[c].token
                               /\ Closed(cs)[c].fp = conn[c].fp
BY DEF Closed, Connection, IsOpen

LEMMA ClosedState ==
    ASSUME conn \in [Conns -> Connection], NEW cs, NEW c \in Conns
    PROVE  /\ (Closed(cs)[c].state = "none") <=> (conn[c].state = "none")
           /\ (Closed(cs)[c].state = "open") <=> (conn[c].state = "open" /\ c \notin cs)
<1>1. Closed(cs)[c] = IF c \in cs /\ IsOpen(c)
                     THEN [conn[c] EXCEPT !.state = "closing"] ELSE conn[c]
  BY DEF Closed
<1>2. CASE c \in cs /\ IsOpen(c)
  <2>1. Closed(cs)[c].state = "closing"
    BY <1>1, <1>2 DEF Connection
  <2> QED BY <2>1, <1>2 DEF IsOpen
<1>3. CASE ~(c \in cs /\ IsOpen(c))
  BY <1>1, <1>3 DEF IsOpen
<1> QED BY <1>2, <1>3

LEMMA UnconnectedType ==
    ASSUME NEW t \in Tokens PROVE Unconnected(t) \in Connection
BY DEF Unconnected, Connection

LEMMA AgentsLeftType ==
    ASSUME HubTypeOK, NEW ss
    PROVE  /\ DOMAIN AgentsLeft(ss) = DOMAIN agents
           /\ AgentsLeft(ss) \in [DOMAIN agents -> AgentConnection]
BY DEF AgentsLeft, HubTypeOK, AgentConnection

LEMMA AgentsLeftSame ==
    ASSUME HubTypeOK, NEW ss, NEW a \in DOMAIN agents
    PROVE  /\ AgentsLeft(ss)[a].ws = agents[a].ws
           /\ AgentsLeft(ss)[a].token = agents[a].token
           /\ AgentsLeft(ss)[a].sessions = agents[a].sessions \ ss
BY DEF AgentsLeft, HubTypeOK, AgentConnection

LEMMA UnsubscribedType ==
    ASSUME BrowserTypeOK, NEW ss
    PROVE  /\ DOMAIN Unsubscribed(ss) = DOMAIN browsers
           /\ Unsubscribed(ss) \in [DOMAIN browsers -> BrowserConnection]
BY DEF Unsubscribed, BrowserTypeOK, BrowserConnection

LEMMA ToAgentType ==
    ASSUME HubTypeOK, NEW a, NEW type \in ToAgentTypes, NEW ss \in SUBSET Sessions
    PROVE  SendToAgent(a, type, ss) \subseteq AgentBound
BY DEF SendToAgent, AgentBound, HubTypeOK, AgentConnection

LEMMA ToBrowserType ==
    ASSUME BrowserTypeOK, NEW bs, NEW type \in ToBrowserTypes,
           NEW i \in Sessions \union AgentIds
    PROVE  SendToBrowsers(bs, type, i) \subseteq BrowserBound
BY DEF SendToBrowsers, BrowserBound, BrowserTypeOK, OpenBrowsers

LEMMA CloseAtAgentsType ==
    ASSUME TypeOK, NEW ss PROVE CloseAtAgents(ss) \subseteq AgentBound
<1>1. \A a : SessionsOf(a) \intersect ss \in SUBSET Sessions
  BY DEF SessionsOf, TypeOK
<1>2. "pty.close" \in ToAgentTypes
  BY DEF ToAgentTypes
<1>3. \A a \in DOMAIN agents :
          SendToAgent(a, "pty.close", SessionsOf(a) \intersect ss) \subseteq AgentBound
  BY <1>1, <1>2, ToAgentType DEF TypeOK
<1> QED BY <1>3 DEF CloseAtAgents

-----------------------------------------------------------------------------
(***************************************************************************)
(* Type correctness                                                        *)
(***************************************************************************)

LEMMA HubInitType == Init => TypeOK
<1> SUFFICES ASSUME Init PROVE TypeOK
  OBVIOUS
<1>1. PICK t \in Tokens : conn = [c \in Conns |-> Unconnected(t)]
  BY DEF Init, HubInit
<1>2. HubTypeOK
  BY <1>1, UnconnectedType DEF Init, HubInit, HubTypeOK
<1> QED BY <1>2 DEF Init, BrowserInit, TypeOK, BrowserTypeOK

LEMMA HelloType ==
    ASSUME HubTypeOK, NEW c \in Conns, NEW n \in Names, NEW f \in Fingerprints,
           NEW a \in AgentIds, AcceptHello(c, n, f, a)
    PROVE  HubTypeOK'
<1> DEFINE cl == Closed(ReplacedSocket(a))
<1>1. cl \in [Conns -> Connection] /\ conn[c] \in Connection
  BY ClosedType DEF HubTypeOK
<1>2. conn' \in [Conns -> Connection]
  <2>1. conn' = [cl EXCEPT ![c].agentId = a, ![c].fp = f]
    BY DEF AcceptHello
  <2> HIDE DEF cl
  <2> QED BY <1>1, <2>1 DEF Connection
<1>3. RowAfterHello(c, n, f, a) \in AgentRow
  BY <1>1 DEF RowAfterHello, AgentRow, HubTypeOK, Connection
<1>4. [ws |-> c, token |-> conn[c].token, sessions |-> {}] \in AgentConnection
  BY <1>1 DEF AgentConnection, Connection
<1>5. DOMAIN agentRows' \subseteq AgentIds /\ agentRows' \in [DOMAIN agentRows' -> AgentRow]
  BY <1>3 DEF AcceptHello, HubTypeOK, With
<1>6. DOMAIN agents' \subseteq AgentIds /\ agents' \in [DOMAIN agents' -> AgentConnection]
  BY <1>4 DEF AcceptHello, HubTypeOK, With
<1> QED BY <1>2, <1>5, <1>6 DEF AcceptHello, HubTypeOK

LEMMA SocketClosedType ==
    ASSUME HubTypeOK, NEW c \in Conns, AgentSocketClosed(c) PROVE HubTypeOK'
<1>1. conn' \in [Conns -> Connection]
  BY UnconnectedType DEF AgentSocketClosed, HubTypeOK, Connection
<1>2. DOMAIN agents' \subseteq AgentIds /\ agents' \in [DOMAIN agents' -> AgentConnection]
  BY DEF AgentSocketClosed, HubTypeOK, Without, Restrict
<1>3. DOMAIN agentRows' \subseteq AgentIds /\ agentRows' \in [DOMAIN agentRows' -> AgentRow]
  <2>1. CASE IsCurrent(c)
    <3>1. conn[c].agentId \in DOMAIN agentRows
             => [agentRows EXCEPT ![conn[c].agentId].online = FALSE] \in [DOMAIN agentRows -> AgentRow]
      BY DEF HubTypeOK, AgentRow
    <3>2. agentRows' = agentRows \/
          (conn[c].agentId \in DOMAIN agentRows
             /\ agentRows' = [agentRows EXCEPT ![conn[c].agentId].online = FALSE])
      BY <2>1 DEF AgentSocketClosed
    <3> QED BY <3>1, <3>2 DEF HubTypeOK
  <2>2. CASE ~IsCurrent(c)
    BY <2>2 DEF AgentSocketClosed, HubTypeOK
  <2> QED BY <2>1, <2>2
<1> QED BY <1>1, <1>2, <1>3 DEF AgentSocketClosed, HubTypeOK

LEMMA HubStepType ==
    ASSUME HubTypeOK, HubStep PROVE HubTypeOK'
<1>1. ASSUME NEW c \in Conns, NEW t \in Tokens, AgentUpgrade(c, t) PROVE HubTypeOK'
  BY <1>1 DEF AgentUpgrade, HubTypeOK, Unconnected, Connection
<1>2. ASSUME NEW c \in Conns, RefuseFirstMessage(c) \/ AgentSocketClosing(c)
             \/ \E n \in Names, f \in Fingerprints : RefuseFingerprint(c, n, f)
      PROVE HubTypeOK'
  BY <1>2, ClosedType DEF RefuseFirstMessage, AgentSocketClosing, RefuseFingerprint, HubTypeOK
<1>3. ASSUME NEW t \in Tokens, TokenCreate(t) \/ TokenEnable(t) \/ TokenDisable(t)
                               \/ TokenDelete(t)
      PROVE HubTypeOK'
  BY <1>3, ClosedType DEF TokenCreate, TokenEnable, TokenDisable, TokenDelete, HubTypeOK
<1>4. ASSUME NEW a \in AgentIds, AgentDelete(a) PROVE HubTypeOK'
  BY <1>4 DEF AgentDelete, HubTypeOK, Without, Restrict
<1>5. ASSUME NEW a \in AgentIds, FingerprintClear(a) PROVE HubTypeOK'
  BY <1>5 DEF FingerprintClear, HubTypeOK, AgentRow
<1> QED BY <1>1, <1>2, <1>3, <1>4, <1>5 DEF HubStep

LEMMA SessionsLeftType ==
    ASSUME TypeOK, NEW ss
    PROVE  /\ DOMAIN SessionsLeft(ss) = DOMAIN sessions \ ss
           /\ DOMAIN SessionsLeft(ss) \subseteq Sessions
           /\ SessionsLeft(ss) \in [DOMAIN SessionsLeft(ss) -> SessionMapping]
BY DEF SessionsLeft, Restrict, TypeOK

LEMMA DestroyType ==
    ASSUME TypeOK, NEW ss, DestroySessions(ss),
           toAgent' \subseteq AgentBound, toBrowser' \subseteq BrowserBound
    PROVE  TypeOK'
<1>1. HubTypeOK'
  BY AgentsLeftType DEF DestroySessions, TypeOK, HubTypeOK
<1>2. BrowserTypeOK'
  BY UnsubscribedType DEF DestroySessions, TypeOK, BrowserTypeOK
<1> QED BY <1>1, <1>2, SessionsLeftType DEF DestroySessions, TypeOK

LEMMA TouchedType ==
    ASSUME TypeOK, NEW s \in DOMAIN sessions, Touched(s)
    PROVE  /\ DOMAIN sessions' = DOMAIN sessions
           /\ sessions' \in [DOMAIN sessions -> SessionMapping]
           /\ \A x \in DOMAIN sessions :
                 /\ sessions'[x].agentId = sessions[x].agentId
                 /\ sessions'[x].browserIds = sessions[x].browserIds
BY DEF Touched, TypeOK, SessionMapping

LEMMA SubscribingType ==
    ASSUME BrowserTypeOK, NEW b \in DOMAIN browsers, NEW s \in Sessions
    PROVE  /\ DOMAIN Subscribing(b, s) = DOMAIN browsers
           /\ Subscribing(b, s) \in [DOMAIN browsers -> BrowserConnection]
BY DEF Subscribing, BrowserTypeOK, BrowserConnection

LEMMA FromAgentType ==
    ASSUME TypeOK, NEW c \in Conns, FromAgent(c) PROVE TypeOK'
<1> USE DEF OwnedByAgent, SessionsOf
<1>1. ASSUME NEW n \in Names, NEW f \in Fingerprints, NEW a \in AgentIds,
             AgentHello(c, n, f, a)
      PROVE  TypeOK'
  <2>1. HubTypeOK'
    BY <1>1, HelloType DEF AgentHello, TypeOK
  <2>2. toBrowser' \subseteq BrowserBound
    BY <1>1, ToBrowserType DEF AgentHello, TellOwner, TypeOK, ToBrowserTypes
  <2> QED BY <1>1, <2>1, <2>2 DEF AgentHello, TypeOK, BrowserTypeOK, sessionVars
<1>2. ASSUME NEW s \in Sessions, PtyCreated(c, s) PROVE TypeOK'
  <2>1. toBrowser' \subseteq BrowserBound
    BY <1>2, ToBrowserType DEF PtyCreated, TypeOK, ToBrowserTypes
  <2> QED BY <1>2, <2>1 DEF PtyCreated, TypeOK, HubTypeOK, BrowserTypeOK, hubVars, sessionVars
<1>3. ASSUME NEW s \in Sessions, AgentData(c, s) PROVE TypeOK'
  <2>1. toBrowser' \subseteq BrowserBound
    BY <1>3, ToBrowserType DEF AgentData, TypeOK, ToBrowserTypes
  <2>2. DOMAIN sessions' \subseteq Sessions /\ sessions' \in [DOMAIN sessions' -> SessionMapping]
    BY <1>3, TouchedType DEF AgentData, TypeOK
  <2> QED BY <1>3, <2>1, <2>2 DEF AgentData, TypeOK, HubTypeOK, BrowserTypeOK, hubVars
<1>4. ASSUME NEW s \in Sessions, NEW type \in {"pty.replay", "pty.error", "file.transfer"},
             AgentForward(c, s, type)
      PROVE  TypeOK'
  <2>1. toBrowser' \subseteq BrowserBound
    BY <1>4, ToBrowserType DEF AgentForward, TypeOK, ToBrowserTypes
  <2> QED BY <1>4, <2>1 DEF AgentForward, TypeOK, HubTypeOK, BrowserTypeOK, hubVars, sessionVars
<1>5. ASSUME NEW s \in Sessions, PtyExited(c, s) PROVE TypeOK'
  <2>1. toBrowser' \subseteq BrowserBound
    BY <1>5, ToBrowserType DEF PtyExited, TypeOK, ToBrowserTypes
  <2> QED BY <1>5, <2>1, DestroyType DEF PtyExited
<1>6. ASSUME NEW s \in Sessions, PtyCreateFailed(c, s) PROVE TypeOK'
  <2>1. conn[c].agentId \in AgentIds
    BY <1>6 DEF PtyCreateFailed, TypeOK, HubTypeOK, Connection
  <2>2. toBrowser' \subseteq BrowserBound
    BY <1>6, <2>1, ToBrowserType DEF PtyCreateFailed, TypeOK, ToBrowserTypes
  <2> QED BY <1>6, <2>2, DestroyType DEF PtyCreateFailed
<1>7. ASSUME HelloAgain(c) PROVE TypeOK'
  <2>1. toBrowser' \subseteq BrowserBound
    BY <1>7, ToBrowserType DEF HelloAgain, TellOwner, TypeOK, HubTypeOK, ToBrowserTypes
  <2> QED BY <1>7, <2>1 DEF HelloAgain, TypeOK, HubTypeOK, BrowserTypeOK, hubVars, sessionVars
<1> QED BY <1>1, <1>2, <1>3, <1>4, <1>5, <1>6, <1>7 DEF FromAgent

LEMMA FromBrowserType ==
    ASSUME TypeOK, NEW b \in Browsers, FromBrowser(b) PROVE TypeOK'
<1> USE DEF AttachedTo, SessionsWith
<1>1. ASSUME NEW a \in AgentIds, PtyCreateRefused(b, a) PROVE TypeOK'
  <2>1. toBrowser' \subseteq BrowserBound
    BY <1>1, ToBrowserType DEF PtyCreateRefused, TypeOK, ToBrowserTypes
  <2> QED BY <1>1, <2>1 DEF PtyCreateRefused, TypeOK, HubTypeOK, BrowserTypeOK, hubVars, sessionVars
<1>2. ASSUME NEW a \in AgentIds, NEW s \in Sessions, PtyCreate(b, a, s) PROVE TypeOK'
  <2>1. toAgent' \subseteq AgentBound
    BY <1>2, ToAgentType DEF PtyCreate, TypeOK, ToAgentTypes
  <2>2. HubTypeOK'
    BY <1>2 DEF PtyCreate, TypeOK, HubTypeOK, AgentConnection
  <2>3. BrowserTypeOK'
    BY <1>2, SubscribingType DEF PtyCreate, TypeOK, BrowserTypeOK
  <2>4. [agentId |-> a, browserIds |-> {b}, idle |-> FALSE] \in SessionMapping
    BY DEF SessionMapping
  <2>5. DOMAIN sessions' \subseteq Sessions /\ sessions' \in [DOMAIN sessions' -> SessionMapping]
    BY <1>2, <2>4 DEF PtyCreate, TypeOK, With
  <2> QED BY <1>2, <2>1, <2>2, <2>3, <2>5 DEF PtyCreate, TypeOK
<1>3. ASSUME NEW s \in Sessions, NEW type \in {"pty.data", "file.transfer"},
             BrowserData(b, s, type)
      PROVE  TypeOK'
  <2>1. toAgent' \subseteq AgentBound
    BY <1>3, ToAgentType DEF BrowserData, TypeOK, ToAgentTypes
  <2>2. DOMAIN sessions' \subseteq Sessions /\ sessions' \in [DOMAIN sessions' -> SessionMapping]
    BY <1>3, TouchedType DEF BrowserData, TypeOK
  <2> QED BY <1>3, <2>1, <2>2 DEF BrowserData, TypeOK, HubTypeOK, BrowserTypeOK, hubVars
<1>4. ASSUME NEW s \in Sessions, NEW type \in {"pty.resize", "pty.close"},
             BrowserControl(b, s, type)
      PROVE  TypeOK'
  <2>1. toAgent' \subseteq AgentBound
    BY <1>4, ToAgentType DEF BrowserControl, TypeOK, ToAgentTypes
  <2> QED BY <1>4, <2>1 DEF BrowserControl, TypeOK, HubTypeOK, BrowserTypeOK, hubVars, sessionVars
<1>5. ASSUME NEW s \in Sessions, ReplayRequest(b, s) PROVE TypeOK'
  <2>1. toAgent' \subseteq AgentBound
    BY <1>5, ToAgentType DEF ReplayRequest, TypeOK, ToAgentTypes
  <2>2. BrowserTypeOK'
    BY <1>5, SubscribingType DEF ReplayRequest, TypeOK, BrowserTypeOK
  <2> QED BY <1>5, <2>1, <2>2 DEF ReplayRequest, TypeOK, HubTypeOK, hubVars, sessionVars
<1> QED BY <1>1, <1>2, <1>3, <1>4, <1>5 DEF FromBrowser

LEMMA ConnectionStepType ==
    ASSUME TypeOK,
           \/ \E b \in Browsers : \/ \E u \in Users : BrowserConnect(b, u)
                                 \/ BrowserSocketClosing(b) \/ BrowserDisconnect(b)
           \/ \E c \in Conns : AgentDisconnect(c)
    PROVE  TypeOK'
<1>1. ASSUME NEW b \in Browsers, NEW u \in Users, BrowserConnect(b, u) PROVE TypeOK'
  <2>1. [state |-> "open", userId |-> u, subscribedSessions |-> {}] \in BrowserConnection
    BY DEF BrowserConnection
  <2>2. BrowserTypeOK'
    BY <1>1, <2>1 DEF BrowserConnect, RegisterBrowser, With, TypeOK, BrowserTypeOK
  <2> QED BY <1>1, <2>2 DEF BrowserConnect, Silent, TypeOK, HubTypeOK, hubVars, sessionVars
<1>2. ASSUME NEW b \in Browsers, BrowserSocketClosing(b) PROVE TypeOK'
  <2>1. BrowserTypeOK'
    BY <1>2 DEF BrowserSocketClosing, ClosingBrowsers, TypeOK, BrowserTypeOK, BrowserConnection
  <2> QED BY <1>2, <2>1 DEF BrowserSocketClosing, Silent, TypeOK, HubTypeOK, hubVars, sessionVars
<1>3. ASSUME NEW b \in Browsers, BrowserDisconnect(b) PROVE TypeOK'
  <2>1. HubTypeOK'
    BY <1>3, AgentsLeftType DEF BrowserDisconnect, TypeOK, HubTypeOK
  <2>2. BrowserTypeOK'
    BY <1>3, UnsubscribedType DEF BrowserDisconnect, Restrict, TypeOK, BrowserTypeOK
  <2>3. toAgent' \subseteq AgentBound
    BY <1>3, CloseAtAgentsType DEF BrowserDisconnect
  <2>4. DOMAIN sessions' \subseteq Sessions /\ sessions' \in [DOMAIN sessions' -> SessionMapping]
    BY <1>3 DEF BrowserDisconnect, TypeOK, SessionMapping
  <2> QED BY <1>3, <2>1, <2>2, <2>3, <2>4 DEF BrowserDisconnect, TypeOK
<1>4. ASSUME NEW c \in Conns, AgentDisconnect(c) PROVE TypeOK'
  <2>1. HubTypeOK'
    BY <1>4, SocketClosedType DEF AgentDisconnect, TypeOK
  <2>2. CASE ~IsCurrent(c)
    BY <1>4, <2>1, <2>2 DEF AgentDisconnect, TypeOK, BrowserTypeOK
  <2>3. CASE IsCurrent(c)
    <3>1. toBrowser' \subseteq BrowserBound
      BY <1>4, <2>3, ToBrowserType DEF AgentDisconnect, IsCurrent, TellOwner, TypeOK, HubTypeOK, ToBrowserTypes
    <3>2. BrowserTypeOK'
      BY <1>4, <2>3, UnsubscribedType DEF AgentDisconnect, TypeOK, BrowserTypeOK
    <3> QED BY ZenonT(30), <1>4, <2>1, <2>3, <3>1, <3>2, SessionsLeftType DEF AgentDisconnect, TypeOK
  <2> QED BY <2>2, <2>3
<1> QED BY <1>1, <1>2, <1>3, <1>4

LEMMA NextType == TypeOK /\ [Next]_vars => TypeOK'
<1> SUFFICES ASSUME TypeOK, [Next]_vars PROVE TypeOK'
  OBVIOUS
<1>1. CASE HubStep
  BY <1>1, HubStepType DEF HubStep, Silent, TypeOK, BrowserTypeOK, sessionVars
<1>2. ASSUME NEW s \in Sessions, SessionIdles(s) PROVE TypeOK'
  BY <1>2 DEF SessionIdles, Silent, TypeOK, HubTypeOK, BrowserTypeOK, SessionMapping, hubVars
<1>3. CASE TtlSweep
  BY <1>3, DestroyType, CloseAtAgentsType DEF TtlSweep
<1>4. ASSUME NEW u \in Users, UserRemoved(u) PROVE TypeOK'
  <2>1. HubTypeOK'
    BY <1>4, ClosedType DEF UserRemoved, UserDelete, Restrict, TypeOK, HubTypeOK
  <2>2. BrowserTypeOK'
    BY <1>4 DEF UserRemoved, ClosingBrowsers, TypeOK, BrowserTypeOK, BrowserConnection
  <2> QED BY <1>4, <2>1, <2>2 DEF UserRemoved, Silent, TypeOK, sessionVars
<1>5. CASE RelayRestart
  <2>1. HubTypeOK'
    BY ZenonT(30), <1>5, UnconnectedType DEF RelayRestart, HubRestart, TypeOK, HubTypeOK, Connection, AgentRow
  <2> QED BY <1>5, <2>1 DEF RelayRestart, Silent, TypeOK, BrowserTypeOK
<1>6. CASE UNCHANGED vars
  BY <1>6 DEF vars, hubVars, sessionVars, outVars, TypeOK, HubTypeOK, BrowserTypeOK
<1> QED
  BY <1>1, <1>2, <1>3, <1>4, <1>5, <1>6, FromAgentType, FromBrowserType, ConnectionStepType
  DEF Next

\* Every reachable state is made of the values the handlers work with: the
\* maps hold records of the right fields, and only known messages are sent.
THEOREM TypeCorrect == Spec => []TypeOK
BY HubInitType, NextType, PTL DEF Spec

-----------------------------------------------------------------------------
(***************************************************************************)
(* The agent hub                                                           *)
(***************************************************************************)

HubInv ==
    /\ MapMatchesSockets
    /\ OneOpenSocketPerAgent
    /\ OnlineFlagMatchesMap
    /\ ServedByPinnedMachine

LEMMA HubInvInit == Init => HubInv
<1> SUFFICES ASSUME Init PROVE HubInv
  OBVIOUS
<1>1. PICK t \in Tokens : conn = [c \in Conns |-> Unconnected(t)]
  BY DEF Init, HubInit
<1> QED
  BY <1>1 DEF Init, HubInit, HubInv, MapMatchesSockets, OneOpenSocketPerAgent,
              OnlineFlagMatchesMap, ServedByPinnedMachine, Unconnected, IsOpen

\* Handlers that only change which sessions an entry lists
SameSockets ==
    /\ UNCHANGED <<conn, agentRows>>
    /\ DOMAIN agents' = DOMAIN agents
    /\ \A a \in DOMAIN agents : /\ agents'[a].ws = agents[a].ws
                                /\ agents'[a].token = agents[a].token

LEMMA SameSocketsInv == ASSUME HubInv, SameSockets PROVE HubInv'
BY DEF SameSockets, HubInv, MapMatchesSockets, OneOpenSocketPerAgent, OnlineFlagMatchesMap,
       ServedByPinnedMachine, IsCurrent, Live, IsOpen

\* Handlers that only start closing some sockets
LEMMA ClosingInv ==
    ASSUME HubTypeOK, HubInv, NEW cs, conn' = Closed(cs), UNCHANGED <<agents, agentRows>>
    PROVE  HubInv'
<1> DEFINE cl == Closed(cs)
<1>1. \A c \in Conns : /\ cl[c].agentId = conn[c].agentId
                       /\ cl[c].token = conn[c].token
                       /\ cl[c].fp = conn[c].fp
                       /\ (cl[c].state = "none") <=> (conn[c].state = "none")
                       /\ (cl[c].state = "open") => (conn[c].state = "open")
  BY ClosedType, ClosedState DEF HubTypeOK
<1>2. \A a \in DOMAIN agents : agents[a].ws \in Conns
  BY DEF HubTypeOK, AgentConnection
<1>3. conn' = cl /\ agents' = agents /\ agentRows' = agentRows
  OBVIOUS
<1> HIDE DEF cl
<1> QED
  BY <1>1, <1>2, <1>3 DEF HubInv, MapMatchesSockets, OneOpenSocketPerAgent, OnlineFlagMatchesMap,
       ServedByPinnedMachine, IsCurrent, Live, IsOpen

LEMMA HelloInv ==
    ASSUME HubTypeOK, HubInv, NEW c \in Conns, NEW n \in Names, NEW f \in Fingerprints,
           NEW a \in AgentIds, AcceptHello(c, n, f, a)
    PROVE  HubInv'
<1> USE HubConstants
<1> DEFINE cl == Closed(ReplacedSocket(a))
<1>1. \A d \in Conns : /\ cl[d].agentId = conn[d].agentId
                       /\ cl[d].token = conn[d].token
                       /\ cl[d].fp = conn[d].fp
                       /\ (cl[d].state = "none") <=> (conn[d].state = "none")
                       /\ (cl[d].state = "open") <=>
                             (conn[d].state = "open" /\ d \notin ReplacedSocket(a))
  BY ClosedType, ClosedState DEF HubTypeOK
<1>2. cl \in [Conns -> Connection]
  BY ClosedType DEF HubTypeOK
<1>3. conn' = [cl EXCEPT ![c].agentId = a, ![c].fp = f]
  BY DEF AcceptHello
<1>4. /\ \A d \in Conns \ {c} : conn'[d] = cl[d]
      /\ conn'[c].agentId = a /\ conn'[c].fp = f
      /\ conn'[c].state = cl[c].state /\ conn'[c].token = conn[c].token
  <2> HIDE DEF cl
  <2> QED BY <1>1, <1>2, <1>3 DEF Connection
<1> HIDE DEF cl
<1>0. /\ \A x \in DOMAIN agents :
            /\ conn[agents[x].ws].state # "none"
            /\ conn[agents[x].ws].agentId = x
            /\ conn[agents[x].ws].token = agents[x].token
            /\ x \in DOMAIN agentRows => agentRows[x].token = agents[x].token
      /\ \A d \in Conns : conn[d].state = "none" => conn[d].agentId = NoAgent
      /\ conn[c].state # "none"
  BY DEF HubInv, MapMatchesSockets, Live, AcceptHello
<1>5. \A x \in DOMAIN agents : agents[x].ws \in Conns /\ agents[x].ws # c
  BY <1>0 DEF HubTypeOK, AgentConnection, AcceptHello
<1>6. /\ DOMAIN agents' = DOMAIN agents \union {a}
      /\ agents'[a].ws = c /\ agents'[a].token = conn[c].token
      /\ \A x \in DOMAIN agents \ {a} : agents'[x] = agents[x]
  BY DEF AcceptHello, With
<1>7. /\ DOMAIN agentRows' = DOMAIN agentRows \union {a}
      /\ agentRows'[a] = RowAfterHello(c, n, f, a)
      /\ \A x \in DOMAIN agentRows \ {a} : agentRows'[x] = agentRows[x]
  BY DEF AcceptHello, With
<1>8. MapMatchesSockets'
  <2>1. \A x \in DOMAIN agents' : /\ conn'[agents'[x].ws].state # "none"
                                  /\ conn'[agents'[x].ws].agentId = x
                                  /\ conn'[agents'[x].ws].token = agents'[x].token
    BY <1>0, <1>1, <1>4, <1>5, <1>6
  <2>2. \A x \in DOMAIN agents' \intersect DOMAIN agentRows' : agentRows'[x].token = agents'[x].token
    BY <1>0, <1>6, <1>7 DEF RowAfterHello
  <2>3. \A d \in Conns : conn'[d].state = "none" => conn'[d].agentId = NoAgent
    BY <1>0, <1>1, <1>4
  <2> QED BY <2>1, <2>2, <2>3 DEF MapMatchesSockets, Live
<1>9. OneOpenSocketPerAgent'
  <2> SUFFICES ASSUME NEW d \in Conns, conn'[d].state = "open", conn'[d].agentId # NoAgent
               PROVE  conn'[d].agentId \in DOMAIN agents' /\ agents'[conn'[d].agentId].ws = d
    BY DEF OneOpenSocketPerAgent, IsOpen, IsCurrent
  <2>1. CASE d = c
    BY <2>1, <1>4, <1>6
  <2>2. CASE d # c
    <3>1. conn[d].agentId \in DOMAIN agents /\ agents[conn[d].agentId].ws = d
      BY <2>2, <1>1, <1>4 DEF HubInv, OneOpenSocketPerAgent, IsOpen, IsCurrent
    <3>2. conn[d].agentId # a
      BY <2>2, <3>1, <1>1, <1>4 DEF ReplacedSocket
    <3> QED BY <2>2, <3>1, <3>2, <1>1, <1>4, <1>6
  <2> QED BY <2>1, <2>2
<1>10. OnlineFlagMatchesMap'
  BY <1>6, <1>7 DEF HubInv, OnlineFlagMatchesMap, RowAfterHello
<1>11. ServedByPinnedMachine'
  <2>1. agentRows'[a].fingerprint \in {NoFingerprint, f}
    BY <1>7 DEF RowAfterHello, AcceptHello, HelloId, FreshAgentId
  <2>2. ASSUME NEW x \in DOMAIN agents \intersect DOMAIN agentRows, x # a
        PROVE  agentRows'[x].fingerprint \in {NoFingerprint, conn'[agents'[x].ws].fp}
    BY <2>2, <1>1, <1>4, <1>5, <1>6, <1>7 DEF HubInv, ServedByPinnedMachine
  <2> QED BY <2>1, <2>2, <1>4, <1>6, <1>7 DEF ServedByPinnedMachine
<1> QED BY <1>8, <1>9, <1>10, <1>11 DEF HubInv

LEMMA SocketClosedInv ==
    ASSUME HubTypeOK, HubInv, NEW c \in Conns, AgentSocketClosed(c)
    PROVE  HubInv'
<1> USE HubConstants
<1>1. /\ \A d \in Conns \ {c} : conn'[d] = conn[d]
      /\ conn'[c].state = "none" /\ conn'[c].agentId = NoAgent
  BY DEF AgentSocketClosed, HubTypeOK, Unconnected
<1>2. \A x \in DOMAIN agents : agents[x].ws \in Conns /\ conn[agents[x].ws].agentId = x
  BY DEF HubTypeOK, AgentConnection, HubInv, MapMatchesSockets
<1>3. /\ DOMAIN agents' = {x \in DOMAIN agents : agents[x].ws # c}
      /\ \A x \in DOMAIN agents' : agents'[x] = agents[x]
  BY <1>2 DEF AgentSocketClosed, IsCurrent, Without, Restrict
<1>4. /\ DOMAIN agentRows' = DOMAIN agentRows
      /\ \A x \in DOMAIN agentRows :
            /\ agentRows'[x].token = agentRows[x].token
            /\ agentRows'[x].fingerprint = agentRows[x].fingerprint
            /\ agentRows'[x].online = IF x \in DOMAIN agents \ DOMAIN agents'
                                      THEN FALSE ELSE agentRows[x].online
  <2>1. CASE IsCurrent(c)
    <3>1. DOMAIN agents \ DOMAIN agents' = {conn[c].agentId}
      BY <1>2, <1>3, <2>1 DEF IsCurrent
    <3>2. agentRows' = IF conn[c].agentId \in DOMAIN agentRows
                       THEN [agentRows EXCEPT ![conn[c].agentId].online = FALSE]
                       ELSE agentRows
      BY <2>1 DEF AgentSocketClosed
    <3> QED BY <3>1, <3>2 DEF HubTypeOK, AgentRow
  <2>2. CASE ~IsCurrent(c)
    BY <2>2 DEF AgentSocketClosed
  <2> QED BY <2>1, <2>2
<1>5. MapMatchesSockets'
  <2>1. /\ \A x \in DOMAIN agents :
              /\ conn[agents[x].ws].state # "none"
              /\ conn[agents[x].ws].token = agents[x].token
              /\ x \in DOMAIN agentRows => agentRows[x].token = agents[x].token
        /\ \A d \in Conns : conn[d].state = "none" => conn[d].agentId = NoAgent
    BY DEF HubInv, MapMatchesSockets, Live
  <2>2. \A x \in DOMAIN agents' :
              /\ conn'[agents'[x].ws].state # "none"
              /\ conn'[agents'[x].ws].agentId = x
              /\ conn'[agents'[x].ws].token = agents'[x].token
    BY <2>1, <1>1, <1>2, <1>3
  <2>3. \A x \in DOMAIN agents' : x \in DOMAIN agentRows' => agentRows'[x].token = agents'[x].token
    BY <2>1, <1>3, <1>4
  <2>4. \A d \in Conns : conn'[d].state = "none" => conn'[d].agentId = NoAgent
    BY <2>1, <1>1
  <2> QED BY <2>2, <2>3, <2>4 DEF MapMatchesSockets, Live
<1>6. OneOpenSocketPerAgent'
  BY <1>1, <1>3 DEF HubInv, OneOpenSocketPerAgent, IsOpen, IsCurrent
<1>7. OnlineFlagMatchesMap'
  <2>1. \A x \in DOMAIN agentRows : agentRows[x].online \in BOOLEAN
    BY DEF HubTypeOK, AgentRow
  <2>2. \A x \in DOMAIN agentRows : agentRows[x].online <=> x \in DOMAIN agents
    BY DEF HubInv, OnlineFlagMatchesMap
  <2> SUFFICES ASSUME NEW x \in DOMAIN agentRows
               PROVE  agentRows'[x].online <=> x \in DOMAIN agents'
    BY <1>4 DEF OnlineFlagMatchesMap
  <2>3. CASE x \in DOMAIN agents \ DOMAIN agents'
    BY <2>3, <1>4
  <2>4. CASE x \notin DOMAIN agents \ DOMAIN agents'
    BY <2>1, <2>2, <2>4, <1>3, <1>4
  <2> QED BY <2>3, <2>4
<1>8. ServedByPinnedMachine'
  <2> SUFFICES ASSUME NEW x \in DOMAIN agentRows', x \in DOMAIN agents'
               PROVE  agentRows'[x].fingerprint \in {NoFingerprint, conn'[agents'[x].ws].fp}
    BY DEF ServedByPinnedMachine
  <2>1. agentRows[x].fingerprint \in {NoFingerprint, conn[agents[x].ws].fp}
    BY <1>3, <1>4 DEF HubInv, ServedByPinnedMachine
  <2>2. agents'[x] = agents[x] /\ agents[x].ws \in Conns \ {c}
    BY <1>2, <1>3
  <2> QED BY <2>1, <2>2, <1>1, <1>4
<1> QED BY <1>5, <1>6, <1>7, <1>8 DEF HubInv

LEMMA HubStepInv ==
    ASSUME HubTypeOK, HubInv, HubStep PROVE HubInv'
<1> USE HubConstants
<1>1. ASSUME NEW c \in Conns, NEW t \in Tokens, AgentUpgrade(c, t) PROVE HubInv'
  <2>1. /\ conn[c].state = "none" /\ conn[c].agentId = NoAgent
        /\ \A d \in Conns \ {c} : conn'[d] = conn[d]
        /\ conn'[c].state = "open" /\ conn'[c].agentId = NoAgent
    BY <1>1 DEF AgentUpgrade, Unconnected, HubTypeOK, HubInv, MapMatchesSockets, Live
  <2>2. \A x \in DOMAIN agents : agents[x].ws \in Conns \ {c}
    BY <2>1 DEF HubTypeOK, AgentConnection, HubInv, MapMatchesSockets, Live
  <2>3. agents' = agents /\ agentRows' = agentRows
    BY <1>1 DEF AgentUpgrade
  <2> QED BY <2>1, <2>2, <2>3 DEF HubInv, MapMatchesSockets, OneOpenSocketPerAgent,
          OnlineFlagMatchesMap, ServedByPinnedMachine, IsCurrent, Live, IsOpen
<1>2. ASSUME NEW c \in Conns, RefuseFirstMessage(c) \/ AgentSocketClosing(c)
             \/ \E n \in Names, f \in Fingerprints : RefuseFingerprint(c, n, f)
      PROVE HubInv'
  BY <1>2, ClosingInv DEF RefuseFirstMessage, AgentSocketClosing, RefuseFingerprint
<1>3. ASSUME NEW t \in Tokens, TokenDisable(t) \/ TokenDelete(t) PROVE HubInv'
  <2>1. conn' = Closed(SocketsOfToken(t)) /\ UNCHANGED <<agents, agentRows>>
    BY <1>3 DEF TokenDisable, TokenDelete
  <2> QED BY <2>1, ClosingInv
<1>4. ASSUME NEW t \in Tokens, TokenCreate(t) \/ TokenEnable(t) PROVE HubInv'
  BY <1>4, SameSocketsInv DEF TokenCreate, TokenEnable, SameSockets
<1>5. ASSUME NEW a \in AgentIds, AgentDelete(a) PROVE HubInv'
  <2>1. /\ UNCHANGED <<conn, agents>>
        /\ DOMAIN agentRows' \subseteq DOMAIN agentRows
        /\ \A x \in DOMAIN agentRows' : agentRows'[x] = agentRows[x]
    BY <1>5 DEF AgentDelete, Without, Restrict
  <2> QED BY <2>1 DEF HubInv, MapMatchesSockets, OneOpenSocketPerAgent,
          OnlineFlagMatchesMap, ServedByPinnedMachine, IsCurrent, Live, IsOpen
<1>6. ASSUME NEW a \in AgentIds, FingerprintClear(a) PROVE HubInv'
  <2>1. /\ UNCHANGED <<conn, agents>>
        /\ DOMAIN agentRows' = DOMAIN agentRows
        /\ \A x \in DOMAIN agentRows : /\ agentRows'[x].token = agentRows[x].token
                                       /\ agentRows'[x].online = agentRows[x].online
                                       /\ agentRows'[x].fingerprint \in {NoFingerprint, agentRows[x].fingerprint}
    BY <1>6 DEF FingerprintClear, HubTypeOK, AgentRow
  <2> QED BY <2>1 DEF HubInv, MapMatchesSockets, OneOpenSocketPerAgent,
          OnlineFlagMatchesMap, ServedByPinnedMachine, IsCurrent, Live, IsOpen
<1> QED BY <1>1, <1>2, <1>3, <1>4, <1>5, <1>6 DEF HubStep

LEMMA UserRemovedInv ==
    ASSUME HubTypeOK, HubInv, NEW u \in Users, UserDelete(u) PROVE HubInv'
<1> DEFINE cs == UNION {SocketsOfToken(t) : t \in TokensOf(u)}
<1>1. conn' = Closed(cs) /\ agents' = agents
  BY DEF UserDelete
<1>2. /\ DOMAIN agentRows' \subseteq DOMAIN agentRows
      /\ \A x \in DOMAIN agentRows' : agentRows'[x] = agentRows[x]
  BY DEF UserDelete, Restrict
<1>3. \A c \in Conns :
        /\ conn'[c].agentId = conn[c].agentId
        /\ conn'[c].token = conn[c].token
        /\ conn'[c].fp = conn[c].fp
        /\ (conn'[c].state = "none") <=> (conn[c].state = "none")
        /\ (conn'[c].state = "open") => (conn[c].state = "open")
  <2> HIDE DEF cs
  <2> QED BY <1>1, ClosedType, ClosedState DEF HubTypeOK
<1>4. \A x \in DOMAIN agents : agents[x].ws \in Conns
  BY DEF HubTypeOK, AgentConnection
<1> HIDE DEF cs
<1> QED BY <1>1, <1>2, <1>3, <1>4 DEF HubInv, MapMatchesSockets, OneOpenSocketPerAgent,
        OnlineFlagMatchesMap, ServedByPinnedMachine, IsCurrent, Live, IsOpen

LEMMA RestartInv ==
    ASSUME HubTypeOK, HubRestart PROVE HubInv'
BY DEF HubRestart, Unconnected, HubTypeOK, AgentRow, HubInv, MapMatchesSockets,
       OneOpenSocketPerAgent, OnlineFlagMatchesMap, ServedByPinnedMachine, Live, IsOpen

LEMMA HubInvNext == TypeOK /\ HubInv /\ [Next]_vars => HubInv'
<1> SUFFICES ASSUME TypeOK, HubInv, [Next]_vars PROVE HubInv'
  OBVIOUS
<1>0. HubTypeOK
  BY DEF TypeOK
<1>1. CASE HubStep
  BY <1>0, <1>1, HubStepInv
<1>2. ASSUME NEW c \in Conns, FromAgent(c) PROVE HubInv'
  <2>1. ASSUME NEW n \in Names, NEW f \in Fingerprints, NEW a \in AgentIds,
               AgentHello(c, n, f, a)
        PROVE  HubInv'
    BY <1>0, <2>1, HelloInv DEF AgentHello
  <2>2. ASSUME NEW s \in Sessions, PtyExited(c, s) \/ PtyCreateFailed(c, s) PROVE HubInv'
    BY <1>0, <2>2, SameSocketsInv, AgentsLeftType, AgentsLeftSame
    DEF PtyExited, PtyCreateFailed, DestroySessions, SameSockets
  <2>3. ASSUME NEW s \in Sessions,
               \/ PtyCreated(c, s) \/ AgentData(c, s)
               \/ \E type \in {"pty.replay", "pty.error", "file.transfer"} : AgentForward(c, s, type)
        PROVE  HubInv'
    BY <2>3, SameSocketsInv DEF PtyCreated, AgentData, AgentForward, hubVars, SameSockets
  <2>4. ASSUME HelloAgain(c) PROVE HubInv'
    BY <2>4, SameSocketsInv DEF HelloAgain, hubVars, SameSockets
  <2> QED BY <1>2, <2>1, <2>2, <2>3, <2>4 DEF FromAgent
<1>3. ASSUME NEW b \in Browsers, FromBrowser(b) PROVE HubInv'
  <2>1. ASSUME NEW a \in AgentIds, NEW s \in Sessions, PtyCreate(b, a, s) PROVE HubInv'
    BY <1>0, <2>1, SameSocketsInv DEF PtyCreate, SameSockets, HubTypeOK, AgentConnection
  <2>2. CASE \/ \E a \in AgentIds : PtyCreateRefused(b, a)
             \/ \E s \in Sessions :
                  \/ \E type \in {"pty.data", "file.transfer"} : BrowserData(b, s, type)
                  \/ \E type \in {"pty.resize", "pty.close"} : BrowserControl(b, s, type)
                  \/ ReplayRequest(b, s)
    BY <2>2, SameSocketsInv DEF PtyCreateRefused, BrowserData, BrowserControl, ReplayRequest,
       hubVars, SameSockets
  <2> QED BY <1>3, <2>1, <2>2 DEF FromBrowser
<1>4. ASSUME NEW b \in Browsers, BrowserDisconnect(b) PROVE HubInv'
  BY <1>0, <1>4, SameSocketsInv, AgentsLeftType, AgentsLeftSame DEF BrowserDisconnect, SameSockets
<1>5. ASSUME NEW c \in Conns, AgentDisconnect(c) PROVE HubInv'
  BY <1>0, <1>5, SocketClosedInv DEF AgentDisconnect
<1>6. CASE \/ \E b \in Browsers : (\E u \in Users : BrowserConnect(b, u)) \/ BrowserSocketClosing(b)
           \/ \E s \in Sessions : SessionIdles(s)
  BY <1>6, SameSocketsInv DEF BrowserConnect, BrowserSocketClosing, SessionIdles, hubVars, SameSockets
<1>7. CASE TtlSweep
  BY <1>0, <1>7, SameSocketsInv, AgentsLeftType, AgentsLeftSame
  DEF TtlSweep, DestroySessions, SameSockets
<1>8. ASSUME NEW u \in Users, UserRemoved(u) PROVE HubInv'
  BY <1>0, <1>8, UserRemovedInv DEF UserRemoved
<1>9. CASE RelayRestart
  BY <1>0, <1>9, RestartInv DEF RelayRestart
<1>10. CASE UNCHANGED vars
  BY <1>10, SameSocketsInv DEF vars, hubVars, SameSockets
<1> QED
  BY <1>1, <1>2, <1>3, <1>4, <1>5, <1>6, <1>7, <1>8, <1>9, <1>10 DEF Next

LEMMA SpecHubInv == Spec => []HubInv
BY HubInvInit, HubInvNext, TypeCorrect, PTL DEF Spec

\* The agents Map, the sockets and the rows agree in every reachable state: a
\* stale socket never answers for an agent, and none of the REST calls, nor a
\* restart, leaves the online column wrong.
THEOREM HubCorrect == Spec => []HubAgrees
<1>1. HubInv => HubAgrees
  BY DEF HubInv, HubAgrees
<1> QED BY <1>1, SpecHubInv, PTL

\* While a row holds a fingerprint the machine that serves as its agent is the
\* one the fingerprint was taken of, however often fingerprints are cleared and
\* sockets replaced.
THEOREM PinnedCorrect == Spec => []ServedByPinnedMachine
BY SpecHubInv, PTL DEF HubInv

-----------------------------------------------------------------------------
(***************************************************************************)
(* Sessions                                                                *)
(***************************************************************************)

\* Inductive together with TypeOK and HubInv: a hello that replaces a socket
\* keeps the agent's sessions, and only because entry, row and socket agree on
\* the token do they stay sessions of one user.
RoutingInv ==
    /\ MembershipMirrored
    /\ SessionsHaveBothEnds
    /\ ListedSessionsAreMapped
    /\ SessionsStayWithinUser
    /\ DOMAIN sessions \subseteq issued

LEMMA RoutingInvInit == Init => RoutingInv
BY DEF Init, HubInit, BrowserInit, RoutingInv, MembershipMirrored, SessionsHaveBothEnds,
       ListedSessionsAreMapped, SessionsStayWithinUser, SessionsWith, SessionsOf

\* Handlers after which every session has the ends it had
SameRouting ==
    /\ DOMAIN sessions' = DOMAIN sessions
    /\ \A s \in DOMAIN sessions : /\ sessions'[s].agentId = sessions[s].agentId
                                  /\ sessions'[s].browserIds = sessions[s].browserIds
    /\ DOMAIN browsers \subseteq DOMAIN browsers'
    /\ \A b \in DOMAIN browsers :
          /\ browsers'[b].userId = browsers[b].userId
          /\ browsers'[b].subscribedSessions = browsers[b].subscribedSessions
    /\ \A b \in DOMAIN browsers' \ DOMAIN browsers : browsers'[b].subscribedSessions = {}
    /\ DOMAIN agents \subseteq DOMAIN agents'
    /\ \A a \in DOMAIN agents : /\ agents'[a].token = agents[a].token
                                /\ agents'[a].sessions \subseteq agents[a].sessions
    /\ \A a \in DOMAIN agents' \ DOMAIN agents : agents'[a].sessions = {}
    /\ issued' = issued

LEMMA SameRoutingInv == ASSUME RoutingInv, SameRouting PROVE RoutingInv'
<1> USE DEF SameRouting, RoutingInv
<1>1. MembershipMirrored'
  <2>1. \A b \in DOMAIN browsers' \ DOMAIN browsers, s \in DOMAIN sessions : b \notin sessions[s].browserIds
    BY DEF SessionsHaveBothEnds
  <2> QED BY <2>1 DEF MembershipMirrored, SessionsWith
<1>2. SessionsHaveBothEnds'
  BY DEF SessionsHaveBothEnds
<1>3. ListedSessionsAreMapped'
  BY DEF ListedSessionsAreMapped, SessionsOf
<1>4. SessionsStayWithinUser'
  BY DEF SessionsStayWithinUser, SessionsHaveBothEnds
<1> QED BY <1>1, <1>2, <1>3, <1>4

LEMMA UnsubscribedSame ==
    ASSUME BrowserTypeOK, NEW ss, NEW b \in DOMAIN browsers
    PROVE  /\ Unsubscribed(ss)[b].userId = browsers[b].userId
           /\ Unsubscribed(ss)[b].subscribedSessions = browsers[b].subscribedSessions \ ss
BY DEF Unsubscribed, BrowserTypeOK, BrowserConnection

\* Handlers that end the sessions of a set and touch no other: the sockets of
\* an end that goes away may go in the same step.
EndedRouting(ss) ==
    /\ DOMAIN sessions' = DOMAIN sessions \ ss
    /\ \A s \in DOMAIN sessions' : /\ sessions'[s].agentId = sessions[s].agentId
                                   /\ sessions'[s].browserIds = sessions[s].browserIds
    /\ DOMAIN browsers' \subseteq DOMAIN browsers
    /\ \A b \in DOMAIN browsers' :
          /\ browsers'[b].userId = browsers[b].userId
          /\ browsers'[b].subscribedSessions = browsers[b].subscribedSessions \ ss
    /\ \A s \in DOMAIN sessions' : sessions[s].browserIds \subseteq DOMAIN browsers'
    /\ DOMAIN agents' \subseteq DOMAIN agents
    /\ \A a \in DOMAIN agents' : /\ agents'[a].token = agents[a].token
                                 /\ agents'[a].sessions \intersect ss = {}
                                 /\ agents'[a].sessions \subseteq agents[a].sessions
    /\ \A s \in DOMAIN sessions' : sessions[s].agentId \in DOMAIN agents'
    /\ issued' = issued

LEMMA EndedRoutingInv ==
    ASSUME RoutingInv, NEW ss, EndedRouting(ss) PROVE RoutingInv'
<1> USE DEF EndedRouting, RoutingInv
<1>1. MembershipMirrored'
  BY DEF MembershipMirrored, SessionsWith
<1>2. SessionsHaveBothEnds'
  BY DEF SessionsHaveBothEnds
<1>3. ListedSessionsAreMapped'
  BY DEF ListedSessionsAreMapped, SessionsOf
<1>4. SessionsStayWithinUser'
  BY DEF SessionsStayWithinUser, SessionsHaveBothEnds
<1> QED BY <1>1, <1>2, <1>3, <1>4

LEMMA DestroyRouting ==
    ASSUME TypeOK, RoutingInv, NEW ss, DestroySessions(ss) PROVE EndedRouting(ss)
<1>1. HubTypeOK /\ BrowserTypeOK
  BY DEF TypeOK
<1>2. \A s \in DOMAIN sessions : /\ sessions[s].agentId \in DOMAIN agents
                                 /\ sessions[s].browserIds \subseteq DOMAIN browsers
  BY DEF RoutingInv, SessionsHaveBothEnds
<1>3. \A s \in DOMAIN SessionsLeft(ss) : SessionsLeft(ss)[s] = sessions[s]
  BY DEF SessionsLeft, Restrict
<1>4. /\ DOMAIN sessions' = DOMAIN sessions \ ss
      /\ \A s \in DOMAIN sessions' : sessions'[s] = sessions[s]
  BY <1>3, SessionsLeftType DEF DestroySessions
<1>5. /\ DOMAIN browsers' = DOMAIN browsers
      /\ \A b \in DOMAIN browsers :
            /\ browsers'[b].userId = browsers[b].userId
            /\ browsers'[b].subscribedSessions = browsers[b].subscribedSessions \ ss
  BY <1>1, UnsubscribedType, UnsubscribedSame DEF DestroySessions
<1>6. /\ DOMAIN agents' = DOMAIN agents
      /\ \A a \in DOMAIN agents :
            /\ agents'[a].token = agents[a].token
            /\ agents'[a].sessions = agents[a].sessions \ ss
  BY <1>1, AgentsLeftType, AgentsLeftSame DEF DestroySessions
<1> QED BY <1>2, <1>4, <1>5, <1>6 DEF DestroySessions, EndedRouting

LEMMA SameEnds ==
    ASSUME UNCHANGED <<agents, browsers, issued>>,
           DOMAIN sessions' = DOMAIN sessions,
           \A s \in DOMAIN sessions : /\ sessions'[s].agentId = sessions[s].agentId
                                     /\ sessions'[s].browserIds = sessions[s].browserIds
    PROVE  SameRouting
BY DEF SameRouting

LEMMA HelloRouting ==
    ASSUME HubInv, RoutingInv, NEW c \in Conns, NEW n \in Names, NEW f \in Fingerprints,
           NEW a \in AgentIds, AgentHello(c, n, f, a)
    PROVE  SameRouting
<1>1. a \in DOMAIN agents => agents[a].token = conn[c].token
  BY DEF AgentHello, AcceptHello, HelloId, RowsOf, FreshAgentId, HubInv, MapMatchesSockets
<1>2. /\ DOMAIN agents' = DOMAIN agents \union {a}
      /\ agents'[a].token = conn[c].token /\ agents'[a].sessions = {}
      /\ \A x \in DOMAIN agents \ {a} : agents'[x] = agents[x]
  BY DEF AgentHello, AcceptHello, With
<1>3. UNCHANGED <<browsers, sessions, issued>>
  BY DEF AgentHello, sessionVars
<1> QED BY <1>1, <1>2, <1>3 DEF SameRouting

LEMMA CreateRouting ==
    ASSUME TypeOK, HubInv, RoutingInv, NEW b \in Browsers, NEW a \in AgentIds,
           NEW s \in Sessions, PtyCreate(b, a, s)
    PROVE  RoutingInv'
<1> USE DEF RoutingInv
<1>1. s \notin DOMAIN sessions /\ a \in DOMAIN agents /\ b \in DOMAIN browsers
  BY DEF PtyCreate, FreshSession, MayCreate
<1>2. /\ DOMAIN sessions' = DOMAIN sessions \union {s}
      /\ sessions'[s].agentId = a /\ sessions'[s].browserIds = {b}
      /\ \A x \in DOMAIN sessions : sessions'[x] = sessions[x]
  BY <1>1 DEF PtyCreate, With
<1>3. /\ DOMAIN browsers' = DOMAIN browsers
      /\ \A x \in DOMAIN browsers :
            /\ browsers'[x].userId = browsers[x].userId
            /\ browsers'[x].subscribedSessions
                  = browsers[x].subscribedSessions \union (IF x = b THEN {s} ELSE {})
  BY <1>1 DEF PtyCreate, Subscribing, TypeOK, BrowserTypeOK, BrowserConnection
<1>4. /\ DOMAIN agents' = DOMAIN agents
      /\ \A x \in DOMAIN agents :
            /\ agents'[x].token = agents[x].token
            /\ agents'[x].sessions = agents[x].sessions \union (IF x = a THEN {s} ELSE {})
  BY <1>1 DEF PtyCreate, TypeOK, HubTypeOK, AgentConnection
<1>5. MembershipMirrored'
  <2> SUFFICES ASSUME NEW x \in DOMAIN browsers
               PROVE  browsers'[x].subscribedSessions
                         = {t \in DOMAIN sessions' : x \in sessions'[t].browserIds}
    BY <1>3 DEF MembershipMirrored, SessionsWith
  <2>1. browsers[x].subscribedSessions = {t \in DOMAIN sessions : x \in sessions[t].browserIds}
    BY DEF MembershipMirrored, SessionsWith
  <2> QED BY <2>1, <1>1, <1>2, <1>3
<1>6. SessionsHaveBothEnds'
  BY <1>1, <1>2, <1>3, <1>4 DEF SessionsHaveBothEnds
<1>7. ListedSessionsAreMapped'
  BY <1>1, <1>2, <1>4 DEF ListedSessionsAreMapped, SessionsOf
<1>8. SessionsStayWithinUser'
  <2>1. browsers[b].userId = TokenUser[agents[a].token]
    BY DEF PtyCreate, MayCreate, IsAgentOwnedByUser, HubInv, MapMatchesSockets
  <2>2. ASSUME NEW x \in DOMAIN sessions, NEW d \in sessions[x].browserIds
        PROVE  /\ d \in DOMAIN browsers /\ sessions[x].agentId \in DOMAIN agents
               /\ browsers[d].userId = TokenUser[agents[sessions[x].agentId].token]
    BY DEF SessionsStayWithinUser, SessionsHaveBothEnds
  <2> QED BY <2>1, <2>2, <1>1, <1>2, <1>3, <1>4 DEF SessionsStayWithinUser
<1>9. DOMAIN sessions' \subseteq issued'
  BY <1>2 DEF PtyCreate
<1> QED BY <1>5, <1>6, <1>7, <1>8, <1>9

LEMMA ReplayRouting ==
    ASSUME TypeOK, RoutingInv, NEW b \in Browsers, NEW s \in Sessions, ReplayRequest(b, s)
    PROVE  SameRouting
<1>1. b \in DOMAIN browsers /\ s \in browsers[b].subscribedSessions
  BY DEF ReplayRequest, AttachedTo, RoutingInv, MembershipMirrored
<1>2. /\ DOMAIN browsers' = DOMAIN browsers
      /\ \A x \in DOMAIN browsers :
            /\ browsers'[x].userId = browsers[x].userId
            /\ browsers'[x].subscribedSessions = browsers[x].subscribedSessions
  BY <1>1 DEF ReplayRequest, Subscribing, TypeOK, BrowserTypeOK, BrowserConnection
<1> QED BY <1>2 DEF ReplayRequest, hubVars, sessionVars, SameRouting

LEMMA BrowserGoneRouting ==
    ASSUME TypeOK, RoutingInv, NEW b \in Browsers, BrowserDisconnect(b)
    PROVE  EndedRouting(Orphans(b))
<1> DEFINE ss == Orphans(b)
<1>0. HubTypeOK /\ BrowserTypeOK
  BY DEF TypeOK
<1>1. \A s \in DOMAIN sessions : /\ sessions[s].agentId \in DOMAIN agents
                                /\ \E x \in DOMAIN browsers : sessions[s].browserIds = {x}
  BY DEF RoutingInv, SessionsHaveBothEnds
<1>2. \A s \in DOMAIN sessions : s \in ss <=> b \in sessions[s].browserIds
  BY <1>1 DEF Orphans
<1>3. /\ DOMAIN sessions' = DOMAIN sessions \ ss
      /\ \A s \in DOMAIN sessions' :
            /\ sessions'[s].agentId = sessions[s].agentId
            /\ sessions'[s].browserIds = sessions[s].browserIds \ {b}
  BY DEF BrowserDisconnect, TypeOK, SessionMapping
<1>4. \A s \in DOMAIN sessions' : /\ sessions[s].browserIds \ {b} = sessions[s].browserIds
                                 /\ sessions[s].browserIds \subseteq DOMAIN browsers \ {b}
  BY <1>1, <1>2, <1>3
<1>5. /\ DOMAIN browsers' = DOMAIN browsers \ {b}
      /\ \A x \in DOMAIN browsers' :
            /\ browsers'[x].userId = browsers[x].userId
            /\ browsers'[x].subscribedSessions = browsers[x].subscribedSessions \ ss
  BY <1>0, UnsubscribedSame DEF BrowserDisconnect, Restrict
<1>6. /\ DOMAIN agents' = DOMAIN agents
      /\ \A x \in DOMAIN agents : /\ agents'[x].token = agents[x].token
                                 /\ agents'[x].sessions = agents[x].sessions \ ss
  BY <1>0, AgentsLeftType, AgentsLeftSame DEF BrowserDisconnect
<1>7. issued' = issued
  BY DEF BrowserDisconnect
<1>8. EndedRouting(ss)
  <2> HIDE DEF ss
  <2> QED BY <1>1, <1>3, <1>4, <1>5, <1>6, <1>7 DEF EndedRouting
<1> QED BY <1>8

LEMMA AgentGoneRouting ==
    ASSUME TypeOK, RoutingInv, NEW c \in Conns, AgentDisconnect(c)
    PROVE  SameRouting \/ EndedRouting(SessionsOf(conn[c].agentId))
<1>0. BrowserTypeOK
  BY DEF TypeOK
<1>1. CASE ~IsCurrent(c)
  BY <1>1, SameEnds DEF AgentDisconnect, AgentSocketClosed
<1>2. CASE IsCurrent(c)
  <2> DEFINE a == conn[c].agentId
  <2> DEFINE ss == SessionsOf(a)
  <2>1. \A s \in DOMAIN sessions : /\ sessions[s].agentId \in DOMAIN agents
                                  /\ sessions[s].browserIds \subseteq DOMAIN browsers
    BY DEF RoutingInv, SessionsHaveBothEnds
  <2>2. /\ sessions' = SessionsLeft(ss) /\ browsers' = Unsubscribed(ss)
        /\ agents' = Without(agents, a) /\ issued' = issued
    BY <1>2 DEF AgentDisconnect, AgentSocketClosed
  <2>3. /\ DOMAIN sessions' = DOMAIN sessions \ ss
        /\ \A s \in DOMAIN sessions' : sessions'[s] = sessions[s]
    BY <2>2 DEF SessionsLeft, Restrict
  <2>4. /\ DOMAIN browsers' = DOMAIN browsers
        /\ \A x \in DOMAIN browsers :
              /\ browsers'[x].userId = browsers[x].userId
              /\ browsers'[x].subscribedSessions = browsers[x].subscribedSessions \ ss
    BY <1>0, <2>2, UnsubscribedType, UnsubscribedSame
  <2>5. /\ DOMAIN agents' = DOMAIN agents \ {a}
        /\ \A x \in DOMAIN agents' : agents'[x] = agents[x]
    BY <2>2 DEF Without, Restrict
  <2>6. \A x \in DOMAIN agents' : agents[x].sessions \intersect ss = {}
    BY <2>5 DEF RoutingInv, ListedSessionsAreMapped, SessionsOf
  <2>7. \A s \in DOMAIN sessions' : sessions[s].agentId \in DOMAIN agents'
    BY <2>1, <2>3, <2>5 DEF SessionsOf
  <2>8. EndedRouting(ss)
    <3> HIDE DEF ss, a
    <3> QED BY <2>1, <2>2, <2>3, <2>4, <2>5, <2>6, <2>7 DEF EndedRouting
  <2> QED BY <2>8
<1> QED BY <1>1, <1>2

LEMMA ClosingBrowsersRouting ==
    ASSUME TypeOK, NEW bs, browsers' = ClosingBrowsers(bs),
           UNCHANGED <<agents, sessions, issued>>
    PROVE  SameRouting
<1>1. /\ DOMAIN browsers' = DOMAIN browsers
      /\ \A x \in DOMAIN browsers :
            /\ browsers'[x].userId = browsers[x].userId
            /\ browsers'[x].subscribedSessions = browsers[x].subscribedSessions
  BY DEF ClosingBrowsers, TypeOK, BrowserTypeOK, BrowserConnection
<1> QED BY <1>1 DEF SameRouting

\* All that a step can do to the routing
Creates == \E b \in Browsers, a \in AgentIds, s \in Sessions : PtyCreate(b, a, s)
Ends    == \E ss \in SUBSET DOMAIN sessions : EndedRouting(ss)

LEMMA StepKinds ==
    ASSUME TypeOK, HubInv, RoutingInv, [Next]_vars PROVE SameRouting \/ Ends \/ Creates
<1>1. CASE HubStep
  <2>1. UNCHANGED agents
    BY <1>1 DEF HubStep, AgentUpgrade, RefuseFirstMessage, RefuseFingerprint, AgentSocketClosing,
       TokenCreate, TokenEnable, TokenDisable, TokenDelete, AgentDelete, FingerprintClear
  <2> QED BY <1>1, <2>1, SameEnds DEF HubStep, sessionVars
<1>2. ASSUME NEW c \in Conns, FromAgent(c) PROVE SameRouting \/ Ends
  <2>1. ASSUME NEW n \in Names, NEW f \in Fingerprints, NEW a \in AgentIds,
               AgentHello(c, n, f, a)
        PROVE  SameRouting
    BY <2>1, HelloRouting
  <2>2. ASSUME NEW s \in Sessions, PtyExited(c, s) \/ PtyCreateFailed(c, s) PROVE Ends
    <3>1. {s} \in SUBSET DOMAIN sessions /\ DestroySessions({s})
      BY <2>2 DEF PtyExited, PtyCreateFailed, OwnedByAgent, SessionsOf
    <3> QED BY <3>1, DestroyRouting DEF Ends
  <2>3. ASSUME NEW s \in Sessions, AgentData(c, s) PROVE SameRouting
    BY <2>3, TouchedType, SameEnds DEF AgentData, OwnedByAgent, SessionsOf, hubVars
  <2>4. ASSUME NEW s \in Sessions,
               \/ PtyCreated(c, s)
               \/ \E type \in {"pty.replay", "pty.error", "file.transfer"} : AgentForward(c, s, type)
        PROVE  SameRouting
    BY <2>4, SameEnds DEF PtyCreated, AgentForward, hubVars, sessionVars
  <2>5. ASSUME HelloAgain(c) PROVE SameRouting
    BY <2>5, SameEnds DEF HelloAgain, hubVars, sessionVars
  <2> QED BY <1>2, <2>1, <2>2, <2>3, <2>4, <2>5 DEF FromAgent
<1>3. ASSUME NEW b \in Browsers, FromBrowser(b) PROVE SameRouting \/ Creates
  <2>1. ASSUME NEW s \in Sessions, NEW type, BrowserData(b, s, type) PROVE SameRouting
    BY <2>1, TouchedType, SameEnds DEF BrowserData, AttachedTo, SessionsWith, hubVars
  <2>2. ASSUME NEW s \in Sessions, ReplayRequest(b, s) PROVE SameRouting
    BY <2>2, ReplayRouting
  <2>3. ASSUME \/ \E a \in AgentIds : PtyCreateRefused(b, a)
               \/ \E s \in Sessions, type \in {"pty.resize", "pty.close"} : BrowserControl(b, s, type)
        PROVE  SameRouting
    BY <2>3, SameEnds DEF PtyCreateRefused, BrowserControl, hubVars, sessionVars
  <2> QED BY <1>3, <2>1, <2>2, <2>3 DEF FromBrowser, Creates
<1>4. ASSUME NEW b \in Browsers, NEW u \in Users, BrowserConnect(b, u) PROVE SameRouting
  <2>1. /\ b \notin DOMAIN browsers
        /\ DOMAIN browsers' = DOMAIN browsers \union {b}
        /\ browsers'[b].subscribedSessions = {}
        /\ \A x \in DOMAIN browsers : browsers'[x] = browsers[x]
    BY <1>4 DEF BrowserConnect, RegisterBrowser, With
  <2>2. UNCHANGED <<agents, sessions, issued>>
    BY <1>4 DEF BrowserConnect, hubVars, sessionVars
  <2> QED BY <2>1, <2>2 DEF SameRouting
<1>5. ASSUME NEW b \in Browsers, BrowserSocketClosing(b) PROVE SameRouting
  BY <1>5, ClosingBrowsersRouting DEF BrowserSocketClosing, hubVars, sessionVars
<1>6. ASSUME NEW s \in Sessions, SessionIdles(s) PROVE SameRouting
  <2>1. /\ DOMAIN sessions' = DOMAIN sessions
        /\ \A x \in DOMAIN sessions : /\ sessions'[x].agentId = sessions[x].agentId
                                     /\ sessions'[x].browserIds = sessions[x].browserIds
    BY <1>6 DEF SessionIdles, TypeOK, SessionMapping
  <2> QED BY <1>6, <2>1, SameEnds DEF SessionIdles, hubVars
<1>7. ASSUME NEW b \in Browsers, BrowserDisconnect(b) PROVE Ends
  BY <1>7, BrowserGoneRouting DEF Orphans, Ends
<1>8. ASSUME NEW c \in Conns, AgentDisconnect(c) PROVE SameRouting \/ Ends
  <2>1. SessionsOf(conn[c].agentId) \in SUBSET DOMAIN sessions
    BY DEF SessionsOf
  <2> QED BY <1>8, <2>1, AgentGoneRouting DEF Ends
<1>9. CASE TtlSweep
  BY <1>9, DestroyRouting DEF TtlSweep, IdleSessions, Ends
<1>10. ASSUME NEW u \in Users, UserRemoved(u) PROVE SameRouting
  BY <1>10, ClosingBrowsersRouting DEF UserRemoved, UserDelete, sessionVars
<1>11. CASE RelayRestart
  <2>1. EndedRouting(DOMAIN sessions)
    BY <1>11 DEF RelayRestart, HubRestart, EndedRouting
  <2> QED BY <2>1 DEF Ends
<1>12. CASE UNCHANGED vars
  BY <1>12, SameEnds DEF vars, hubVars, sessionVars
<1> QED
  BY <1>1, <1>2, <1>3, <1>4, <1>5, <1>6, <1>7, <1>8, <1>9, <1>10, <1>11, <1>12 DEF Next

LEMMA RoutingInvNext == TypeOK /\ HubInv /\ RoutingInv /\ [Next]_vars => RoutingInv'
BY StepKinds, SameRoutingInv, EndedRoutingInv, CreateRouting DEF Ends, Creates

LEMMA SpecInv == Spec => [](TypeOK /\ HubInv /\ RoutingInv)
BY SpecHubInv, RoutingInvInit, RoutingInvNext, TypeCorrect, PTL DEF Spec

\* Whatever connects, drops, is replaced, swept or deleted, in any order: the
\* three records of a session (mapping, subscription, the agent's list) agree.
THEOREM RecordsCorrect == Spec => []RecordsAgree
<1>1. RoutingInv => RecordsAgree
  BY DEF RoutingInv, RecordsAgree
<1> QED BY <1>1, SpecInv, PTL

\* No handler leaves a mapping without its agent or without a browser.
THEOREM EndsCorrect == Spec => []SessionsHaveBothEnds
BY SpecInv, PTL DEF RoutingInv

\* Browser and agent of a session belong to one user, whatever tokens, agents and
\* users are deleted while the session goes on.
THEOREM UserCorrect == Spec => []SessionsStayWithinUser
BY SpecInv, PTL DEF RoutingInv

-----------------------------------------------------------------------------
(***************************************************************************)
(* What is sent                                                            *)
(***************************************************************************)

LEMMA SubscribersAreMembers ==
    ASSUME RoutingInv, NEW s \in DOMAIN sessions, NEW type, NEW i,
           NEW m \in SendToBrowsers(Subscribers(s), type, i)
    PROVE  m.id = i /\ m.to \in sessions[s].browserIds
BY DEF RoutingInv, MembershipMirrored, SessionsWith, SendToBrowsers, Subscribers, OpenBrowsers

LEMMA MembersAreMembers ==
    ASSUME NEW bs, NEW type, NEW i, NEW m \in SendToBrowsers(bs, type, i)
    PROVE  m.id = i /\ m.to \in bs
BY DEF SendToBrowsers

LEMMA DeliveredStep ==
    ASSUME TypeOK, RoutingInv, [Next]_vars PROVE [DeliveredToMembers]_vars
<1> USE RouterConstants DEF DeliveredToMembers
<1>1. ASSUME toBrowser' = {} PROVE DeliveredToMembers
  BY <1>1
<1>2. ASSUME NEW c \in Conns, FromAgent(c) PROVE DeliveredToMembers
  <2>1. ASSUME NEW n \in Names, NEW f \in Fingerprints, NEW a \in AgentIds, AgentHello(c, n, f, a)
        PROVE  DeliveredToMembers
    BY <2>1, MembersAreMembers DEF AgentHello, TellOwner
  <2>2. ASSUME NEW s \in Sessions, PtyCreated(c, s) PROVE DeliveredToMembers
    BY <2>2, MembersAreMembers DEF PtyCreated, OwnedByAgent, SessionsOf
  <2>3. ASSUME NEW s \in Sessions,
               \/ AgentData(c, s) \/ PtyExited(c, s)
               \/ \E type \in {"pty.replay", "pty.error", "file.transfer"} : AgentForward(c, s, type)
        PROVE  DeliveredToMembers
    BY <2>3, SubscribersAreMembers
    DEF AgentData, AgentForward, PtyExited, OwnedByAgent, SessionsOf
  <2>4. ASSUME NEW s \in Sessions, PtyCreateFailed(c, s) PROVE DeliveredToMembers
    <3>1. conn[c].agentId \in AgentIds
      BY <2>4 DEF PtyCreateFailed, OwnedByAgent, TypeOK, HubTypeOK, Connection
    <3> QED BY <2>4, <3>1, MembersAreMembers DEF PtyCreateFailed
  <2>5. ASSUME HelloAgain(c) PROVE DeliveredToMembers
    BY <2>5, MembersAreMembers DEF HelloAgain, TellOwner, TypeOK, HubTypeOK
  <2> QED BY <1>2, <2>1, <2>2, <2>3, <2>4, <2>5 DEF FromAgent
<1>3. ASSUME NEW b \in Browsers, FromBrowser(b) PROVE DeliveredToMembers
  <2>1. ASSUME NEW a \in AgentIds, PtyCreateRefused(b, a) PROVE DeliveredToMembers
    BY <2>1, MembersAreMembers DEF PtyCreateRefused
  <2> QED BY <1>1, <1>3, <2>1 DEF FromBrowser, PtyCreate, BrowserData, BrowserControl, ReplayRequest
<1>4. ASSUME NEW c \in Conns, AgentDisconnect(c) PROVE DeliveredToMembers
  <2>1. CASE IsCurrent(c)
    <3>1. conn[c].agentId \in AgentIds
      BY <2>1 DEF IsCurrent, TypeOK, HubTypeOK
    <3>2. toBrowser' = TellOwner(agents[conn[c].agentId].token, "agent.offline", conn[c].agentId)
      BY <1>4, <2>1 DEF AgentDisconnect
    <3> QED BY <3>1, <3>2, MembersAreMembers DEF TellOwner
  <2>2. CASE ~IsCurrent(c)
    BY <1>1, <1>4, <2>2 DEF AgentDisconnect
  <2> QED BY <2>1, <2>2
<1> QED
  BY <1>1, <1>2, <1>3, <1>4
  DEF Next, HubStep, BrowserConnect, BrowserSocketClosing, BrowserDisconnect, SessionIdles,
      TtlSweep, UserRemoved, RelayRestart, Silent

LEMMA SentToSocket ==
    ASSUME NEW a, NEW type, NEW ss, NEW m \in SendToAgent(a, type, ss)
    PROVE  m.to = agents[a].ws /\ m.type = type /\ m.id \in ss
BY DEF SendToAgent

LEMMA ClosedAtOwnAgent ==
    ASSUME NEW ss, toAgent' = CloseAtAgents(ss) PROVE SentToOwnAgent
<1> SUFFICES ASSUME NEW m \in CloseAtAgents(ss)
             PROVE  m.id \in DOMAIN sessions /\ m.to = agents[sessions[m.id].agentId].ws
  BY DEF SentToOwnAgent
<1>1. PICK a \in DOMAIN agents : m \in SendToAgent(a, "pty.close", SessionsOf(a) \intersect ss)
  BY DEF CloseAtAgents
<1> QED BY <1>1, SentToSocket DEF SessionsOf

LEMMA SentStep == ASSUME [Next]_vars PROVE [SentToOwnAgent]_vars
<1>1. ASSUME toAgent' = {} PROVE SentToOwnAgent
  BY <1>1 DEF SentToOwnAgent
<1>2. ASSUME NEW c \in Conns, FromAgent(c) PROVE SentToOwnAgent
  BY <1>1, <1>2 DEF FromAgent, AgentHello, HelloAgain, PtyCreated, AgentData, AgentForward, PtyExited,
     PtyCreateFailed
<1>3. ASSUME NEW b \in Browsers, FromBrowser(b) PROVE SentToOwnAgent
  <2>1. ASSUME NEW a \in AgentIds, NEW s \in Sessions, PtyCreate(b, a, s) PROVE SentToOwnAgent
    BY <2>1, SentToSocket DEF PtyCreate, FreshSession, SentToOwnAgent
  <2>2. ASSUME NEW s \in Sessions, NEW type,
               BrowserData(b, s, type) \/ BrowserControl(b, s, type) \/ ReplayRequest(b, s)
        PROVE  SentToOwnAgent
    BY <2>2, SentToSocket
    DEF BrowserData, BrowserControl, ReplayRequest, AttachedTo, SessionsWith, SentToOwnAgent
  <2> QED BY <1>1, <1>3, <2>1, <2>2 DEF FromBrowser, PtyCreateRefused
<1>4. ASSUME NEW b \in Browsers, BrowserDisconnect(b) PROVE SentToOwnAgent
  BY <1>4, ClosedAtOwnAgent DEF BrowserDisconnect
<1>5. ASSUME TtlSweep PROVE SentToOwnAgent
  BY <1>5, ClosedAtOwnAgent DEF TtlSweep
<1> QED
  BY <1>1, <1>2, <1>3, <1>4, <1>5
  DEF Next, HubStep, BrowserConnect, BrowserSocketClosing, AgentDisconnect, SessionIdles,
      UserRemoved, RelayRestart, Silent

LEMMA CloseReaches ==
    ASSUME NEW ss, NEW a \in DOMAIN agents, IsOpen(agents[a].ws), NEW s \in SessionsOf(a) \intersect ss
    PROVE  [to |-> agents[a].ws, type |-> "pty.close", id |-> s] \in CloseAtAgents(ss)
<1>1. [to |-> agents[a].ws, type |-> "pty.close", id |-> s]
         \in SendToAgent(a, "pty.close", SessionsOf(a) \intersect ss)
  BY DEF SendToAgent
<1> QED BY <1>1 DEF CloseAtAgents

LEMMA ToldStep == ASSUME TypeOK, HubInv, RoutingInv, [Next]_vars PROVE [ToldOfEnd]_vars
<1> SUFFICES ASSUME Next, NEW a \in AgentIds, NEW s \in SessionsOf(a) \ DOMAIN sessions',
                    Reachable(a), Reachable(a)'
             PROVE  \/ [to |-> agents[a].ws, type |-> "pty.close", id |-> s] \in toAgent'
                    \/ \E c \in Conns : PtyExited(c, s) \/ PtyCreateFailed(c, s)
  BY DEF ToldOfEnd
<1>0. s \in DOMAIN sessions /\ sessions[s].agentId = a
  BY DEF SessionsOf
<1>1. ASSUME NEW c \in Conns, FromAgent(c) PROVE \E d \in Conns : PtyExited(d, s) \/ PtyCreateFailed(d, s)
  <2>1. ASSUME NEW x \in Sessions, PtyExited(c, x) \/ PtyCreateFailed(c, x) PROVE x = s
    BY <1>0, <2>1 DEF PtyExited, PtyCreateFailed, DestroySessions, SessionsLeft, Restrict
  <2>2. ASSUME NEW x \in Sessions, PtyCreated(c, x) \/ AgentData(c, x)
                 \/ \E type \in {"pty.replay", "pty.error", "file.transfer"} : AgentForward(c, x, type)
        PROVE  FALSE
    BY <1>0, <2>2 DEF PtyCreated, AgentData, AgentForward, Touched, sessionVars
  <2>3. ASSUME HelloAgain(c) \/ \E n \in Names, f \in Fingerprints, x \in AgentIds : AgentHello(c, n, f, x)
        PROVE  FALSE
    BY <1>0, <2>3 DEF AgentHello, HelloAgain, sessionVars
  <2> QED BY <1>1, <2>1, <2>2, <2>3 DEF FromAgent
<1>2. ASSUME NEW b \in Browsers, BrowserDisconnect(b)
      PROVE  [to |-> agents[a].ws, type |-> "pty.close", id |-> s] \in toAgent'
  BY <1>0, <1>2, CloseReaches DEF BrowserDisconnect, Reachable
<1>3. ASSUME TtlSweep PROVE [to |-> agents[a].ws, type |-> "pty.close", id |-> s] \in toAgent'
  BY <1>0, <1>3, CloseReaches DEF TtlSweep, DestroySessions, SessionsLeft, Restrict, Reachable
<1>4. ASSUME NEW c \in Conns, AgentDisconnect(c) PROVE FALSE
  <2>1. IsCurrent(c) /\ conn[c].agentId = a
    BY <1>0, <1>4 DEF AgentDisconnect, SessionsLeft, Restrict, SessionsOf
  <2> QED BY <1>4, <2>1 DEF AgentDisconnect, AgentSocketClosed, Without, Restrict, Reachable
<1>5. ASSUME RelayRestart PROVE FALSE
  BY <1>5 DEF RelayRestart, HubRestart, Reachable
<1>6. ASSUME NEW b \in Browsers, FromBrowser(b) PROVE FALSE
  BY <1>0, <1>6 DEF FromBrowser, PtyCreate, With, PtyCreateRefused, BrowserData, BrowserControl,
     ReplayRequest, Touched, sessionVars
<1>7. ASSUME \/ HubStep
             \/ \E u \in Users : UserRemoved(u) \/ \E b \in Browsers : BrowserConnect(b, u)
             \/ \E b \in Browsers : BrowserSocketClosing(b)
             \/ \E x \in Sessions : SessionIdles(x)
      PROVE  FALSE
  BY <1>0, <1>7 DEF HubStep, UserRemoved, BrowserConnect, BrowserSocketClosing, SessionIdles, sessionVars
<1> QED BY <1>1, <1>2, <1>3, <1>4, <1>5, <1>6, <1>7 DEF Next

\* No browser is sent a message about a session it is not attached to, and no
\* agent's socket one about another agent's session.
THEOREM DeliveryCorrect == Spec => MessagesStayWithinSession
<1>1. TypeOK /\ HubInv /\ RoutingInv /\ [Next]_vars => [DeliveredToMembers /\ SentToOwnAgent]_vars
  BY DeliveredStep, SentStep
<1> QED BY <1>1, SpecInv, PTL DEF Spec, MessagesStayWithinSession

\* No session of an agent that stays reachable is dropped without its knowing.
THEOREM NoticeCorrect == Spec => ReachableAgentToldOfEnd
BY SpecInv, ToldStep, PTL DEF Spec, ReachableAgentToldOfEnd

-----------------------------------------------------------------------------
(***************************************************************************)
(* Limits                                                                  *)
(***************************************************************************)

LimitsInv == IsFiniteSet(DOMAIN sessions) /\ WithinLimits

LEMMA LimitsInvInit == Init => LimitsInv
<1> SUFFICES ASSUME Init PROVE LimitsInv
  OBVIOUS
<1>1. DOMAIN sessions = {} /\ Cardinality({}) = 0 /\ IsFiniteSet({})
  BY FS_EmptySet DEF Init
<1>2. \A x : Cardinality(SessionsOf(x)) = 0 /\ Cardinality(SessionsWith(x)) = 0
  <2>1. \A x : SessionsOf(x) = {} /\ SessionsWith(x) = {}
    BY <1>1 DEF SessionsOf, SessionsWith
  <2> QED BY <1>1, <2>1
<1>3. Cardinality(DOMAIN sessions) = 0 /\ IsFiniteSet(DOMAIN sessions)
  BY <1>1
<1> QED BY <1>2, <1>3, RouterConstants DEF LimitsInv, WithinLimits

\* A step after which no agent and no browser has a session it had not
LEMMA FewerInLimits ==
    ASSUME LimitsInv, DOMAIN sessions' \subseteq DOMAIN sessions,
           \A x : SessionsOf(x)' \subseteq SessionsOf(x) /\ SessionsWith(x)' \subseteq SessionsWith(x)
    PROVE  LimitsInv'
<1>1. \A x : SessionsOf(x) \subseteq DOMAIN sessions /\ SessionsWith(x) \subseteq DOMAIN sessions
  BY DEF SessionsOf, SessionsWith
<1>2. \A S, T : IsFiniteSet(T) /\ S \subseteq T =>
          IsFiniteSet(S) /\ Cardinality(S) \in Nat /\ Cardinality(T) \in Nat
            /\ Cardinality(S) <= Cardinality(T)
  BY FS_Subset, FS_CardinalityType
<1>3. IsFiniteSet(DOMAIN sessions') /\ Cardinality(DOMAIN sessions') <= MaxSessions
  BY <1>2, RouterConstants DEF LimitsInv, WithinLimits
<1>4. ASSUME NEW a \in AgentIds PROVE Cardinality(SessionsOf(a)') <= MaxSessionsPerAgent
  <2>1. IsFiniteSet(SessionsOf(a)) /\ Cardinality(SessionsOf(a)) <= MaxSessionsPerAgent
    BY <1>1, <1>2 DEF LimitsInv, WithinLimits
  <2> QED BY <2>1, <1>2, RouterConstants
<1>5. ASSUME NEW b \in Browsers PROVE Cardinality(SessionsWith(b)') <= MaxSessionsPerBrowser
  <2>1. IsFiniteSet(SessionsWith(b)) /\ Cardinality(SessionsWith(b)) <= MaxSessionsPerBrowser
    BY <1>1, <1>2 DEF LimitsInv, WithinLimits
  <2> QED BY <2>1, <1>2, RouterConstants
<1> QED BY <1>3, <1>4, <1>5 DEF LimitsInv, WithinLimits

LEMMA CreatedSessions ==
    ASSUME RoutingInv, NEW b \in Browsers, NEW a \in AgentIds, NEW s \in Sessions,
           PtyCreate(b, a, s)
    PROVE  /\ s \notin DOMAIN sessions
           /\ DOMAIN sessions' = DOMAIN sessions \union {s}
           /\ sessions'[s].agentId = a /\ sessions'[s].browserIds = {b}
           /\ \A x \in DOMAIN sessions : sessions'[x] = sessions[x]
BY DEF PtyCreate, FreshSession, With, RoutingInv

LEMMA CreateInLimits ==
    ASSUME RoutingInv, LimitsInv, NEW b \in Browsers, NEW a \in AgentIds, NEW s \in Sessions,
           PtyCreate(b, a, s)
    PROVE  LimitsInv'
<1>0. /\ s \notin DOMAIN sessions
      /\ DOMAIN sessions' = DOMAIN sessions \union {s}
      /\ sessions'[s].agentId = a /\ sessions'[s].browserIds = {b}
      /\ \A x \in DOMAIN sessions : sessions'[x] = sessions[x]
  BY CreatedSessions
<1>1. /\ SessionsOf(a)' = SessionsOf(a) \union {s}
      /\ \A x : x # a => SessionsOf(x)' = SessionsOf(x)
  BY <1>0 DEF SessionsOf
<1>2. /\ SessionsWith(b)' = SessionsWith(b) \union {s}
      /\ \A x : x # b => SessionsWith(x)' = SessionsWith(x)
  BY <1>0 DEF SessionsWith
<1>3. \A S : IsFiniteSet(S) /\ s \notin S =>
          IsFiniteSet(S \union {s}) /\ Cardinality(S) \in Nat
            /\ Cardinality(S \union {s}) = Cardinality(S) + 1
  BY FS_AddElement, FS_CardinalityType
<1>4. /\ IsFiniteSet(SessionsOf(a)) /\ IsFiniteSet(SessionsWith(b)) /\ IsFiniteSet(DOMAIN sessions)
      /\ s \notin SessionsOf(a) /\ s \notin SessionsWith(b) /\ s \notin DOMAIN sessions
  BY <1>0, FS_Subset DEF SessionsOf, SessionsWith, LimitsInv
<1>5. /\ Cardinality(DOMAIN sessions) < MaxSessions
      /\ Cardinality(SessionsOf(a)) < MaxSessionsPerAgent
      /\ Cardinality(SessionsWith(b)) < MaxSessionsPerBrowser
  BY DEF PtyCreate, MayCreate
<1>6. /\ IsFiniteSet(DOMAIN sessions') /\ Cardinality(DOMAIN sessions') <= MaxSessions
      /\ Cardinality(SessionsOf(a)') <= MaxSessionsPerAgent
      /\ Cardinality(SessionsWith(b)') <= MaxSessionsPerBrowser
  BY <1>0, <1>1, <1>2, <1>3, <1>4, <1>5, RouterConstants
<1> QED BY <1>1, <1>2, <1>6 DEF LimitsInv, WithinLimits

LEMMA LimitsInvNext ==
    TypeOK /\ HubInv /\ RoutingInv /\ LimitsInv /\ [Next]_vars => LimitsInv'
<1> SUFFICES ASSUME TypeOK, HubInv, RoutingInv, LimitsInv, [Next]_vars PROVE LimitsInv'
  OBVIOUS
<1>1. CASE SameRouting
  BY <1>1, FewerInLimits DEF SameRouting, SessionsOf, SessionsWith
<1>2. CASE Ends
  BY <1>2, FewerInLimits DEF Ends, EndedRouting, SessionsOf, SessionsWith
<1>3. CASE Creates
  BY <1>3, CreateInLimits DEF Creates
<1> QED BY <1>1, <1>2, <1>3, StepKinds

\* The limits of pty.create hold in every reachable state.
THEOREM LimitsCorrect == Spec => []WithinLimits
<1>1. Spec => []LimitsInv
  BY SpecInv, LimitsInvInit, LimitsInvNext, PTL DEF Spec
<1> QED BY <1>1, PTL DEF LimitsInv

-----------------------------------------------------------------------------
(***************************************************************************)
(* Refinement                                                              *)
(***************************************************************************)

\* The ledger's variables
LiveBar  == [s \in DOMAIN sessions |-> EndsOf(s)]
EndedBar == issued \ DOMAIN sessions

LEMMA LedgerInit == Init => Ledger!Init
BY DEF Init, Ledger!Init

\* A mapping kept as it is keeps its two ends in the ledger
LEMMA SameEndsOf ==
    ASSUME RoutingInv, RoutingInv', NEW s \in DOMAIN sessions, s \in DOMAIN sessions',
           sessions'[s].agentId = sessions[s].agentId,
           sessions'[s].browserIds = sessions[s].browserIds
    PROVE  EndsOf(s)' = EndsOf(s)
<1>1. /\ \E b \in DOMAIN browsers : sessions[s].browserIds = {b}
      /\ \E b \in DOMAIN browsers' : sessions'[s].browserIds = {b}
  BY DEF RoutingInv, SessionsHaveBothEnds
<1>2. TheBrowser(s) \in DOMAIN browsers /\ TheBrowser(s) \in sessions[s].browserIds
  BY <1>1 DEF TheBrowser
<1>3. TheBrowser(s)' \in DOMAIN browsers' /\ TheBrowser(s)' \in sessions'[s].browserIds
  BY <1>1 DEF TheBrowser
<1>4. TheBrowser(s)' = TheBrowser(s)
  BY <1>1, <1>2, <1>3
<1> QED BY <1>4 DEF EndsOf

LEMMA BrowserOf ==
    ASSUME RoutingInv, NEW s \in DOMAIN sessions, NEW b
    PROVE  TheBrowser(s) = b <=> b \in sessions[s].browserIds
<1>1. PICK d \in DOMAIN browsers : sessions[s].browserIds = {d}
  BY DEF RoutingInv, SessionsHaveBothEnds
<1>2. TheBrowser(s) = d
  BY <1>1 DEF TheBrowser
<1> QED BY <1>1, <1>2

LEMMA SameInLedger ==
    ASSUME RoutingInv, RoutingInv', SameRouting PROVE UNCHANGED <<LiveBar, EndedBar>>
<1>1. DOMAIN sessions' = DOMAIN sessions /\ issued' = issued
  BY DEF SameRouting
<1>2. \A s \in DOMAIN sessions : EndsOf(s)' = EndsOf(s)
  BY <1>1, SameEndsOf DEF SameRouting
<1> QED BY <1>1, <1>2 DEF LiveBar, EndedBar

LEMMA EndInLedger ==
    ASSUME RoutingInv, RoutingInv', NEW ss \in SUBSET DOMAIN sessions, EndedRouting(ss)
    PROVE  Ledger!End(ss)
<1>1. DOMAIN sessions' = DOMAIN sessions \ ss /\ issued' = issued
  BY DEF EndedRouting
<1>2. \A s \in DOMAIN sessions' : EndsOf(s)' = EndsOf(s)
  BY <1>1, SameEndsOf DEF EndedRouting
<1>3. LiveBar' = Restrict(LiveBar, DOMAIN LiveBar \ ss)
  BY <1>1, <1>2 DEF LiveBar, Restrict
<1>4. EndedBar' = EndedBar \union ss
  BY <1>1 DEF EndedBar, RoutingInv
<1> QED BY <1>3, <1>4 DEF Ledger!End, Ledger!Restrict, Restrict, LiveBar, EndedBar

LEMMA OpenInLedger ==
    ASSUME RoutingInv, RoutingInv', NEW b \in Browsers, NEW a \in AgentIds, NEW s \in Sessions,
           PtyCreate(b, a, s)
    PROVE  Ledger!Open(s, a, b)
<1>0. /\ s \notin DOMAIN sessions /\ s \notin issued
      /\ DOMAIN sessions' = DOMAIN sessions \union {s}
      /\ sessions'[s].agentId = a /\ sessions'[s].browserIds = {b}
      /\ \A x \in DOMAIN sessions : sessions'[x] = sessions[x]
      /\ issued' = issued \union {s}
  BY CreatedSessions DEF PtyCreate, FreshSession
<1>1. DOMAIN LiveBar = DOMAIN sessions
  BY DEF LiveBar
<1>2. {x \in DOMAIN LiveBar : LiveBar[x].agent = a} = SessionsOf(a)
  BY DEF LiveBar, EndsOf, SessionsOf
<1>3. {x \in DOMAIN LiveBar : LiveBar[x].browser = b} = SessionsWith(b)
  <2>1. \A x \in DOMAIN sessions : TheBrowser(x) = b <=> b \in sessions[x].browserIds
    BY BrowserOf
  <2> QED BY <2>1 DEF LiveBar, EndsOf, SessionsWith
<1>4. EndsOf(s)' = [agent |-> a, browser |-> b]
  <2>1. \E d \in DOMAIN browsers' : sessions'[s].browserIds = {d}
    BY <1>0 DEF RoutingInv, SessionsHaveBothEnds
  <2>2. TheBrowser(s)' = b
    BY <1>0, <2>1 DEF TheBrowser
  <2> QED BY <1>0, <2>2 DEF EndsOf
<1>5. \A x \in DOMAIN sessions : EndsOf(x)' = EndsOf(x)
  BY <1>0, SameEndsOf
<1>6. LiveBar' = [x \in DOMAIN LiveBar \union {s} |->
                    IF x = s THEN [agent |-> a, browser |-> b] ELSE LiveBar[x]]
  BY <1>0, <1>4, <1>5 DEF LiveBar
<1>7. EndedBar' = EndedBar /\ s \notin DOMAIN LiveBar \union EndedBar
  BY <1>0, <1>1 DEF EndedBar
<1>8. /\ Cardinality(DOMAIN sessions) < MaxSessions
      /\ Cardinality(SessionsOf(a)) < MaxSessionsPerAgent
      /\ Cardinality(SessionsWith(b)) < MaxSessionsPerBrowser
  BY DEF PtyCreate, MayCreate
<1>9. /\ s \notin DOMAIN LiveBar \union EndedBar
      /\ Cardinality(DOMAIN LiveBar) < MaxSessions
      /\ Cardinality({x \in DOMAIN LiveBar : LiveBar[x].agent = a}) < MaxSessionsPerAgent
      /\ Cardinality({x \in DOMAIN LiveBar : LiveBar[x].browser = b}) < MaxSessionsPerBrowser
  BY <1>1, <1>2, <1>3, <1>7, <1>8
<1>10. \A S : Ledger!Cardinality(S) = Cardinality(S)
  BY DEF Ledger!Cardinality, Cardinality
<1> QED
  BY <1>6, <1>7, <1>9, <1>10 DEF Ledger!Open, Ledger!AtAgent, Ledger!AtBrowser, LiveBar, EndedBar

LEMMA LedgerStep ==
    ASSUME TypeOK, HubInv, RoutingInv, [Next]_vars
    PROVE  [Ledger!Next]_<<[s \in DOMAIN sessions |-> EndsOf(s)], issued \ DOMAIN sessions>>
<1>0. RoutingInv'
  BY RoutingInvNext
<1>1. CASE SameRouting
  BY <1>0, <1>1, SameInLedger DEF LiveBar, EndedBar
<1>2. CASE Ends
  <2>1. PICK ss \in SUBSET DOMAIN sessions : EndedRouting(ss)
    BY <1>2 DEF Ends
  <2>2. Ledger!End(ss)
    BY <1>0, <2>1, EndInLedger
  <2>3. ss \in SUBSET DOMAIN [s \in DOMAIN sessions |-> EndsOf(s)]
    OBVIOUS
  <2> QED BY <2>2, <2>3 DEF Ledger!Next
<1>3. CASE Creates
  <2>1. PICK b \in Browsers, a \in AgentIds, s \in Sessions : PtyCreate(b, a, s)
    BY <1>3 DEF Creates
  <2>2. Ledger!Open(s, a, b)
    BY <1>0, <2>1, OpenInLedger
  <2> QED BY <2>2 DEF Ledger!Next
<1> QED BY <1>1, <1>2, <1>3, StepKinds

\* The router implements the session ledger: whatever happens to the sockets at
\* its ends, a session keeps them, ends once and its id is not used again.
THEOREM RefinesLedger == Spec => ImplementsLedger
BY SpecInv, LedgerInit, LedgerStep, PTL DEF Spec, ImplementsLedger, Ledger!Spec
=============================================================================
