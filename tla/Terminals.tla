----------------------------- MODULE Terminals -----------------------------
(***************************************************************************)
(* The terminal tabs of one browser for one agent, over the agent store    *)
(* and the WebSocket they share (packages/web/src: TerminalTabs.tsx,       *)
(* useAgentStore.ts, App.tsx), with the relay that serves them             *)
(* (router.ts, GET /api/agents).  Sessions reach the tabs by two ways that *)
(* overtake each other: messages on the WebSocket, in order, and lists     *)
(* fetched by REST, in any order.  React applies an update before the next *)
(* event; the split view is in TabLayout.                                  *)
(***************************************************************************)
EXTENDS Naturals, Sequences, FiniteSets, Functions, SequencesExt

CONSTANTS
    Reqs,           \* clientReqIds, numbered in the order they are made
    Fetches,        \* GET /api/agents that may be under way at once
    Idle, Asked,    \* a fetch that is not under way, one not yet served
    Nothing,        \* the value of what is not there
    MaxFaults       \* bound of the model: agents that come, go or are deleted,
                    \* WebSockets that break, fetches that fail

ASSUME TerminalsConstants ==
    /\ IsFiniteSet(Reqs) /\ Reqs = 1..Cardinality(Reqs)
    /\ MaxFaults \in Nat

VARIABLES
    \* the relay
    status,         \* the agent: its row and its entry in the agents Map
    live,           \* agent.sessions
    made,           \* history: the request of each session id handed out
    asked,          \* pty.create forwarded, in order, not yet answered
    \* between the two
    conn,           \* the WebSocket is open
    up, down,       \* messages on it
    fetches,        \* what each GET /api/agents under way has come to
    \* the browser
    store,          \* useAgentStore: the agent's entry
    mounted,        \* App shows a TerminalTabs for the agent, or will when
                    \* it renders next (mountedAgentIdsRef)
    tabs,           \* sessions: the tabs in order
    requested,      \* clientReqIds used
    pending,        \* pendingKeyPairsRef: requests whose key pair is kept
    paired,         \* sessionKeyPairsRef: session -> request the pair was made for
    faults

relay   == <<status, live, made, asked>>
browser == <<store, mounted, tabs, requested, pending, paired>>
vars    == <<relay, conn, up, down, fetches, browser, faults>>

Sids == Reqs
Listing == [status : {"absent", "offline", "online"}, sessions : SUBSET Sids]
Tab == [sessionId : Sids, exited : BOOLEAN, isExisting : BOOLEAN]
Message == [type : {"pty.created", "pty.exited", "pty.create.error", "agent.online", "agent.offline"},
            sid : Sids \union {Nothing}, req : Reqs \union {Nothing}]

TypeOK ==
    /\ status \in {"absent", "offline", "online"} /\ live \subseteq DOMAIN made
    /\ made \in Seq(Reqs) /\ asked \in Seq(live)
    /\ conn \in BOOLEAN /\ up \in Seq(Reqs) /\ down \in Seq(Message)
    /\ fetches \in [Fetches -> Listing \union {Idle, Asked}]
    /\ store \in Listing /\ mounted \in {"no", "next", "yes"} /\ tabs \in Seq(Tab)
    /\ requested \in 0..Cardinality(Reqs) /\ pending \subseteq 1..requested
    /\ DOMAIN paired \subseteq Sids /\ paired \in [DOMAIN paired -> Reqs]

Unlisted == [status |-> "absent", sessions |-> {}]

Init ==
    /\ status \in {"absent", "offline", "online"} /\ live = {} /\ made = <<>> /\ asked = <<>>
    /\ conn = FALSE /\ up = <<>> /\ down = <<>>
    /\ fetches = [f \in Fetches |-> Idle]
    /\ store = Unlisted /\ mounted = "no" /\ tabs = <<>>
    /\ requested = 0 /\ pending = {} /\ paired = [s \in {} |-> s]
    /\ faults = 0

-----------------------------------------------------------------------------
\* The relay and the agent

Fault == faults < MaxFaults /\ faults' = faults + 1

Tell(type, sid, req) ==
    down' = IF conn THEN Append(down, [type |-> type, sid |-> sid, req |-> req]) ELSE down

\* pty.create: the relay numbers the session and lists it before the agent has
\* heard of it; or it refuses (no agent, a limit, a bad shell or directory)
RelayCreates ==
    /\ up # <<>> /\ up' = Tail(up)
    /\ \/ /\ status = "online"
          /\ made' = Append(made, Head(up))
          /\ live' = live \union {Len(made')}
          /\ asked' = Append(asked, Len(made'))
          /\ UNCHANGED down
       \/ /\ Tell("pty.create.error", Nothing, Head(up))
          /\ UNCHANGED <<made, live, asked>>
    /\ UNCHANGED <<status, conn, fetches, browser, faults>>

\* readLoop creates one shell after the other
AgentAnswers ==
    /\ asked # <<>> /\ asked' = Tail(asked)
    /\ LET s == Head(asked) IN
       \/ Tell("pty.created", s, made[s]) /\ UNCHANGED live
       \/ Tell("pty.create.error", Nothing, made[s]) /\ live' = live \ {s}
    /\ UNCHANGED <<status, made, conn, up, fetches, browser, faults>>

\* By itself, or because of pty.close, which the relay only forwards
AgentExits(s) ==
    /\ s \in live \ ToSet(asked)
    /\ live' = live \ {s}
    /\ Tell("pty.exited", s, Nothing)
    /\ UNCHANGED <<status, made, asked, conn, up, fetches, browser, faults>>

BugStillAsked == live' = {} /\ UNCHANGED asked   \* answers of dead sessions are passed on
SessionsGone == live' = {} /\ asked' = <<>>

AgentComesOnline ==
    /\ status # "online"
    /\ status' = "online" /\ Fault
    /\ Tell("agent.online", Nothing, Nothing)
    /\ UNCHANGED <<live, made, asked, conn, up, fetches, browser>>

AgentGoesOffline ==
    /\ status = "online"
    /\ status' = "offline" /\ Fault
    /\ SessionsGone
    /\ Tell("agent.offline", Nothing, Nothing)
    /\ UNCHANGED <<made, conn, up, fetches, browser>>

\* App offers to delete an agent that is offline; nobody is told
AgentDeleted ==
    /\ status = "offline"
    /\ status' = "absent" /\ Fault
    /\ UNCHANGED <<live, made, asked, conn, up, down, fetches, browser>>

\* handleBrowserDisconnect destroys the sessions, whose only browser this is
ConnectionDrops ==
    /\ conn
    /\ conn' = FALSE /\ Fault
    /\ up' = <<>> /\ down' = <<>> /\ SessionsGone
    /\ UNCHANGED <<status, made, fetches, browser>>

\* useWebSocket, at first and 3 s after a close
Connect ==
    /\ ~conn /\ conn' = TRUE
    /\ UNCHANGED <<relay, up, down, fetches, browser, faults>>

ServeList(f) ==
    /\ fetches[f] = Asked
    /\ fetches' = [fetches EXCEPT ![f] = [status |-> status, sessions |-> live]]
    /\ UNCHANGED <<relay, conn, up, down, browser, faults>>

-----------------------------------------------------------------------------
\* The browser

FetchAgents(f) == fetches[f] = Idle /\ fetches' = [fetches EXCEPT ![f] = Asked]

BugFetchOnce(f) == store = Unlisted /\ FetchAgents(f)   \* no interval
Refresh(f) == FetchAgents(f)

\* On mount and every 10 s
PollAgents(f) ==
    /\ Refresh(f)
    /\ UNCHANGED <<relay, conn, up, down, browser, faults>>

FetchFails(f) ==
    /\ fetches[f] # Idle
    /\ fetches' = [fetches EXCEPT ![f] = Idle] /\ Fault
    /\ UNCHANGED <<relay, conn, up, down, browser>>

NewTab(s, existing) == [sessionId |-> s, exited |-> FALSE, isExisting |-> existing]
HasTab(s) == \E i \in DOMAIN tabs : tabs[i].sessionId = s

InOrder(ss) ==
    CHOOSE q \in [1..Cardinality(ss) -> ss] : \A i, j \in DOMAIN q : i < j => q[i] < q[j]

BugShowAll(ss) == InOrder(ss)               \* currentIds is not asked
Unshown(ss) == InOrder({s \in ss : ~HasTab(s)})

ShowExisting(ss) == [i \in DOMAIN Unshown(ss) |-> NewTab(Unshown(ss)[i], TRUE)]

\* The agents change: App prunes or mounts the terminals of the agent, and the
\* effect of TerminalTabs on existingSessions adds what it does not show
AgentsChange(l) ==
    /\ store' = l
    /\ IF l.status = "absent"
       THEN /\ mounted' = "no" /\ tabs' = <<>>
            /\ pending' = {} /\ paired' = [s \in {} |-> s]
       ELSE /\ mounted' = IF mounted = "no" /\ l.status = "online" THEN "next" ELSE mounted
            /\ tabs' = IF mounted = "yes" THEN tabs \o ShowExisting(l.sessions) ELSE tabs
            /\ UNCHANGED <<pending, paired>>
    /\ UNCHANGED requested

ListArrives(f) ==
    /\ fetches[f] \notin {Idle, Asked}
    /\ AgentsChange(fetches[f])
    /\ fetches' = [fetches EXCEPT ![f] = Idle]
    /\ UNCHANGED <<relay, conn, up, down, faults>>

\* The key pair is kept before the request is sent; send drops what it cannot send
CreateSession ==
    /\ requested < Cardinality(Reqs)
    /\ requested' = requested + 1
    /\ pending' = pending \union {requested'}
    /\ up' = IF conn THEN Append(up, requested') ELSE up

MountTabs ==
    /\ mounted = "next" /\ mounted' = "yes"
    /\ \/ store.sessions # {} /\ tabs' = ShowExisting(store.sessions)
          /\ UNCHANGED <<requested, pending, up>>
       \/ store.sessions = {} /\ CreateSession /\ UNCHANGED tabs
    /\ UNCHANGED <<relay, conn, down, fetches, store, paired, faults>>

\* NewTerminalDialog
NewTerminal ==
    /\ mounted = "yes" /\ store.status = "online" /\ conn
    /\ CreateSession
    /\ UNCHANGED <<relay, conn, down, fetches, store, mounted, tabs, paired, faults>>

\* 30 s after the request
KeyPairDropped(r) ==
    /\ r \in pending /\ pending' = pending \ {r}
    /\ UNCHANGED <<relay, conn, up, down, fetches, store, mounted, tabs, requested, paired, faults>>

\* Whether or not it sends pty.close, which makes AgentExits happen
CloseTab(i) ==
    /\ mounted = "yes" /\ i \in DOMAIN tabs
    /\ tabs' = RemoveAt(tabs, i)
    /\ paired' = Restrict(paired, DOMAIN paired \ {tabs[i].sessionId})
    /\ UNCHANGED <<relay, conn, up, down, fetches, store, mounted, requested, pending, faults>>

Next1(type) == conn /\ down # <<>> /\ Head(down).type = type /\ down' = Tail(down)

\* The comment in the code tells of the queue of key pairs it once was
BugFirstPair(r) == {q \in pending : \A p \in pending : q <= p}
PairOf(r) == pending \intersect {r}

OnCreated ==
    /\ Next1("pty.created")
    /\ LET s == Head(down).sid
           pair == PairOf(Head(down).req)
       IN IF mounted = "yes"
          THEN /\ pending' = pending \ pair
               /\ paired' = [x \in DOMAIN paired \union {s : p \in pair} |->
                               IF x = s /\ pair # {} THEN CHOOSE p \in pair : TRUE ELSE paired[x]]
               /\ tabs' = IF HasTab(s) THEN tabs ELSE Append(tabs, NewTab(s, FALSE))
          ELSE UNCHANGED <<pending, paired, tabs>>
    /\ UNCHANGED <<relay, conn, up, fetches, store, mounted, requested, faults>>

MarkExited(ss) ==
    tabs' = [i \in DOMAIN tabs |-> [tabs[i] EXCEPT !.exited = @ \/ tabs[i].sessionId \in ss]]

OnExited ==
    /\ Next1("pty.exited")
    /\ MarkExited({Head(down).sid})
    /\ UNCHANGED <<relay, conn, up, fetches, store, mounted, requested, pending, paired, faults>>

OnCreateError ==
    /\ Next1("pty.create.error")
    /\ pending' = pending \ {Head(down).req}
    /\ UNCHANGED <<relay, conn, up, fetches, store, mounted, tabs, requested, paired, faults>>

\* An agent the store does not know is fetched, if React has run the state
\* updater that finds it out before the next statement asks; of one it knows the
\* sessions stay as they are until the next list
OnOnline ==
    /\ Next1("agent.online")
    /\ \/ /\ store.status = "absent"
          /\ UNCHANGED fetches \/ \E f \in Fetches : FetchAgents(f)
          /\ UNCHANGED <<store, mounted>>
       \/ /\ store.status # "absent"
          /\ store' = [store EXCEPT !.status = "online"]
          /\ mounted' = IF mounted = "no" THEN "next" ELSE mounted
          /\ UNCHANGED fetches
    /\ UNCHANGED <<relay, conn, up, tabs, requested, pending, paired, faults>>

OnOffline ==
    /\ Next1("agent.offline")
    /\ MarkExited(Sids)
    /\ \E f \in Fetches : FetchAgents(f)
    /\ UNCHANGED <<relay, conn, up, store, mounted, requested, pending, paired, faults>>

Relay ==
    \/ RelayCreates \/ AgentAnswers \/ \E s \in live : AgentExits(s)
    \/ AgentComesOnline \/ AgentGoesOffline \/ AgentDeleted
    \/ ConnectionDrops \/ Connect
    \/ \E f \in Fetches : ServeList(f) \/ FetchFails(f)

Browser ==
    \/ \E f \in Fetches : PollAgents(f) \/ ListArrives(f)
    \/ MountTabs \/ NewTerminal \/ \E r \in pending : KeyPairDropped(r)
    \/ \E i \in DOMAIN tabs : CloseTab(i)
    \/ OnCreated \/ OnExited \/ OnCreateError \/ OnOnline \/ OnOffline

Next == Relay \/ Browser
Spec == Init /\ [][Next]_vars

\* Messages and lists arrive, the timers of the interval and of the
\* reconnection fire; agents and users do as they like
Fairness ==
    /\ WF_vars(Connect)
    /\ WF_vars(OnCreated \/ OnExited \/ OnCreateError \/ OnOnline \/ OnOffline)
    /\ \A f \in Fetches : WF_vars(PollAgents(f)) /\ WF_vars(ServeList(f)) /\ WF_vars(ListArrives(f))
FairSpec == Spec /\ Fairness

-----------------------------------------------------------------------------
\* Properties

\* The key pair a session is opened with is the one its own request was made
\* with, although requests fail, time out and are answered out of their order
\* and their answers may find a tab there already.
KeysMatch == \A s \in DOMAIN paired : paired[s] = made[s]

\* A session learnt from pty.created and from lists, old or new, has one tab.
OneTabEach == IsInjective([i \in DOMAIN tabs |-> tabs[i].sessionId])

\* Lists overtake each other and messages are lost while the WebSocket is down;
\* once nothing happens to the agent any more the store comes to agree with it.
StoreCatchesUp == <>[](store = [status |-> status, sessions |-> live])

\* "pty.created is processed by TerminalTabs before TerminalView mounts"
\* (TerminalView.tsx): a terminal whose key pair is there was not mounted as an
\* existing session, which never does the key exchange.
CreatedBeforeMounted ==
    \A i \in DOMAIN tabs : tabs[i].sessionId \in DOMAIN paired => ~tabs[i].isExisting
=============================================================================
