----------------------------- MODULE BrowserHub -----------------------------
(***************************************************************************)
(* The relay's side of its browser WebSockets (packages/relay/src/         *)
(* browserHub.ts).  A browser id is in the map exactly while its socket is *)
(* open or closing.  An id no connection holds may be used again.          *)
(***************************************************************************)
EXTENDS AgentHub

CONSTANTS
    Browsers,       \* pool of randomUUID() results used as browser ids
    MaxBrowsers     \* MAX_BROWSER_CONNECTIONS

ASSUME BrowserConstants == MaxBrowsers \in Nat

VARIABLE browsers   \* the browsers Map: browser id -> BrowserConnection

BrowserConnection == [state : {"open", "closing"}, userId : Users,
                      subscribedSessions : SUBSET Sessions]

BrowserTypeOK ==
    /\ DOMAIN browsers \subseteq Browsers
    /\ browsers \in [DOMAIN browsers -> BrowserConnection]

BrowserInit == browsers = [b \in {} |-> b]

OpenBrowsers == {b \in DOMAIN browsers : browsers[b].state = "open"}

\* sendToSessionSubscribers and broadcastToUserBrowsers reach these
BugBroadcast(s) == OpenBrowsers             \* subscriptions are not consulted
Subscribers(s) == {b \in OpenBrowsers : s \in browsers[b].subscribedSessions}
BrowsersOfUser(u) == {b \in OpenBrowsers : browsers[b].userId = u}

\* verifyJWT and the registration happen in one event of the upgrade
RegisterBrowser(b, u) ==
    /\ b \notin DOMAIN browsers
    /\ u \in users
    /\ Cardinality(DOMAIN browsers) < MaxBrowsers
    /\ browsers' = With(browsers, b, [state |-> "open", userId |-> u,
                                      subscribedSessions |-> {}])

ClosingBrowsers(bs) ==
    [b \in DOMAIN browsers |-> IF b \in bs THEN [browsers[b] EXCEPT !.state = "closing"]
                                           ELSE browsers[b]]

BugStaySubscribed(ss) == browsers           \* unsubscribeAll... forgotten

\* unsubscribeAllFromSession for each session of ss
Unsubscribed(ss) ==
    [b \in DOMAIN browsers |-> [browsers[b] EXCEPT !.subscribedSessions = @ \ ss]]

Subscribing(b, s) ==
    [browsers EXCEPT ![b].subscribedSessions = @ \union {s}]
=============================================================================
