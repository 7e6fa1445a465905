------------------------------ MODULE SocketHook ------------------------------
(***************************************************************************)
(* useWebSocket (packages/web/src/hooks/useWebSocket.ts): the WebSocket of *)
(* the app, which is opened when the app is shown, at a login, closed when *)
(* it is not, at a logout, and opened again 3 s after it was lost.  Each   *)
(* showing is a new instance of the component, with refs of its own that   *)
(* the callbacks of its sockets keep; the close event of a socket comes    *)
(* some time after close() was called.                                     *)
(***************************************************************************)
EXTENDS Naturals, FiniteSets

CONSTANT MaxSockets     \* bound of the model: sockets made

VARIABLES
    sockets,        \* the readyState of each socket made
    first,          \* the first socket of this instance
    wsRef,          \* the last socket made, 0 before the first
    mounted,
    timers,         \* reconnections waiting, by the socket whose close they follow
    timerRef,       \* reconnectTimerRef
    pings,          \* the sockets whose ping interval runs
    connected       \* what the app is told

vars == <<sockets, first, wsRef, mounted, timers, timerRef, pings, connected>>

States == {"CONNECTING", "OPEN", "CLOSING", "CLOSED"}

TypeOK ==
    /\ wsRef \in 0..MaxSockets /\ sockets \in [1..wsRef -> States] /\ first \in 0..wsRef
    /\ timers \subseteq 1..wsRef /\ timerRef \in 0..wsRef /\ pings \subseteq 1..wsRef
    /\ {mounted, connected} \subseteq BOOLEAN

Init ==
    /\ sockets = <<>> /\ first = 0 /\ wsRef = 0 /\ mounted = FALSE
    /\ timers = {} /\ timerRef = 0 /\ pings = {} /\ connected = FALSE

Connect ==
    /\ wsRef < MaxSockets
    /\ wsRef' = wsRef + 1
    /\ sockets' = [s \in 1..wsRef' |-> IF s = wsRef' THEN "CONNECTING" ELSE sockets[s]]

Mount ==
    /\ ~mounted /\ mounted' = TRUE
    /\ Connect
    /\ first' = wsRef' /\ timerRef' = 0 /\ connected' = FALSE
    /\ UNCHANGED <<timers, pings>>

BugLeaveTimer == UNCHANGED timers           \* no clearTimeout
ClearReconnect == timers' = timers \ {timerRef}

Unmount ==
    /\ mounted /\ mounted' = FALSE          \* intentionalCloseRef is set
    /\ ClearReconnect
    /\ pings' = {}
    /\ sockets' = [sockets EXCEPT ![wsRef] = IF @ = "CLOSED" THEN @ ELSE "CLOSING"]
    /\ UNCHANGED <<first, wsRef, timerRef, connected>>

\* The interval is kept in one ref of the instance
OnOpen(s) ==
    /\ sockets[s] = "CONNECTING"
    /\ sockets' = [sockets EXCEPT ![s] = "OPEN"]
    /\ connected' = TRUE /\ pings' = {s}
    /\ UNCHANGED <<first, wsRef, mounted, timers, timerRef>>

\* What is not this instance's, or not mounted, sees intentionalCloseRef set
OfThisApp(s) == mounted /\ s >= first

OnClose(s) ==
    /\ sockets[s] # "CLOSED"
    /\ sockets' = [sockets EXCEPT ![s] = "CLOSED"]
    /\ IF OfThisApp(s)
       THEN connected' = FALSE /\ pings' = {} /\ timers' = timers \union {s} /\ timerRef' = s
       ELSE UNCHANGED <<timers, timerRef, pings, connected>>
    /\ UNCHANGED <<first, wsRef, mounted>>

Reconnect(s) ==
    /\ s \in timers /\ timers' = timers \ {s}
    /\ Connect
    /\ UNCHANGED <<first, mounted, timerRef, pings, connected>>

Next ==
    \/ Mount \/ Unmount
    \/ \E s \in DOMAIN sockets : OnOpen(s) \/ OnClose(s) \/ Reconnect(s)

Spec == Init /\ [][Next]_vars

-----------------------------------------------------------------------------
\* Whatever the order of logouts, logins, closes and reconnections: while the app
\* is shown there is one socket alive or one to come, and none otherwise; what the
\* app is told, and the ping loop, are those of that socket.
Alive == {s \in DOMAIN sockets : sockets[s] \in {"CONNECTING", "OPEN"}}
OneSocket ==
    /\ Cardinality(Alive) + Cardinality(timers) = IF mounted THEN 1 ELSE 0
    /\ mounted => /\ connected <=> sockets[wsRef] = "OPEN"
                  /\ pings = IF connected THEN {wsRef} ELSE {}

-----------------------------------------------------------------------------
\* The inductive invariant

Shapes ==
    /\ wsRef \in Nat /\ first \in 0..wsRef
    /\ sockets = [s \in 1..wsRef |-> sockets[s]]
    /\ mounted \in BOOLEAN /\ connected \in BOOLEAN

IsAlive(s) == sockets[s] \in {"CONNECTING", "OPEN"}

\* Only the last socket is alive; the others of this instance are closed, so that
\* no close event of theirs is to come.
Older ==
    \A s \in 1..wsRef : s # wsRef => /\ ~IsAlive(s)
                                     /\ mounted /\ s >= first => sockets[s] = "CLOSED"

\* The timer that runs is the one that an unmount clears
Current ==
    IF mounted
    THEN /\ first > 0
         /\ \/ IsAlive(wsRef) /\ timers = {}
            \/ sockets[wsRef] = "CLOSED" /\ timers = {wsRef} /\ timerRef = wsRef
         /\ connected <=> sockets[wsRef] = "OPEN"
         /\ pings = IF connected THEN {wsRef} ELSE {}
    ELSE timers = {} /\ pings = {} /\ (wsRef > 0 => ~IsAlive(wsRef))

HookInv == Shapes /\ Older /\ Current
=============================================================================
