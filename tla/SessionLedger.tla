--------------------------- MODULE SessionLedger ---------------------------
(***************************************************************************)
(* What the relay promises about PTY sessions, without sockets, hubs or    *)
(* subscriptions: a session id is used once; while it is live it joins one *)
(* agent and one browser, the same ones throughout; when it has ended it   *)
(* stays so; and no more sessions are live than the limits allow.          *)
(***************************************************************************)
EXTENDS Naturals, FiniteSets, Functions

CONSTANTS Sessions, AgentIds, Browsers,
          MaxSessions, MaxSessionsPerAgent, MaxSessionsPerBrowser

VARIABLES
    live,           \* the live sessions, each with its two ends
    ended           \* the sessions that are over

Init == live = [s \in {} |-> s] /\ ended = {}

AtAgent(a)   == {s \in DOMAIN live : live[s].agent = a}
AtBrowser(b) == {s \in DOMAIN live : live[s].browser = b}

Open(s, a, b) ==
    /\ s \notin DOMAIN live \union ended
    /\ Cardinality(DOMAIN live) < MaxSessions
    /\ Cardinality(AtAgent(a)) < MaxSessionsPerAgent
    /\ Cardinality(AtBrowser(b)) < MaxSessionsPerBrowser
    /\ live' = [x \in DOMAIN live \union {s} |->
                  IF x = s THEN [agent |-> a, browser |-> b] ELSE live[x]]
    /\ UNCHANGED ended

\* Several sessions can end at once: a socket closes, the sweep, a restart.
End(ss) ==
    /\ live' = Restrict(live, DOMAIN live \ ss)
    /\ ended' = ended \union ss

Next ==
    \/ \E s \in Sessions, a \in AgentIds, b \in Browsers : Open(s, a, b)
    \/ \E ss \in SUBSET DOMAIN live : End(ss)

Spec == Init /\ [][Next]_<<live, ended>>
=============================================================================
