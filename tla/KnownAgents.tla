----------------------------- MODULE KnownAgents -----------------------------
(***************************************************************************)
(* Trust on first use: the identity keys that a browser keeps of the       *)
(* agents (packages/web/src: lib/knownAgents.ts, App.tsx,                  *)
(* FingerprintWarning.tsx).  checkAgentIdentity reads the store before the *)
(* await of a digest and writes what it read, changed, after it.           *)
(* Terminals take the key they verify signatures with from the list of     *)
(* agents, whatever is stored here.                                        *)
(***************************************************************************)
EXTENDS FiniteSets

CONSTANTS
    Agents, Keys,
    NoKey           \* no dialog

VARIABLES
    stored,         \* localStorage: agent -> identityKey
    open,           \* the app is loaded
    checked,        \* checkedAgentsRef
    checks,         \* checkAgentIdentity waiting for the digest, with what it loaded
    warning,        \* fingerprintWarning: agent and key, or NoKey
    confirming      \* the dialog asks once more

vars == <<stored, open, checked, checks, warning, confirming>>

Pairs == Agents \X Keys
Stores == UNION {[as -> Keys] : as \in SUBSET Agents}

TypeOK ==
    /\ stored \in Stores /\ open \in BOOLEAN /\ checked \subseteq Pairs
    /\ checks \subseteq [pair : checked, loaded : Stores]
    /\ warning \in Pairs \union {NoKey} /\ confirming \in BOOLEAN
    /\ confirming => warning # NoKey

Init ==
    /\ stored = [a \in {} |-> a] /\ open = FALSE
    /\ checked = {} /\ checks = {} /\ warning = NoKey /\ confirming = FALSE

-----------------------------------------------------------------------------
\* The relay tells of an agent with its key, which differs from the last one if
\* the agent was installed anew.  The app checks each key of an agent once.
AgentOnline(a, k) ==
    /\ open /\ <<a, k>> \notin checked
    /\ checked' = checked \union {<<a, k>>}
    /\ checks' = checks \union {[pair |-> <<a, k>>, loaded |-> stored]}
    /\ UNCHANGED <<stored, open, warning, confirming>>

LoadApp == ~open /\ open' = TRUE /\ UNCHANGED <<stored, checked, checks, warning, confirming>>

LeaveApp ==
    /\ open /\ open' = FALSE
    /\ checked' = {} /\ checks' = {} /\ warning' = NoKey /\ confirming' = FALSE
    /\ UNCHANGED stored

With(loaded, a, k) == [b \in DOMAIN loaded \union {a} |-> IF b = a THEN k ELSE loaded[b]]

BugTrustAll(loaded, p) == TRUE              \* identityKey is not compared
Trusted(loaded, p) == p[1] \notin DOMAIN loaded \/ loaded[p[1]] = p[2]

\* A new agent, a trusted one, or a mismatch, whose warning replaces one that
\* is shown and leaves the dialog in the state it is in
CheckEnds(c) ==
    /\ checks' = checks \ {c}
    /\ IF Trusted(c.loaded, c.pair)
       THEN stored' = With(c.loaded, c.pair[1], c.pair[2]) /\ UNCHANGED warning
       ELSE warning' = c.pair /\ UNCHANGED stored
    /\ UNCHANGED <<open, checked, confirming>>

TrustNewIdentity ==
    /\ warning # NoKey /\ ~confirming /\ confirming' = TRUE
    /\ UNCHANGED <<stored, open, checked, checks, warning>>

AcceptNewIdentity ==
    /\ warning # NoKey /\ confirming
    /\ stored' = With(stored, warning[1], warning[2])
    /\ warning' = NoKey /\ confirming' = FALSE
    /\ UNCHANGED <<open, checked, checks>>

\* "Disconnect" and Escape
RejectFingerprint ==
    /\ warning # NoKey /\ warning' = NoKey /\ confirming' = FALSE
    /\ UNCHANGED <<stored, open, checked, checks>>

Next ==
    \/ \E a \in Agents, k \in Keys : AgentOnline(a, k)
    \/ LoadApp \/ LeaveApp
    \/ \E c \in checks : CheckEnds(c)
    \/ TrustNewIdentity \/ AcceptNewIdentity \/ RejectFingerprint

Spec == Init /\ [][Next]_vars

-----------------------------------------------------------------------------
\* A stored key is replaced or forgotten only when the user accepts another for
\* that agent, or when a check writes back a store it had loaded before the last
\* change of it: checks of several agents that overlap do that.
Stale(c) == c.loaded # stored
KeyKept(a) == a \in DOMAIN stored' /\ stored'[a] = stored[a]
PinsChangeForCause ==
    \A a \in DOMAIN stored :
        \/ KeyKept(a)
        \/ confirming /\ warning[1] = a /\ warning' = NoKey
        \/ \E c \in checks \ checks' : Stale(c)
KeysAreKept == [][PinsChangeForCause]_vars
=============================================================================
