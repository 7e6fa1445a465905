------------------------------- MODULE RateLimit -------------------------------
(***************************************************************************)
(* RateLimitStore (packages/relay/src/rateLimit.ts): requests counted per  *)
(* key, an address or a username, in windows that start with a request.    *)
(* Time is in ticks.                                                       *)
(***************************************************************************)
EXTENDS Naturals, Sequences, FiniteSets, Functions

CONSTANTS
    Clients,        \* keys
    WindowMs, MaxRequests, MaxStoreSize,
    FiveMinutes,
    MaxNow          \* bound of the model: the time it runs

VARIABLES
    now,
    store,          \* key -> entry
    swept,          \* history: when the interval last removed entries
    accepted        \* history: per key, when requests were let through

vars == <<now, store, swept, accepted>>

Entry == [count : Nat, resetAt : Nat]
NoEntries == [k \in {} |-> k]

TypeOK ==
    /\ now \in 0..MaxNow /\ swept \in 0..now
    /\ DOMAIN store \subseteq Clients /\ store \in [DOMAIN store -> Entry]
    /\ Cardinality(DOMAIN store) <= MaxStoreSize
    /\ accepted \in [Clients -> Seq(0..now)]

Init == now = 0 /\ store = NoEntries /\ swept = 0 /\ accepted = [k \in Clients |-> <<>>]

\* Counting goes on when the limit is reached; the bound of the model stops it there
CountedUp(e) == [e EXCEPT !.count = IF @ > MaxRequests THEN @ ELSE @ + 1]

Expired(e) == now > e.resetAt

Opened(k) == [x \in DOMAIN store \union {k} |->
                IF x = k THEN [count |-> 1, resetAt |-> now + WindowMs] ELSE store[x]]

HasRoom == Cardinality(DOMAIN store) < MaxStoreSize

\* A full store refuses a key that opens a window, even one it still holds
Check(k) ==
    /\ IF k \notin DOMAIN store \/ Expired(store[k])
       THEN IF HasRoom
            THEN store' = Opened(k) /\ accepted' = [accepted EXCEPT ![k] = Append(@, now)]
            ELSE UNCHANGED <<store, accepted>>
       ELSE /\ store' = [store EXCEPT ![k] = CountedUp(@)]
            /\ accepted' = IF store'[k].count <= MaxRequests
                           THEN [accepted EXCEPT ![k] = Append(@, now)] ELSE accepted
    /\ UNCHANGED <<now, swept>>

BugSweepAll == store' = NoEntries
Sweep == store' = Restrict(store, {k \in DOMAIN store : ~Expired(store[k])})

IntervalMs == IF WindowMs < FiveMinutes THEN WindowMs ELSE FiveMinutes

\* It fires late, never early
Interval ==
    /\ now - swept >= IntervalMs
    /\ swept' = now /\ Sweep
    /\ UNCHANGED <<now, accepted>>

Tick == now < MaxNow /\ now' = now + 1 /\ UNCHANGED <<store, swept, accepted>>

Next == Interval \/ Tick \/ \E k \in Clients : Check(k)
Spec == Init /\ [][Next]_vars

-----------------------------------------------------------------------------
\* Whenever entries expire or are removed and however requests are spread, no
\* span of a window's length lets more through than two windows do: one that
\* ends in it and one that starts.
RateIsLimited ==
    \A k \in Clients : \A t \in 0..now :
        Cardinality({i \in DOMAIN accepted[k] :
                       t <= accepted[k][i] /\ accepted[k][i] <= t + WindowMs}) <= 2 * MaxRequests
\* Inductive: of two requests let through with 2 * MaxRequests - 1 between them the
\* later is past a window of the earlier.  For that, those before the window of an
\* entry are no later than its start, and those before the MaxRequests last of them
\* are a window earlier; without an entry a new window may start now.
InWindow(k) == IF store[k].count < MaxRequests THEN store[k].count ELSE MaxRequests
SpacedOut(a) ==
    /\ a \in Seq(Nat)
    /\ \A i \in DOMAIN a : a[i] <= now
    /\ \A i, j \in DOMAIN a : i <= j => a[i] <= a[j]
    /\ \A i \in DOMAIN a : i + 2 * MaxRequests \in DOMAIN a => a[i] + WindowMs < a[i + 2 * MaxRequests]
EntryFits(k, a) ==
    /\ store[k] \in Entry /\ store[k].count > 0 /\ store[k].resetAt <= now + WindowMs
    /\ \A i \in DOMAIN a :
         /\ a[i] <= store[k].resetAt
         /\ i + InWindow(k) <= Len(a) => a[i] + WindowMs <= store[k].resetAt
         /\ i + InWindow(k) + MaxRequests <= Len(a) => a[i] + 2 * WindowMs < store[k].resetAt
MayStart(a) == \A i \in DOMAIN a : i + MaxRequests <= Len(a) => a[i] + WindowMs < now
KeyInv(k) ==
    /\ SpacedOut(accepted[k])
    /\ IF k \in DOMAIN store THEN EntryFits(k, accepted[k]) ELSE MayStart(accepted[k])
LimitInv ==
    /\ now \in Nat /\ DOMAIN store \subseteq Clients /\ DOMAIN accepted = Clients
    /\ \A k \in Clients : KeyInv(k)
=============================================================================
