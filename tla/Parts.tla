-------------------------------- MODULE Parts --------------------------------
(***************************************************************************)
(* The parts of the system that are modelled by themselves.  They share no *)
(* state, so one specification goes through them all: part says whose      *)
(* behaviours these are, and the variables x1, x2, ... are those of that   *)
(* part.  Parts with a module of proofs are taken from there.              *)
(***************************************************************************)
EXTENDS Naturals, Sequences, FiniteSets, ArrayFilter

CONSTANTS
    Names,              \* users, machines, clients
    Tabs,               \* browsers, keys
    Sessions,
    Machines, Pages,
    me, other,          \* users of the audit log
    Nothing,
    PageSize,
    WindowMs, MaxRequests, MaxStoreSize, FiveMinutes,
    \* bounds of the parts
    MaxAccounts, MaxVersion, MaxCalls, MaxClosing, MaxLogs, MaxFetches,
    MaxDepth, MaxNow, MaxTicks, MaxPieces, MaxSockets, MaxUploads, MaxPolls,
    MaxKeys, MaxPuts

VARIABLES part, x1, x2, x3, x4, x5, x6, x7, x8, x9, x10, x11, x12

Accounts == INSTANCE AccountsProofs WITH
    Nobody <- Nothing,
    users <- x1, created <- x2, setups <- x3, jar <- x4, app <- x5, calls <- x6
TabLayout == INSTANCE TabLayout WITH
    Ids <- Sessions, None <- Nothing,
    tabs <- x1, active <- x2, split <- x3, focused <- x4, closing <- x5, known <- x6, late <- x7
AuditLog == INSTANCE AuditLogProofs WITH
    Me <- me, Other <- other, All <- Nothing, MaxCalls <- MaxFetches,
    log <- x1, isAdmin <- x2, filters <- x3, logs <- x4, hasMore <- x5, total <- x6,
    cursorStack <- x7, calls <- x8, shown <- x9, loading <- x10
KnownAgents == INSTANCE KnownAgents WITH
    Agents <- Names, Keys <- Tabs, NoKey <- Nothing,
    stored <- x1, open <- x2, checked <- x3, checks <- x4, warning <- x5, confirming <- x6
RateLimit == INSTANCE RateLimit WITH
    Clients <- Names,
    now <- x1, store <- x2, swept <- x3, accepted <- x4
PingLoop == INSTANCE PingLoop WITH
    MaxLists <- MaxFetches,
    ticks <- x1, pendingPing <- x2, toAgent <- x3, toRelay <- x4, latencyMs <- x5, zeros <- x6,
    connected <- x7, toBrowser <- x8, lists <- x9, listed <- x10, shown <- x11, behind <- x12
ProgressBar == INSTANCE ProgressBarProofs WITH
    NoInfo <- Nothing,
    data <- x1, pieces <- x2, progress <- x3, timer <- x4
SocketHook == INSTANCE SocketHook WITH
    sockets <- x1, first <- x2, wsRef <- x3, mounted <- x4, timers <- x5, timerRef <- x6,
    pings <- x7, connected <- x8
UploadOverlay == INSTANCE UploadOverlay WITH
    upload <- x1, reading <- x2, begun <- x3, sendQueue <- x4, up <- x5, down <- x6,
    pending <- x7, deaf <- x8, saved <- x9, refused <- x10
CommandPalette == INSTANCE CommandPalette WITH
    agents <- x1, open <- x2, matches <- x3, selectedIndex <- x4, settled <- x5
AgentsPage == INSTANCE AgentsPage WITH
    tokens <- x1, disk <- x2, privateKey <- x3, publicKeyBase64 <- x4, keysMade <- x5,
    polls <- x6, resets <- x7, shown <- x8, prevHashRef <- x9, fresh <- x10,
    failedReset <- x11, lateReset <- x12
Preferences == INSTANCE Preferences WITH
    prefs <- x1, offered <- x2, stored <- x3, puts <- x4, made <- x5, handled <- x6,
    resetFonts <- x7, seen <- x8
AppShell == INSTANCE AppShell WITH
    Agents <- Names, None <- Nothing,
    agents <- x1, connected <- x2, view <- x3, selectedAgentId <- x4,
    mountedAgentIds <- x5, panels <- x6

\* What the proofs assume: a value of its own, limits that let requests through,
\* finite sets, and bounds that leave room for the initial states
ASSUME PartsConstants ==
    /\ Nothing # Accounts!Plain(TRUE) /\ Nothing \notin ProgressBar!Info
    /\ Nothing \notin KnownAgents!Pairs
    /\ WindowMs \in Nat /\ MaxRequests \in Nat \ {0} /\ MaxStoreSize \in Nat
    /\ IsFiniteSet(Names)
    /\ IsFiniteSet(Machines) /\ IsFiniteSet(Pages) /\ Machines \intersect Pages = {} /\ Pages # {}
    /\ PageSize \in Nat /\ MaxLogs \in Nat \ {0} /\ MaxKeys \in Nat \ {0} /\ MaxFetches \in Nat \ {0}
    /\ MaxAccounts \in Nat /\ Cardinality(Names) <= MaxAccounts
    /\ {MaxVersion, MaxNow, MaxTicks, MaxPieces, MaxSockets, MaxUploads, MaxPuts} \subseteq Nat

\* The variables that a part of 4, 5, ... variables does not have
After10 == <<x11, x12>>
After8 == <<x9, x10, After10>>
After7 == <<x8, After8>>
After6 == <<x7, After7>>
After5 == <<x6, After6>>
After4 == <<x5, After5>>

Idle10 == x11 = Nothing /\ x12 = Nothing
Idle8 == x9 = Nothing /\ x10 = Nothing /\ Idle10
Idle7 == x8 = Nothing /\ Idle8
Idle6 == x7 = Nothing /\ Idle7
Idle5 == x6 = Nothing /\ Idle6
Idle4 == x5 = Nothing /\ Idle5

Init ==
    \/ part = "Accounts" /\ Accounts!Init /\ Idle6
    \/ part = "TabLayout" /\ TabLayout!Init /\ Idle7
    \/ part = "AuditLog" /\ AuditLog!Init /\ Idle10
    \/ part = "KnownAgents" /\ KnownAgents!Init /\ Idle6
    \/ part = "RateLimit" /\ RateLimit!Init /\ Idle4
    \/ part = "PingLoop" /\ PingLoop!Init
    \/ part = "ProgressBar" /\ ProgressBar!Init /\ Idle4
    \/ part = "SocketHook" /\ SocketHook!Init /\ Idle8
    \/ part = "UploadOverlay" /\ UploadOverlay!Init /\ Idle10
    \/ part = "CommandPalette" /\ CommandPalette!Init /\ Idle5
    \/ part = "AgentsPage" /\ AgentsPage!Init
    \/ part = "Preferences" /\ Preferences!Init /\ Idle8
    \/ part = "AppShell" /\ AppShell!Init /\ Idle6

Next ==
    /\ UNCHANGED part
    /\ \/ part = "Accounts" /\ Accounts!Next /\ UNCHANGED After6
       \/ part = "TabLayout" /\ TabLayout!Next /\ UNCHANGED After7
       \/ part = "AuditLog" /\ AuditLog!Next /\ UNCHANGED After10
       \/ part = "KnownAgents" /\ KnownAgents!Next /\ UNCHANGED After6
       \/ part = "RateLimit" /\ RateLimit!Next /\ UNCHANGED After4
       \/ part = "PingLoop" /\ PingLoop!Next
       \/ part = "ProgressBar" /\ ProgressBar!Next /\ UNCHANGED After4
       \/ part = "SocketHook" /\ SocketHook!Next /\ UNCHANGED After8
       \/ part = "UploadOverlay" /\ UploadOverlay!Next /\ UNCHANGED After10
       \/ part = "CommandPalette" /\ CommandPalette!Next /\ UNCHANGED After5
       \/ part = "AgentsPage" /\ AgentsPage!Next
       \/ part = "Preferences" /\ Preferences!Next /\ UNCHANGED After8
       \/ part = "AppShell" /\ AppShell!Next /\ UNCHANGED After6

vars == <<part, x1, x2, x3, x4, x5, x6, x7, x8, x9, x10, x11, x12>>
Spec == Init /\ [][Next]_vars

-----------------------------------------------------------------------------
\* Properties: those of the parts, which state them and say what they are about

\* Every part keeps the types of its variables.
TypeOK ==
    /\ part = "Accounts" => Accounts!TypeOK
    /\ part = "TabLayout" => TabLayout!TypeOK
    /\ part = "AuditLog" => AuditLog!TypeOK
    /\ part = "KnownAgents" => KnownAgents!TypeOK
    /\ part = "RateLimit" => RateLimit!TypeOK
    /\ part = "PingLoop" => PingLoop!TypeOK
    /\ part = "ProgressBar" => ProgressBar!TypeOK
    /\ part = "SocketHook" => SocketHook!TypeOK
    /\ part = "UploadOverlay" => UploadOverlay!TypeOK
    /\ part = "CommandPalette" => CommandPalette!TypeOK
    /\ part = "AgentsPage" => AgentsPage!TypeOK
    /\ part = "Preferences" => Preferences!TypeOK
    /\ part = "AppShell" => AppShell!TypeOK

\* Accounts: a relay is set up once, by one of all the browsers that are shown the
\* setup, and has an admin from then on, whoever deletes whom at once.
AdminSinceSetup == part = "Accounts" => Accounts!AdminSinceSetup

\* Accounts: beside the setup only a call of an account that is an admin when it
\* is served changes the rows of users.
OnlyAdminsChangeUsers ==
    [][part = "Accounts" => Accounts!UsersChangedByAdmin]_vars

\* TabLayout: a split view has no terminal on both sides.
PanesApart == part = "TabLayout" => TabLayout!PanesApart

\* AuditLog: a page of the log has no row missing and none of somebody else.
ShownRowsAreConsecutive == part = "AuditLog" => AuditLog!ShownRowsAreConsecutive

\* KnownAgents: a pinned key changes only when the user accepts another, or by a
\* check that loaded the store before its last change.
KeysAreKept == [][part = "KnownAgents" => KnownAgents!PinsChangeForCause]_vars

\* RateLimit: no span of a window's length lets more than two windows' requests
\* through.
RateIsLimited == part = "RateLimit" => RateLimit!RateIsLimited

\* PingLoop: the latency known is that of this tick's ping or of the last one's,
\* and a browser that was told of it, and has put no older list over it, shows it.
LatencyIsFresh == part = "PingLoop" => PingLoop!LatencyIsFresh

\* ProgressBar: the scan finds the last well-formed sequence, and a bar that is
\* shown will hide.
ProgressIsTrue == part = "ProgressBar" => ProgressBar!ProgressIsTrue

\* SocketHook: the app has one socket alive or to come while it is shown.
OneSocket == part = "SocketHook" => SocketHook!OneSocket

\* UploadOverlay: what the overlay says of an image is what became of it.
OverlayIsTrue == part = "UploadOverlay" => UploadOverlay!OverlayIsTrue

\* CommandPalette: Enter runs the highlighted row, unless the groups interleave.
EnterRunsHighlighted == part = "CommandPalette" => CommandPalette!EnterRunsHighlighted

\* AgentsPage: what the page shows last is what the relay has, and the key shown
\* is the one that signs.
ShownIsFresh == part = "AgentsPage" => AgentsPage!ShownIsFresh

\* Preferences: the relay holds what the user saw after the last choice.
ChoicesAreKept == part = "Preferences" => Preferences!ChoicesAreKept

\* AppShell: one page, notice or terminal fills the window.
OneContentShown == part = "AppShell" => AppShell!OneContentShown
=============================================================================
