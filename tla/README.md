# RemoteTTYs: TLA+ models and proofs

RemoteTTYs gives a browser a terminal on a remote machine.  A Go *agent* on the
machine and the user's *browser* (React) both keep a WebSocket to a Node *relay*,
which routes the messages of PTY sessions between them.  The payloads are
encrypted end to end with strict counter nonces.  This directory holds TLA+
modules of that program, TLC configurations that check them on small instances
and TLAPS proofs about them for instances of any size.

    tlc -config MCRouter_sessions.cfg MCRouter      # a run
    tlapm RouterProofs.tla                          # the proofs

## 1. Inventory

### Relay (`packages/relay/src`)

| part | state | operations | what is hard | what makes it correct |
|---|---|---|---|---|
| agent hub (`agentHub.ts`) | `agents` Map; per socket the closure's `agentId`; rows `agents`, `agent_tokens` | upgrade, first message, hello, close event, disconnect by token, ping loop | sockets replaced before they time out, late close events, REST calls between upgrade and hello, pongs after their time | map, sockets and online column agree; one open socket per agent; pinned machine; no latency from long ago |
| browser hub (`browserHub.ts`) | `browsers` Map with `subscribedSessions` | connect, message, close, broadcast, disconnect by user | subscriptions held apart from the router's mappings | only subscribers are sent to |
| router (`router.ts`) | `sessions` Map | 6 kinds of agent message, 6 of browser message, both disconnects, TTL sweep | every pair of ends can vanish in any order | both ends alive and of one user, limits, delivery to members only, agent told of ends |
| REST API (`index.ts`, `db.ts`, `auth.ts`) | SQLite tables; cookies in browsers | setup, login, users, tokens, agents, audit query, preferences, server key | a call is checked with the cookie it was sent with; names are given again; calls cross | one setup, always an admin, only admins change accounts; pages without gaps |
| rate limiter (`rateLimit.ts`) | store of counters per key | check, sweep, full store | window boundary, a store at its limit | at most two windows' requests in any window's time |
| server key (`serverKey.ts`), config | key in memory, two files | load or create, sign, reset | reset that fails between memory and file | the key shown is the key that signs |

### Agent (`agent`)

| part | state | operations | what is hard | what makes it correct |
|---|---|---|---|---|
| client (`client.go`) | connection, `sendCh` (256), backoff | Run loop: Connect, challenge, hello, readLoop, writeLoop, heartbeat, Shutdown | messages left in `sendCh` from before, 5 s send timeout, reconnect | hello is the first message of a connection; nothing old on a new one |
| sessions (`session.go`) | `sessions` map, per session keys and counters | create, data, resize, replay, close, readPTY | counter assigned before the queue | counters arrive in order |
| file transfer (`file_transfer.go`) | `transfers` per session | start, chunk, end | error paths that skip a decrypt or an ack | receive counter stays in step; complete iff all bytes |
| scrollback (`scrollback.go`) | ring of 1 MB | Write, Contents | wrap-around | last bytes in order |
| crypto, identity, daemon (`crypto.go`, `identity.go`, `main.go`) | key files, PID file | load or create, start, stop | crash between two writes, two starts at once | one daemon, one key pair |

### Browser (`packages/web/src`)

| part | state | operations | what is hard | what makes it correct |
|---|---|---|---|---|
| WebSocket hook (`useWebSocket.ts`) | sockets, retry and ping timers | mount, unmount, open, close, reconnect | timers and close events that outlive a logout | one socket while the app is shown |
| terminal tabs (`TerminalTabs.tsx`) | tabs, pending key pairs, split panes | create, created, exited, offline, existing sessions, close | REST answers racing messages, an await in the middle of a close | one tab per session with its own key; no terminal in both panes |
| terminal view (`TerminalView.tsx`, `lib/e2e.ts`) | key, send and receive counters, promise queues, upload state | key exchange, send, receive, paste, transfer | async decrypts, messages before the key, overlapping uploads | counters in step with the agent's; the overlay tells the truth |
| agent store (`useAgentStore.ts`), main window (`App.tsx`) | agents list, selection, mounted panels | fetch, online, offline, latency, select, delete | fetch racing messages, panels mounted by an effect after the render | list agrees with the relay in the end; one thing fills the window |
| known agents (`knownAgents.ts`) | pinned keys in local storage | check, trust, reject | read before an await, written after it | a pin changes only for a cause |
| progress bar (`parseOsc9_4.ts`, `useProgressBar.ts`) | state of the bar, timer | scan, show, hide | incomplete and malformed sequences | the last well-formed one counts; a bar shown will hide |
| pages (`AgentsPage.tsx`, `AuditLogPage.tsx`, `UserManagementPage.tsx`, `SettingsPage.tsx`, `CommandPalette.tsx`) | lists, cursors, preferences, selection | poll, page, choose, run | answers out of order, lists that change under a selection | what is shown is what there is |

### macOS app (`agent-mac/RttysAgent`)

`AgentProcess` supervises the CLI agent (start, stop, restart with backoff on a
crash); `StatusMonitor` polls its status file; the rest is configuration and UI.

## 2. Modules

| module | models | composes |
|---|---|---|
| `AgentHub` | agent sockets, the `agents` Map, rows and the REST calls that change them | |
| `BrowserHub` | browser sockets and subscriptions | extends `AgentHub` |
| `Router` | `router.ts` with both hubs: the relay's whole message handling | extends `BrowserHub` |
| `SessionLedger` | what the relay promises of sessions | abstract specification of `Router` |
| `AgentLink` | `agent/client.go`: `Run`, `Connect`, `readLoop`, `writeLoop`, the heartbeat, `Send`, and the `readPTY` goroutines as senders | |
| `E2ESession` | the encrypted messages of one session at both ends: `session.go`, `file_transfer.go`, and the counters and promise queues of `TerminalView.tsx` | both ends and the way between |
| `Terminals` | the tabs of an agent's terminals: `TerminalTabs.tsx` over `useAgentStore.ts`, `App.tsx` and the WebSocket, against `router.ts` and `GET /api/agents` | browser and relay, messages and lists |
| `Accounts` | setup, login, cookies, users and password resets, at the relay and in the tabs that call it | browsers and relay |
| `TabLayout` | which tab is active and which pane a tab is in, with closes that wait for their HMAC | |
| `AuditLog` | `queryAuditLogs` and the page that browses it | page and relay |
| `AgentsPage` | the polls of the tokens and users pages, the server's key in memory and on disk | page and relay |
| `Preferences` | `useTheme.ts`, the settings page and `PUT /api/preferences` | page and relay |
| `PingLoop` | the ping loop, pongs and the latency the browser shows | relay, agent, browser |
| `UploadOverlay` | uploads of one terminal as the user sees them, over the send queue and the agent's answers | view and agent |
| `SocketHook` | `useWebSocket.ts` | |
| `KnownAgents` | pinned identity keys and the warning | |
| `AppShell` | what fills the window of the app | |
| `CommandPalette` | filter, groups, selection | |
| `ProgressBar` | the OSC 9;4 scan, against a definition of the sequence, and the timer of the bar | |
| `RateLimit` | `rateLimit.ts` | |
| `Parts` | the thirteen modules from `Accounts` on, one after the other | instances them, three of them through their modules of proofs |
| `ArrayFilter` | `filter` of a JavaScript array, as a definition that can be proved about | used by `TabLayout` and `CommandPalette` |
| `MCRouter`, `MCAgentLink`, `MCParts` | values of the constants and symmetry for TLC | extend the module they name |
| `RouterProofs`, `AgentLinkProofs`, `E2ESessionProofs`, `AccountsProofs`, `TerminalsProofs`, `AuditLogProofs`, `ProgressBarProofs`, `PartsProofs` | TLAPS proofs | extend the module they name |

### How state and actions correspond to the code

**Relay.**  Node runs one handler to its end before the next, and none of the
handlers modelled awaits anything between reading and writing the shared maps,
so one handler is one action.  A message that a handler ignores is a stuttering
step.  A socket goes from `open` to `closing` (either side has begun the close)
to `none` (its `close` event).  The environment is as free as the protocol
allows: an agent or a browser may send any message about any session at any
time, a socket may close at any time, the REST calls of `index.ts` may come
between any two events, and the relay may restart.

- `agents`, `browsers` and `sessions` are the three `Map`s, as functions on their
  keys.  `agentRows` and `tokenRow` are the tables.  They have no foreign key
  between them in `db.ts`, so a row may outlive its token, as in the code.
- `conn` is what the closure of `handleAgentConnection` remembers of its socket.
- `toAgent` and `toBrowser` hold what the last handler wrote.  The properties
  about delivery are action properties over them.
- A socket object or an agent id that nothing refers to any more may be used
  again, so a small pool of them does not end the behaviour.  Session ids are not
  used again (`issued`), since the ledger promises that.
- A message that arrives on a closing socket is still handled.  The library does
  so for messages it has received before the close frame; the model allows it
  until the `close` event, which is more than can happen.
- `idle` stands for "more than the TTL since `lastActivity`"; time itself is left
  out.

**Agent link.**  Each goroutine is an actor, and each operation on `sendCh`, the
connection or `done` is a step.  `sendCh` and `waiting` are the buffered channel
and its blocked senders: a receive from a full channel moves the longest waiting
sender's message in, as Go's runtime does.  The drain loop is one step, because
whatever is sent during the loop is drained too.  Messages carry only whether
they are `agent.hello` and, as history, whether their `Send` began before the
last connection was lost.  Once `retries` reaches `RetryBound` it stays there;
with `MaxRetries = 0` it has no other use in the code than to be logged.

`MaxRetries = N` lets Run make N - 1 attempts after the one that failed first
(`client.go`: `retries++`, then `retries >= MaxRetries`).  `config.yaml.example:9`
calls the setting "max consecutive reconnect attempts".  The model follows the
code.

**End-to-end session.**  `Seal` takes a counter and seals; `Queue` gets the
message into `sendCh`.  These are two steps, and two goroutines (`readPTY` and
`readLoop`) take them independently.  In the browser `encrypt` and `decrypt` are
asynchronous, so each has a beginning and an end and only the promise queue
keeps two of them apart.  Uploads are queued as `startImageTransfer` queues them:
start, all chunks, end.  A comment in `TerminalView.tsx` says chunks are queued
one by one so keyboard input can interleave; they are queued in one go, so a
keystroke waits behind the whole transfer.  That is also why the agent's refusal
of a second concurrent transfer is not met with one view: whenever an `end` is
lost, the next `start` does not open.  What the agent does refuse is metadata
beyond its limits (`Acceptable`).

- `LoseDown` and `LoseUp` stand for an agent socket replaced while the relay keeps
  the session: what was under way on the old one is gone.
- Keys are agreed and intact.  What matters of AES-GCM is that a message opens
  exactly if its counter is the expected one.
- Replay requests are plain text and so are not in `up`; the answer is sealed and
  takes a counter.
- `lost`, `overtaken` and `skipped` are history: they record the three reasons for
  which the two counters of a direction may part.

**Browser.**  An event handler, an effect or the part of an async function up to
its next `await` is one action; what is read before an `await` and used after it
is kept in the record of the call that waits (`checks` of `KnownAgents`, `closing`
of `TabLayout`, `calls` of `Accounts` and `AuditLog`).  React applies the updates of
one event before the next event, so state that a handler sets is seen by the next
one; refs that an effect updates after a render are variables of their own
(`mountedAgentIds` of `AppShell`, `settled` of `CommandPalette`).

- In `Terminals` the WebSocket keeps the order of its messages, REST answers come
  in any order and may be old when they do, and the relay numbers a session and
  lists it before the agent has heard of it, as `router.ts` does.  `Terminals`
  covers one agent; agents share nothing in the tabs.
- In `Accounts` a call holds the cookie of the moment it was sent.  The relay
  serves a call in one event (SQLite is synchronous), the answer comes later and
  only then sets the cookie.  A cookie holds a *name* and a `token_version`, as
  the JWT does; the id of the account it was issued to is history.
- A request may fail before or after it was served (`CallFails`, `PutLost`,
  `FetchFails`, `PollRejects`).
- `RateLimit` counts time in ticks, `PingLoop` in ticks of the 30 s interval.  The
  sweep comes once per window or per five minutes (`FiveMinutes`), whichever is less.
- In `PingLoop` a list is a call of its own: answered with the latency of that moment
  (`AnswerList`), applied later (`FetchAgents`), with messages in between.  The
  messages of one WebSocket stay in order (`toBrowser`) and are lost with it.  Lists
  show 0 ms, while a message of 0 ms or less clears the latency (`Seen`).
- In `AuditLog` the buttons and filters are those of the page: *Refresh* waits for
  `loading` alone, which any answer clears, also that of an older call.
- In `ProgressBar` the input is built of the symbols the scan tells apart; its
  property compares the scan with a definition by quantifiers over positions.
- `UploadOverlay` and `E2ESession` are about the same uploads: the one has one
  message per transfer's chunks and the overlay, the other chunks and counters.

Definitions named `Bug...` are deliberate mistakes, each next to the definition
it distorts.  No specification uses them: they are there to show that the
properties notice such a mistake.

## 3. Runs

| run | instance | distinct states | what it shows |
|---|---|---|---|
| `router_sessions` | 2 agent sockets, 2 agent ids, 1 token, 2 browsers, 2 users, 2 sessions, 1 per agent | 233,975 | the three records of a session (mapping, subscription, the agent's list) agree, messages reach only the session's two ends, nobody but the user is at either end, and an agent that can be reached is told when a session is dropped |
| `router_limits` | 1 agent, 3 browsers, 3 session ids, 2 sessions in all, 1 per browser | 78,535 | the limits, and refinement of `SessionLedger` |
| `router_hub` | 3 sockets, 2 tokens, 3 agent ids, 2 machines, no session | 269,422 | map, sockets, online column and fingerprint agree |
| `router_live` | 2 sockets, 1 agent, 1 browser, 1 session | 18,979 | unusable and idle sessions are reaped, closing sockets retired |
| `link` | 3 shells, channel of 2, give up at the 3rd retry | 146,907 | no goroutine and no message of a lost connection reaches a later one; the pauses double up to the cap; a lost connection is replaced, or Run gives up |
| `e2e_session` | 2 transfers of 2 chunks, one of them beyond the limits, progress every 2, 1 keystroke or oversized paste, `MaxOutput` 1 | 1,626,371 | nonces are not reused, counters part only for a reason, no file of a part of its chunks |
| `terminals` | 2 requests, 2 fetches at once, 1 fault | 704,492 | a session gets the key of its request and one tab; the store comes to agree with the relay |
| `parts` | the instances of `Parts`, bounds below | 4,144,304 | the properties of the thirteen parts |
| `token_revoked` | 1 socket, 1 token | violation | see *Findings* |
| `link_hello` | 1 shell, channel of 1 | violation | see *Findings* |
| `e2e_upload_input` | 2 transfers of 1 chunk, one beyond the limits | violation | see *Findings* |
| `terminals_keys` | as `terminals` | violation | see *Findings* |

**The run `parts`.**  The parts share no state, and a run of its own for each would
say nothing more, so `Parts` holds them all: the variable `part` says whose
behaviour this is and never changes, and `x1`, `x2`, ... stand for the variables of
that part.  Its states are the sum of those of the parts, its properties those of
the modules, each under the condition that the behaviour is of its part.

| part | property | what could go wrong |
|---|---|---|
| `Accounts` | `AdminSinceSetup` | two browsers set the relay up at once; two admins delete each other |
| | `OnlyAdminsChangeUsers` | the cookie of a deleted account acts for a later account of the same name |
| `TabLayout` | `PanesApart` | a close that waited acts on the split of now with the active tab of then |
| `AuditLog` | `ShownRowsAreConsecutive` | the log grows between pages, the filter changes under a call |
| `KnownAgents` | `KeysAreKept` | a pin is lost without a decision; overlapping checks do that, and nothing else |
| `RateLimit` | `RateIsLimited` | a window ends, an entry is swept or the store is full at the wrong moment |
| `PingLoop` | `LatencyIsFresh` | a pong of a ping that was given up or of an earlier connection; a list, a message and a tick that cross |
| `ProgressBar` | `ProgressIsTrue` | malformed sequences before and after a good one |
| `SocketHook` | `OneSocket` | a timer or a close event that outlives a logout |
| `UploadOverlay` | `OverlayIsTrue` | answers to an upload that another has replaced |
| `CommandPalette` | `EnterRunsHighlighted` | the list shrinks under the selection |
| `AgentsPage` | `ShownIsFresh` | answers of polls and resets that overtake each other |
| `Preferences` | `ChoicesAreKept` | requests that each hold all settings, lost or out of order |
| `AppShell` | `OneContentShown` | panels, pages and notices shown by toggles of their own |

Sets of model values over which a run is symmetric are permuted
(`PoolSymmetry`, `HubSymmetry`, and in `MCParts` the names and the browsers or keys).  `PoolSymmetry`
also permutes the ids in the refinement check: it maps `SessionLedger` onto
itself, as the ledger tells no two ids apart.  No set is permuted in a run with a
liveness property; the two temporal properties of `parts` are action properties.
The sessions, pages and users of `MCParts` that some part tells apart by more than
equality (`s1`..., `p1`..., `me`, `other`) are not permuted.

### Bounds, and why they are enough

- Replacing an agent's socket takes two sockets of one row; the stale close of
  the first takes no third.  `router_hub` has a third so that a replaced socket
  can be replaced again while both older ones are still closing, and two tokens
  so that a wrong row could be hit.
- Two browsers and two sessions let one session's end disturb another's records:
  same agent or not, same browser or not.  Two users are the fewest for which
  crossing users is possible.  `MaxSessionsPerAgent = 1` makes the per-agent limit
  bite while replaced agents keep their sessions.
- Three session ids under a limit of two, and three browsers under a limit of
  one each, let the total and the per-browser limit bite separately.
- A channel of two places and three shells, the run loop and the heartbeat give
  five senders: the channel fills and up to five wait.  `MaxBackoff = 3` is not a
  power of two, so the cap cuts a doubling short.
- Two chunks are the fewest for which one can be missing and the other not; a
  second transfer, refused for its size, can come before, after or during the
  first one, so messages of one can meet the state of the other.  One keystroke
  before, between or after transfers is enough to see a counter that has parted.
  `MaxOutput` bounds what the shell and replays send (answers to transfers are
  bounded by the transfers), so both goroutines can hold a message at once.
- Two requests can be answered in either order with either key; two fetches can
  overtake each other; one fault is a fetch that fails, a connection that drops
  or an agent that leaves, while everything else is under way.
- `Accounts`: two names and three accounts, so that a name is given again; two
  browsers with one call each, so that any two calls cross; one password reset for each account.
- `AuditLog`: pages of two in a log of five rows make three pages; two calls can
  overtake each other, and any of them fail.  The page is opened on a log that holds
  all rows but one, and grows by that one.
- `TabLayout`: three tabs, two in one pane and one in the other, and two closes
  that wait at once.  `KnownAgents`, `AppShell`: two agents, two keys.
- `RateLimit`: two clients compete for a store of two; windows of two ticks with
  two requests in five ticks hold two windows and a half, and the sweep comes every
  tick (`FiveMinutes = 1`), more often than a window ends.
- `PingLoop`: four ticks are a ping, a ping given up, the late pong with the ping
  after, and one more for the age of the latency; two lists, one older than the other,
  cross the messages of all of them.  `SocketHook`: five sockets, two instances with reconnections.
- `AgentsPage`: two polls with two resets of the key.  `Preferences`: three requests
  under way, one of them lost.  `CommandPalette`: two machines and two pages can
  interleave.  `ProgressBar`: up to four pieces, a piece being a start, a number, a
  separator, an end or a byte of no meaning.  `UploadOverlay`: one upload and the
  next.

`CHECK_DEADLOCK FALSE` is used where the model really stops: in `link` Run returns
after the last retry and the process exits; in the other runs the keystrokes,
requests, sockets, ticks or ids of the bounded instance may be used up.

### Fairness

Safety runs assume none.  `FairSpec` of `Router` assumes that

- a socket that has begun to close gets its `close` event.  The `ws` library
  destroys the connection 30 seconds after the close frame, whatever the peer
  does.  No fairness is assumed of peers: an open socket may stay silent for ever;
- `setInterval` calls the sweep again when sessions are idle.

`FairSpec` of `AgentLink` assumes that

- goroutines that can go on do, timers fire, and a write returns, since TCP
  gives up in the end (weak fairness);
- a `select` with several ready cases takes each of them in the long run: Go picks
  at random, so a writer or heartbeat that finds `done` closed again and again
  stops, and a reader that is handed messages gets to the read error behind them
  (strong fairness);
- the network is not down for ever: an attempt to connect that is repeated for
  ever succeeds some time (strong fairness).  Without this no reconnection could
  be promised.

Nothing is assumed of the relay's replies, of shells or of the link, which may
break at any moment.

`FairSpec` of `Terminals` assumes that `useWebSocket` connects again 3 s after a
close, that messages which have arrived are handled, that the 10 s interval of
`useAgentStore` fires, and that a fetch is served and its answer arrives or fails
(weak fairness each).  Nothing is assumed of agents, shells or the user.

### Mutants

Each property of a passing run has a mutant of the code's model that violates it
(`mutants` in `PROJECT.json`): a forgotten `agents.delete`, a socket that is not
replaced, subscriptions that are kept or not consulted, a limit tested with the
wrong comparison, a missing `wg.Wait`, a drain loop that runs once, a writer that
does not watch `done`, a promise queue left out, a nonce that is accepted if it is
later, a role read from the JWT, a timer that is not cleared, a pong whose id is
not compared, settings of the first render sent with each choice, and so on.

### Findings

1. `token_revoked` (`agentHub.ts:206`).  The token of a socket is checked at the
   upgrade only.  `disconnectAgentsByToken` looks for sockets in the `agents` Map,
   where a socket that has not said hello yet is not found.  It identifies later
   and stays, while `AgentsPage.tsx:109` tells the user that connected agents will
   be disconnected.
2. `link_hello` (`client.go:107`).  Shells outlive a connection.  What they print
   after the drain and before `Connect` queues `agent.hello` is written first, and
   the relay closes the connection (`agentHub.ts:75`).  A busy shell can repeat
   this at each attempt.
3. `e2e_upload_input` (`file_transfer.go:143`).  Chunks of a refused or timed out
   transfer are put aside without a decrypt, so `RecvCounter` falls behind and
   nothing the browser sends opens any more.  `CHANGELOG.md:51` lists this freeze
   as fixed.
4. `terminals_keys` (`TerminalTabs.tsx:148`).  The relay lists a session as soon as
   it forwards `pty.create`.  A list fetched before `pty.created` arrives gives the
   new session a tab that is mounted as an existing one and does no key exchange;
   the key pair comes to a tab that is there already.  `TerminalView.tsx:171` relies
   on the opposite order.

What the models had to be weakened for, and what else was met:

- `DownInStep` and `UpInStep` carry the history variables `overtaken` and `skipped`.
  Taking `SendCounter` is atomic, but the message gets into `sendCh` in a later
  step, so `readPTY` and an answer of `readLoop` can overtake each other
  (`session.go:277`, against the comment at `session.go:95`); `skipped` is finding 3.
  The properties say that *nothing else* makes the counters part.
- The fingerprint is pinned per token *and name* (`agentHub.ts:94`): two machines
  with one token and two names are both served, while `README.md:196` of the program
  says that the pin prevents token reuse on different machines.
- `KeysAreKept` excepts a check that loaded the store before its last change:
  checks of two agents that overlap write back what they loaded and lose the other's
  pin (`knownAgents.ts:48`).  A key is checked once per loading of the app, so one
  that comes back after another was accepted is not checked, and keys in lists
  fetched by REST never are (`App.tsx:213`).  A second warning replaces the first and
  leaves the dialog in its second stage.
- `PanesApart` excepts a late `pty.created` for a session that has a tab already.
  After the await `handleCloseTab` compares with the `activeSessionId` of before it
  (`TerminalTabs.tsx:243`).
- `ShownRowsAreConsecutive` is about rows and not about cursors: *Refresh* on a
  later page fetches the first one and leaves `cursorStack` as it is
  (`AuditLogPage.tsx:273`).
- `ChoicesAreKept` excepts `resetFont`, which sends two requests with the settings of
  the last render, the second with the old size.  `PUT /api/preferences` drops
  `pasteImageTypes` and its size limit (`index.ts:330`), which the browser sends.
- `ShownIsFresh` excepts a reset of the server key that fails in the middle
  (`serverKey.ts:65` replaces the key in memory before it writes the file) and
  two resets answered out of order (`AgentsPage.tsx:114`).
- `EnterRunsHighlighted` excepts matches whose groups interleave: Enter runs
  `filtered[i]` (`CommandPalette.tsx:123`) while rows are shown group by group
  (`:210`).  ArrowDown on an empty list selects -1.
- `OneContentShown` excepts the moment in which the first machine has come online:
  its panel is mounted by an effect that causes no render (`App.tsx:176`).  The
  selection of a deleted machine stays until another is chosen.
- `OverlayIsTrue` lets a refused upload show as waiting: that state is set when the
  last message of the transfer was sealed and sent (`TerminalView.tsx:367`), also over
  an error that the agent's answer has put there before.
- `LatencyIsFresh` excepts a browser that is `behind`.  A list without a latency keeps
  the one shown (`a.latencyMs ?? prev`, `useAgentStore.ts:54`), so the browser does not
  learn of an end that it got no message of: one that its WebSocket missed, or the new
  connection of an agent, of which none is sent.  For the same reason an answer
  that is older than an `agent.latency` of null handled meanwhile puts the dead latency
  back, and later lists keep it until the next pong.
- A latency of 0 ms is unknown in a message (`useAgentStore.ts:99`) and 0 ms in a list.
- A `pty.create` that is sent to an agent's closing socket is lost (`agentHub.ts:195`).
  If a hello replaces that socket before its close event, the session stays in the
  relay's records as one of the new connection, though the agent never heard of it,
  until its browser leaves or closes it or the TTL ends.  `NothingLingers` promises no
  more than that.
- Nothing dispatches `rttys:unauthorized`, to which `App.tsx:71` listens: an expired
  cookie leaves the app open.

## 4. Proofs

TLAPS proves the following for all values of the constants, given only the named
assumptions in the modules:

- `HubConstants`, `BrowserConstants` and `RouterConstants`: each token has one user,
  the null values are no ids, limits are natural numbers, session ids are not agent
  ids;
- `LinkConstants`: a capacity and a longest backoff of at least 1, goroutines have
  different names, and the bound of the counter of retries is not reached before the
  longest backoff is;
- `SessionConstants`: natural numbers, at least one chunk;
- `TerminalsConstants`: the requests are numbered from 1 and finitely many;
- `PartsConstants`: the null value is no answer, no progress and no pair of a machine
  and a key; the bounds are natural numbers, with at least one request in a window, one
  row of the audit log, one key and one call of the audit page; the user names are
  finitely many, with room for an account each; the machines and pages of the palette
  are finitely many, apart, and there is a page.

TLC evaluates each of them on a run.  No other set is assumed finite: `RouterProofs`
proves that the set of live sessions is.

| theorem | says | by |
|---|---|---|
| `TypeCorrect` | `TypeOK` of `Router` | one lemma per group of handlers |
| `HubCorrect`, `PinnedCorrect` | the two hub invariants of `router_hub` | `HubInv` |
| `RecordsCorrect`, `EndsCorrect`, `UserCorrect` | the session invariants of `router_sessions` | `TypeOK /\ HubInv /\ RoutingInv` |
| `DeliveryCorrect`, `NoticeCorrect` | the action properties of `router_sessions` | step lemmas under that invariant |
| `LimitsCorrect` | `WithinLimits` | `LimitsInv` |
| `RefinesLedger` | `Spec => ImplementsLedger` | steps of the router are `Open`, `End` or a stutter |
| `LinkTypeCorrect`, `NoStragglersCorrect`, `LostMessagesCorrect` | `TypeOK`, `NoStragglers`, `LostMessagesStayLost` | `LinkInv` |
| `PausesDouble` | `PauseDoubles` | `PauseInv` |
| `SessionTypeCorrect`, `NoncesCorrect`, `DownInStepCorrect`, `UpInStepCorrect`, `EndMeansWholeCorrect` | the five invariants of `e2e_session` | `SessionInv` |
| `KeysCorrect` | `KeysMatch` | `TerminalsInv` |
| `TerminalsTypeCorrect`, `OneTabCorrect` | `TypeOK`, `OneTabEach` of `Terminals` | `TabsInv` |
| `PartsAdmin`, `PartsChanges` | `AdminSinceSetup`, `OnlyAdminsChangeUsers` | `AccountsInv` |
| `PartsSocket` | `OneSocket` | `HookInv` |
| `PartsLatency` | `LatencyIsFresh` | `PingInv` |
| `PartsChoices` | `ChoicesAreKept` | `PreferencesInv` |
| `PartsPins` | `KeysAreKept` | every step by itself |
| `PartsPanes` | `PanesApart` | `LayoutInv` |
| `PartsContent` | `OneContentShown` | `AppShellInv` |
| `PartsOverlay` | `OverlayIsTrue` | `UploadInv` |
| `PartsFresh` | `ShownIsFresh` | `PageInv` |
| `PartsRate` | `RateIsLimited` | `LimitInv` |
| `PartsAudit` | `ShownRowsAreConsecutive` | `LogInv` |
| `PartsPalette` | `EnterRunsHighlighted` | `PaletteInv` |
| `PartsProgress` | `ProgressIsTrue` | `ProgressInv` |
| `PartsTypeCorrect` | `TypeOK` of `Parts` | `PartsInv /\ PartsTyped` |

Every invariant and every action property that a run checks is stated by one of them.

The theorems called `Parts...` are about the specification that the run `parts` checks.
Its invariant, `PartsInv`, says of the part that is chosen that this part's own
invariant holds; a step of `Parts` is a step of that part.  `AccountsProofs`
also proves its theorems of the part alone; `AuditLogProofs` and `ProgressBarProofs` hold the
lemmas of their parts, which `PartsProofs` takes by `INSTANCE`.

Why the invariants have to be strengthened:

- **`HubInv`.**  The properties are inductive only together.  That a replaced
  socket's close event leaves the new socket's entry alone (`OnlineFlagMatchesMap`)
  needs `MapMatchesSockets`; that a hello leaves one open socket needs the old
  entry to point at the only open one.
- **`RoutingInv`** adds that every mapping's id has been issued.  It rests on
  `HubInv`: a hello that replaces a socket keeps the agent's sessions, and these
  stay sessions of one user only because entry, row and socket agree on the token.
- **`LimitsInv`** is `WithinLimits` with finiteness, without which cardinalities say
  nothing.
- **`LinkInv`** says what each phase of `Run` can rely on: no writer outside reading
  and joining, a link that is up only while saying hello or reading, and, between
  connections, nothing old in the channel, before it or in the writer's hands.
- **`SessionInv`** has two arguments.  Towards the browser it is about one
  *sequence*, `DownInTransit`: every step takes out an element, appends one or does
  neither, and every counter the agent has taken is in it or staged by a
  goroutine.  Towards the agent it is about a *set*, `InFlight`: all that is sealed
  or still in the send queue, each with the counter it has or will get.  A
  transfer is a block of consecutive counters there (`Blocks`), so a chunk that
  did not arrive leaves a hole that `RecvCounter` cannot cross while the transfer
  is pending (`Opened`).  From this follows `EndMeansWhole`, in spite of losses and
  timeouts.
- **`AccountsInv`** is about every cookie there is, in a browser, in a call or in an
  answer (`Around`): it is of the account whose row its name finds, *unless that row
  is of a later account, and then no admin's*.  The exception is real, since a JWT
  names its user and names are given again; it is harmless because the only way to
  become an admin after an account was created is the setup, which happens before
  there are cookies.  A step either leaves the rows, keeps the ids of the admins or
  is the setup (`RowsStep`), and the tabs only move cookies (`SameCookies`).
- **`TerminalsInv`** follows the request through the system: what the relay has
  asked of the agent and every `pty.created` under way name the request that the
  session was made for, and the history of requests only grows (`MadeStep`).
- **`HookInv`**: only the last socket is alive, the earlier ones of this instance are
  closed, so that no close event of theirs can start a second timer, and the timer
  that runs is the one an unmount clears.
- **`PingInv`** relates the age of the latency to whether a ping is waited for: it is
  of this tick, or of the one before while the ping of this tick has no answer
  (`Recent`).  The last message on its way is of the latency there is, and so is a list
  that is not old; a browser that is behind while there is a latency has no message to
  come that would undo a list by which it catches up (`Told`).
- **`PauseInv`**: `backoff` is the pause after `retries` failures, or while asleep
  after one less, as `sleepBackoff` doubles it when the pause is over.  That the
  pauses are the powers of two up to the longest is shown by taking the least number
  of failures for which it would be wrong, in place of an induction.
- **`TabsInv`**: a session is asked for once, the tabs that open after a reload are
  those of sessions without a tab, and no more sessions are made than were requested,
  so that ids do not run out.  What the order of the new tabs needs is
  proved of `InOrder`: the numbers of a finite set in order are each there once.
- **`PreferencesInv`**: the changes are numbered, requests under way have numbers up
  to the last, and that of the last change holds what the user saw.
- **`LayoutInv`**: every session in a tab, in a pane or active is a known one, so that
  the tab of a new session is in no pane; the panes then stay apart, because each
  handler takes a tab out of one pane before it puts it into the other.
- **`AppShellInv`**: panels are of machines in the list, and a machine that is online
  is mounted by the next render at the latest.
- **`UploadInv`**: the messages of all transfers are queued and sent in one order, so
  that the queue holds exactly those that are not sent yet; the state the overlay
  shows is where its own transfer is in that order.
- **`PageInv`**: the public key only becomes newer, and the file holds it or cannot be
  read; an answer marked as new is what the relay has; and the list applied last is
  the one shown, or a reset has replaced a key that does not come back.
- **`LimitInv`** says for each client that its requests are `SpacedOut`: of two with
  `2 * MaxRequests - 1` others between them the later is more than a window after the
  earlier.  The next request keeps this because those before the window of the
  client's entry are no later than its start (`EntryFits`), and because without an
  entry a new window may start now (`MayStart`).
- **`LogInv`** says of every answer under way what is claimed of the rows shown, since
  the page shows one of these answers later.  A row added meanwhile has the largest id,
  so it never falls between two rows of an answer; and the row that a query takes
  beyond the page tells whether the answer reaches the oldest row.
- **`PaletteInv`**: once the effects have run the selection is below the length of the
  list.  The rest is about sequences: filtering keeps the order (`Filtered`), the
  scores fall along the list, so that a group no item of the other scores into stands
  in front of it or behind it (`GroupLeads`), and such a list put together group by
  group is the same list (`FrontAndRest`).
- **`ProgressInv`** itself is small: a progress shown has its timer.  The work is in the
  scan, which is recursive, as is its parser of numbers.  The library's induction cannot be
  used, but that every set of numbers has a least one can, and `MeasureInduction` and
  `Recursion` follow from it: induction over a set with a measure, and a function by
  recursion over one.  So `Number` and `ParseOsc9_4` are shown to be defined for
  output of any length; the loop of `parseDigits` adds up the digits by their places;
  what is read at a position is a well-formed sequence there, one sequence hides no
  other, and what the rest of the output has is what the scan returns for it.
- **`PartsTyped`**: most types are inductive by themselves or with the invariant above.
  Four need more: a call that makes an account carries its name (`AccountsTyped`), the
  log stays within its bound (`LogBounded`), what is queued, under way or answered was
  begun (`OnlyBegun`), and a list of the palette has no item twice, so that it is no
  longer than there are items.

Only model-checked: the liveness properties (`NothingLingers`, `Reconnects`,
`StoreCatchesUp`), which rest on fairness.

## 5. Not modelled

- `Shutdown` and the status file of the agent, and its table of sessions beyond the
  goroutines and counters of each: the process exits after them, and what a reader
  of the status file may rely on is said nowhere.
- That a browser which reconnects finds its sessions gone, and that an agent's shells
  run on when the relay has forgotten them: `Router` and `AgentLink` each show their
  side.  `README.md:53` of the program lists a replay of the scrollback when a browser
  reconnects; it is not reached, since the relay drops a session with its last browser
  (`SessionsHaveBothEnds`), which then finds none to replay.  A property of that
  line would only restate that the handler of the close event deletes the session.
- `scrollback.go`: a ring under a lock, sequential and within the reach of tests.
- Key files, PID file, daemon and platform code of the agent; the macOS app, whose
  supervision depends on the order of the operating system's termination handlers.
- The cryptographic primitives, which are taken as ideal; their use of counters is
  modelled.
- Rendering, layout, forms, menus, mouse and resize, the dashboard, the sidebar and
  the other presentational components; the smoothing of the latency.
- The start of the relay, its health check, static files, configuration, message
  types, build and deployment.

`components` in `PROJECT.json` gives the state of each part.
