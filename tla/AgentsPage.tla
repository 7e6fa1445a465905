------------------------------ MODULE AgentsPage ------------------------------
(***************************************************************************)
(* The pages that poll lists from the relay: tokens, machines and the      *)
(* server's key (AgentsPage.tsx), users (UserManagementPage.tsx).  A poll  *)
(* asks for several lists at once and applies them when all are answered,  *)
(* each only if it differs from the one applied before; polls overlap with *)
(* those that follow an action.  The server's key pair is kept in memory   *)
(* and on disk (serverKey.ts).                                             *)
(***************************************************************************)
EXTENDS Integers

CONSTANTS
    MaxPolls,       \* bound of the model: polls under way, which are numbered
    MaxKeys         \* bound of the model: keys generated

VARIABLES
    tokens,         \* the list at the relay: what it holds, told apart by two values
    disk,           \* the key of the file, 0 when the file cannot be read
    privateKey,     \* the key that signs, 0 while the relay is down
    publicKeyBase64,
    keysMade,
    polls,          \* the answers so far of each that is under way
    resets,         \* answers to POST /api/server-key/reset on their way
    shown,          \* the lists on the page
    prevHashRef,    \* the lists last applied
    fresh,          \* history: the list applied last was given after its last change
    failedReset,    \* history: a reset could not write the file
    lateReset       \* history: a reset was answered to the page after another one

vars == <<tokens, disk, privateKey, publicKeyBase64, keysMade, polls, resets, shown,
          prevHashRef, fresh, failedReset, lateReset>>
relayVars == <<tokens, disk, privateKey, publicKeyBase64, keysMade, failedReset>>
pageVars == <<shown, prevHashRef, lateReset>>

Lists == {"tokens", "key"}
Unknown == -1                               \* before the first answer
NotAsked == [state |-> "none", value |-> 0, new |-> TRUE]
Asked == [state |-> "asked", value |-> 0, new |-> TRUE]
Failed == [state |-> "failed", value |-> 0, new |-> TRUE]
Answer == [state : {"none", "asked", "failed", "given"}, value : 0..MaxKeys, new : BOOLEAN]

Polls == 1..MaxPolls
NoPoll == [l \in Lists |-> NotAsked]

TypeOK ==
    /\ tokens \in 0..1
    /\ {disk, privateKey, publicKeyBase64, keysMade} \subseteq 0..MaxKeys
    /\ polls \in [Polls -> [Lists -> Answer]] /\ resets \subseteq [value : 1..MaxKeys, new : BOOLEAN]
    /\ {shown, prevHashRef} \subseteq [Lists -> 0..MaxKeys \union {Unknown}]
    /\ fresh \in [Lists -> BOOLEAN] /\ {failedReset, lateReset} \subseteq BOOLEAN

\* initServerKey has generated the first key
Init ==
    /\ tokens = 0 /\ disk = 1 /\ privateKey = 1 /\ publicKeyBase64 = 1 /\ keysMade = 1
    /\ polls = [n \in Polls |-> NoPoll] /\ resets = {}
    /\ shown = [l \in Lists |-> Unknown] /\ prevHashRef = shown
    /\ fresh = [l \in Lists |-> FALSE] /\ failedReset = FALSE /\ lateReset = FALSE

Up == privateKey # 0
ListAtRelay(l) == IF l = "tokens" THEN tokens ELSE publicKeyBase64

\* What is on its way about a changed list is not new any more
OldPolls(l) ==
    polls' = [n \in Polls |-> [polls[n] EXCEPT ![l].new = (polls[n][l].state # "given") /\ @]]
OldNews(l) == OldPolls(l) /\ fresh' = [fresh EXCEPT ![l] = FALSE]

-----------------------------------------------------------------------------
\* The relay
TokensChange ==
    /\ tokens' = 1 - tokens
    /\ OldNews("tokens")
    /\ UNCHANGED <<disk, privateKey, publicKeyBase64, keysMade, failedReset, resets, pageVars>>

\* resetServerKey: the private key is replaced before the file is written and the
\* public key after
ResetKey ==
    /\ Up /\ keysMade < MaxKeys
    /\ keysMade' = keysMade + 1 /\ privateKey' = keysMade'
    /\ disk' = keysMade' /\ publicKeyBase64' = keysMade'
    /\ OldNews("key")
    /\ resets' = {[r EXCEPT !.new = FALSE] : r \in resets} \union {[value |-> keysMade', new |-> TRUE]}
    /\ UNCHANGED <<tokens, failedReset, pageVars>>

\* The file cannot be written, or not to its end: answered 500
ResetKeyFails ==
    /\ Up /\ keysMade < MaxKeys
    /\ keysMade' = keysMade + 1 /\ privateKey' = keysMade'
    /\ disk' \in {disk, 0}
    /\ failedReset' = TRUE
    /\ UNCHANGED <<tokens, publicKeyBase64, polls, resets, pageVars, fresh>>

\* The process ends, whatever it has not answered fails
Stop ==
    /\ Up /\ privateKey' = 0
    /\ UNCHANGED <<tokens, disk, publicKeyBase64, keysMade, failedReset, polls, resets,
                   pageVars, fresh>>

\* initServerKey: without a readable key it does not come up
Restart ==
    /\ ~Up /\ disk # 0
    /\ privateKey' = disk /\ publicKeyBase64' = disk
    /\ failedReset' = FALSE
    /\ IF publicKeyBase64' = publicKeyBase64 THEN UNCHANGED <<polls, fresh>> ELSE OldNews("key")
    /\ UNCHANGED <<tokens, disk, keysMade, resets, pageVars>>

-----------------------------------------------------------------------------
\* The page: fetchAll, by the timer or after an action
FetchAll(n) ==
    /\ polls[n] = NoPoll
    /\ polls' = [polls EXCEPT ![n] = [l \in Lists |-> Asked]]
    /\ UNCHANGED <<relayVars, resets, pageVars, fresh>>

\* One of its requests is answered, or refused with an error status
AnswerList(n, l) ==
    /\ polls[n][l] = Asked
    /\ \E a \in IF Up THEN {Failed, [state |-> "given", value |-> ListAtRelay(l), new |-> TRUE]}
                ELSE {Failed} :
         polls' = [polls EXCEPT ![n][l] = a]
    /\ UNCHANGED <<relayVars, resets, pageVars, fresh>>

\* Promise.all rejects: the lists stay
PollRejects(n) ==
    /\ \E l \in Lists : polls[n][l].state \in {"asked", "failed"}
    /\ polls' = [polls EXCEPT ![n] = NoPoll]
    /\ UNCHANGED <<relayVars, resets, pageVars, fresh>>

BugHashOnce(l, v) == IF prevHashRef[l] = Unknown THEN v ELSE prevHashRef[l]
HashAfter(l, v) == v

PollApplied(n) ==
    /\ \A l \in Lists : polls[n][l].state \in {"failed", "given"}
    /\ polls' = [polls EXCEPT ![n] = NoPoll]
    /\ LET p == polls[n]
           given == {l \in Lists : p[l].state = "given"}
           news == {l \in given : p[l].value # prevHashRef[l]} IN
         /\ shown' = [l \in Lists |-> IF l \in news THEN p[l].value ELSE shown[l]]
         /\ prevHashRef' = [l \in Lists |->
                              IF l \in news THEN HashAfter(l, p[l].value) ELSE prevHashRef[l]]
         /\ fresh' = [l \in Lists |-> IF l \in given THEN p[l].new ELSE fresh[l]]
    /\ UNCHANGED <<relayVars, resets, lateReset>>

\* handleResetKey is answered: the key is shown, prevHashRef is not told
ResetApplied(r) ==
    /\ resets' = resets \ {r}
    /\ shown' = [shown EXCEPT !["key"] = r.value]
    /\ fresh' = [fresh EXCEPT !["key"] = r.new]
    /\ lateReset' = (lateReset \/ ~r.new)
    /\ UNCHANGED <<relayVars, polls, prevHashRef>>

Next ==
    \/ TokensChange \/ ResetKey \/ ResetKeyFails \/ Stop \/ Restart
    \/ \E n \in Polls : \/ FetchAll(n) \/ PollRejects(n) \/ PollApplied(n)
                        \/ \E l \in Lists : AnswerList(n, l)
    \/ \E r \in resets : ResetApplied(r)

Spec == Init /\ [][Next]_vars

-----------------------------------------------------------------------------
\* In whatever order the polls and the resets of the key are answered, and though
\* a list that looks unchanged is not applied, a list whose last applied answer was
\* given after its last change is shown as the relay has it.  The key so shown, which
\* agents are to pin, is the one the relay signs with and will have after a restart,
\* as long as no reset failed and none was answered to the page out of date.
ShownIsFresh ==
    /\ fresh["tokens"] => shown["tokens"] = tokens
    /\ Up /\ fresh["key"] /\ ~failedReset /\ ~lateReset =>
         {shown["key"], disk, publicKeyBase64} = {privateKey}
\* Inductive.  The public key only becomes newer, and the file holds it or cannot be
\* read; an answer is new while it is what the relay has; and the list last applied
\* is the one shown, or a reset has replaced a key that does not come back.
KeysAgree ==
    /\ publicKeyBase64 \in 1..keysMade /\ keysMade \in Nat
    /\ disk \in {0, publicKeyBase64}
    /\ Up /\ ~failedReset => privateKey = publicKeyBase64 /\ disk = publicKeyBase64
IsPoll(p) ==
    /\ p = [l \in Lists |-> p[l]]
    /\ \A l \in Lists : p[l] = [state |-> p[l].state, value |-> p[l].value, new |-> p[l].new]
PollOfRelay(p) ==
    /\ \A l \in Lists : p[l].state = "given" /\ p[l].new => p[l].value = ListAtRelay(l)
    /\ p["key"].state = "given" => p["key"].value \in 0..publicKeyBase64
ResetOfRelay(r) ==
    /\ r = [value |-> r.value, new |-> r.new]
    /\ r.new => r.value = publicKeyBase64
AnswersAreOfRelay ==
    /\ polls = [n \in Polls |-> polls[n]]
    /\ \A n \in Polls : IsPoll(polls[n]) /\ PollOfRelay(polls[n])
    /\ \A r \in resets : ResetOfRelay(r)
AppliedIsShown ==
    /\ shown = [l \in Lists |-> shown[l]] /\ prevHashRef = [l \in Lists |-> prevHashRef[l]]
    /\ fresh = [l \in Lists |-> fresh[l]]
    /\ shown["tokens"] = prevHashRef["tokens"]
    /\ prevHashRef["key"] \in Int /\ prevHashRef["key"] <= publicKeyBase64
    /\ ~lateReset => shown["key"] = prevHashRef["key"] \/ prevHashRef["key"] < publicKeyBase64
    /\ fresh["tokens"] => shown["tokens"] = tokens
    /\ fresh["key"] /\ ~lateReset => shown["key"] = publicKeyBase64
PageInv == KeysAgree /\ AnswersAreOfRelay /\ AppliedIsShown
=============================================================================
