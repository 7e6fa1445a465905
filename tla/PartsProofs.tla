------------------------------ MODULE PartsProofs ------------------------------
(***************************************************************************)
(* Proofs about the parts, for any values of their constants.  Parts with  *)
(* a module of proofs of their own are taken from it; the others are       *)
(* proved here, under the names of their instances.                        *)
(***************************************************************************)
EXTENDS Parts, FunctionTheorems, SequenceTheorems, FiniteSetTheorems, WellFoundedInduction, TLAPS

-----------------------------------------------------------------------------
(***************************************************************************)
(* Preferences: prefs, offered, stored, puts, made, handled, resetFonts    *)
(* and seen are x1 to x8                                                   *)
(***************************************************************************)

LEMMA PreferencesInit == Preferences!Init => Preferences!PreferencesInv
BY DEF Preferences!Init, Preferences!PreferencesInv, Preferences!LastPutIsSeen,
       Preferences!ChoicesAreKept

LEMMA ChoiceStep ==
    ASSUME Preferences!PreferencesInv,
           NEW f \in Preferences!Fields, NEW v \in Preferences!Values, Preferences!Choose(f, v)
    PROVE  Preferences!PreferencesInv'
<1>1. x5' = x5 + 1 /\ x6' = x6 /\ ~x7'
  BY DEF Preferences!Choose, Preferences!Put
<1>2. DOMAIN x4' \subseteq 1..x5' /\ x4'[x5'] = x8'
  <2>1. DOMAIN x4' \subseteq 1..x5' /\ x4'[x5'] = Preferences!AllPrefs(f, v)
    BY <1>1 DEF Preferences!PreferencesInv, Preferences!Choose, Preferences!Put
  <2>2. Preferences!AllPrefs(f, v) = x8'
    BY DEF Preferences!Choose, Preferences!AllPrefs
  <2> QED BY <2>1, <2>2
<1>3. x5' \in Nat /\ x6' \in 0..x5' /\ x6' # x5'
  BY <1>1 DEF Preferences!PreferencesInv
<1>4. Preferences!LastPutIsSeen' /\ Preferences!ChoicesAreKept'
  BY <1>2, <1>3 DEF Preferences!LastPutIsSeen, Preferences!ChoicesAreKept
<1> QED BY <1>2, <1>3, <1>4 DEF Preferences!PreferencesInv

LEMMA HandledStep ==
    ASSUME Preferences!PreferencesInv, NEW n \in DOMAIN x4,
           Preferences!Handle(n) \/ Preferences!PutLost(n)
    PROVE  Preferences!PreferencesInv'
<1> USE DEF Preferences!PreferencesInv
<1>1. x5' = x5 /\ x7' = x7 /\ x8' = x8 /\ x4' = [m \in DOMAIN x4 \ {n} |-> x4[m]]
  BY DEF Preferences!Handle, Preferences!PutLost
<1>2. DOMAIN x4' \subseteq 1..x5' /\ Preferences!LastPutIsSeen'
  BY <1>1 DEF Preferences!LastPutIsSeen
<1>3. CASE Preferences!Handle(n)
  <2>1. x6' = n /\ \A f \in Preferences!Kept : f \in DOMAIN x3' /\ x3'[f] = x4[n][f]
    BY <1>3 DEF Preferences!Handle
  <2> QED BY <1>1, <1>2, <2>1 DEF Preferences!LastPutIsSeen, Preferences!ChoicesAreKept
<1>4. CASE Preferences!PutLost(n)
  BY <1>1, <1>2, <1>4 DEF Preferences!PutLost, Preferences!ChoicesAreKept
<1> QED BY <1>3, <1>4

LEMMA PreferencesNext ==
    Preferences!PreferencesInv /\ [Preferences!Next]_(Preferences!vars)
      => Preferences!PreferencesInv'
<1> SUFFICES ASSUME Preferences!PreferencesInv, [Preferences!Next]_(Preferences!vars)
             PROVE  Preferences!PreferencesInv'
  OBVIOUS
<1> USE DEF Preferences!LastPutIsSeen, Preferences!ChoicesAreKept
<1>1. CASE Preferences!ResetFont
  BY <1>1 DEF Preferences!PreferencesInv, Preferences!ResetFont, Preferences!Put
<1>2. CASE Preferences!Offer \/ Preferences!Login \/ UNCHANGED Preferences!vars
  BY <1>2 DEF Preferences!PreferencesInv, Preferences!Offer, Preferences!Login, Preferences!vars
<1> QED BY <1>1, <1>2, ChoiceStep, HandledStep DEF Preferences!Next

-----------------------------------------------------------------------------
(***************************************************************************)
(* AppShell: agents, connected, view, selectedAgentId, mountedAgentIds and *)
(* panels are x1 to x6                                                     *)
(***************************************************************************)

LEMMA AppShellInit == AppShell!Init => AppShell!AppShellInv
BY DEF AppShell!Init, AppShell!AppShellInv, AppShell!Online

LEMMA RenderStep ==
    ASSUME AppShell!AppShellInv, NEW list, NEW selected, AppShell!Render(list, selected),
           \A a \in DOMAIN list : list[a] \in BOOLEAN
    PROVE  AppShell!AppShellInv'
BY DEF AppShell!AppShellInv, AppShell!Render, AppShell!Mounted, AppShell!Online

LEMMA AppShellNext ==
    AppShell!AppShellInv /\ [AppShell!Next]_(AppShell!vars) => AppShell!AppShellInv'
<1> SUFFICES ASSUME AppShell!AppShellInv, [AppShell!Next]_(AppShell!vars)
             PROVE  AppShell!AppShellInv'
  OBVIOUS
<1>1. \A a \in DOMAIN x1 : x1[a] \in BOOLEAN
  BY DEF AppShell!AppShellInv
<1>2. CASE AppShell!ListChanges
  <2>1. PICK list \in AppShell!Lists : AppShell!Render(list, x4)
    BY <1>2 DEF AppShell!ListChanges
  <2> QED BY <2>1, RenderStep DEF AppShell!Lists
<1>3. CASE AppShell!SocketChanges \/ AppShell!Navigate \/ AppShell!DeleteAgent
             \/ \E a \in Names : AppShell!OpenAgent(a)
  BY <1>1, <1>3, RenderStep
     DEF AppShell!SocketChanges, AppShell!Navigate, AppShell!DeleteAgent, AppShell!OpenAgent
<1>4. CASE UNCHANGED AppShell!vars
  BY <1>4 DEF AppShell!vars, AppShell!AppShellInv, AppShell!Online
<1> QED BY <1>2, <1>3, <1>4 DEF AppShell!Next

LEMMA AtMostOne == ASSUME NEW S, NEW x, S \subseteq {x} PROVE Cardinality(S) <= 1
<1>1. Cardinality({}) = 0 /\ Cardinality({x}) = 1
  BY FS_EmptySet, FS_Singleton
<1>2. S = {} \/ S = {x}
  OBVIOUS
<1> QED BY <1>1, <1>2

\* A terminal is displayed only when there is no notice, and then it is the one of
\* the selected machine, which is online
LEMMA AppShellSafe == AppShell!AppShellInv => AppShell!OneContentShown
<1> SUFFICES ASSUME AppShell!AppShellInv PROVE AppShell!OneContentShown
  OBVIOUS
<1> DEFINE terminals == {a \in x6 : AppShell!Displayed(a)}
<1>1. (\E n : AppShell!Notice = {n}) \/ AppShell!Notice = {}
  BY DEF AppShell!Notice
<1>2. terminals \subseteq {x4}
  BY DEF AppShell!Displayed
<1>3. terminals # {} => AppShell!Notice = {}
  BY DEF AppShell!Displayed, AppShell!Notice, AppShell!AppShellInv
<1>4. \E n : AppShell!Filling \subseteq {n}
  BY <1>1, <1>2, <1>3 DEF AppShell!Filling
<1>5. ASSUME x6 = x5, AppShell!Notice = {} PROVE x4 \in terminals
  <2>1. x3 = "terminal" /\ x2 /\ x4 \in DOMAIN x1 /\ x1[x4]
    BY <1>5 DEF AppShell!Notice
  <2>2. x4 \in x6
    BY <1>5, <2>1 DEF AppShell!AppShellInv, AppShell!Online
  <2> QED BY <2>1, <2>2 DEF AppShell!Displayed
<1>6. x6 = x5 => AppShell!Filling # {}
  BY <1>1, <1>5 DEF AppShell!Filling
<1>7. AppShell!Cardinality(AppShell!Filling) <= 1
  BY <1>4, AtMostOne DEF Cardinality, AppShell!Cardinality
<1> QED BY <1>6, <1>7 DEF AppShell!OneContentShown

-----------------------------------------------------------------------------
(***************************************************************************)
(* KnownAgents: stored, open, checked, checks, warning and confirming are  *)
(* x1 to x6                                                                *)
(***************************************************************************)

\* The store is written by a check and by the user's consent
LEMMA PinsStep == [KnownAgents!Next]_(KnownAgents!vars) => KnownAgents!PinsChangeForCause
<1> SUFFICES ASSUME [KnownAgents!Next]_(KnownAgents!vars), NEW a \in DOMAIN x1,
                    ~KnownAgents!KeyKept(a)
             PROVE  \/ x6 /\ x5[1] = a /\ x5' = Nothing
                    \/ \E c \in x4 \ x4' : KnownAgents!Stale(c)
  BY DEF KnownAgents!PinsChangeForCause
<1>1. x1' # x1
  BY DEF KnownAgents!KeyKept
<1>2. ASSUME NEW c \in x4, KnownAgents!CheckEnds(c)
      PROVE  c \in x4 \ x4' /\ KnownAgents!Stale(c)
  BY <1>1, <1>2 DEF KnownAgents!CheckEnds, KnownAgents!Stale, KnownAgents!Trusted,
     KnownAgents!With, KnownAgents!KeyKept
<1>3. CASE KnownAgents!AcceptNewIdentity
  BY <1>3 DEF KnownAgents!AcceptNewIdentity, KnownAgents!With, KnownAgents!KeyKept
<1>4. CASE \/ \E b \in Names, k \in Tabs : KnownAgents!AgentOnline(b, k)
           \/ KnownAgents!LoadApp \/ KnownAgents!LeaveApp
           \/ KnownAgents!TrustNewIdentity \/ KnownAgents!RejectFingerprint
           \/ UNCHANGED KnownAgents!vars
  BY <1>1, <1>4 DEF KnownAgents!AgentOnline, KnownAgents!LoadApp, KnownAgents!LeaveApp,
     KnownAgents!TrustNewIdentity, KnownAgents!RejectFingerprint, KnownAgents!vars
<1> QED BY <1>2, <1>3, <1>4 DEF KnownAgents!Next

-----------------------------------------------------------------------------
(***************************************************************************)
(* AgentsPage: tokens, disk, privateKey, publicKeyBase64 and keysMade are  *)
(* x1 to x5, polls and resets x6 and x7, shown, prevHashRef and fresh x8   *)
(* to x10, failedReset and lateReset x11 and x12                           *)
(***************************************************************************)

LEMMA PageInit == AgentsPage!Init => AgentsPage!PageInv
BY DEF AgentsPage!Init, AgentsPage!PageInv, AgentsPage!KeysAgree, AgentsPage!Up,
       AgentsPage!AnswersAreOfRelay, AgentsPage!AppliedIsShown, AgentsPage!Lists,
       AgentsPage!Unknown, AgentsPage!NoPoll, AgentsPage!NotAsked, AgentsPage!IsPoll,
       AgentsPage!PollOfRelay

LEMMA KeysStep ==
    ASSUME AgentsPage!PageInv, [AgentsPage!Next]_(AgentsPage!vars)
    PROVE  AgentsPage!KeysAgree' /\ x4 \in Nat /\ x4' \in Nat /\ x4 <= x4'
<1> USE DEF AgentsPage!PageInv, AgentsPage!KeysAgree, AgentsPage!Up
<1>1. CASE AgentsPage!ResetKey \/ AgentsPage!ResetKeyFails \/ AgentsPage!Stop \/ AgentsPage!Restart
  BY <1>1 DEF AgentsPage!ResetKey, AgentsPage!ResetKeyFails, AgentsPage!Stop, AgentsPage!Restart
<1>2. UNCHANGED AgentsPage!relayVars =>
        AgentsPage!KeysAgree' /\ x4 \in Nat /\ x4' \in Nat /\ x4 <= x4'
  BY DEF AgentsPage!relayVars
<1>3. CASE AgentsPage!TokensChange
  BY <1>3 DEF AgentsPage!TokensChange
<1>4. CASE \/ UNCHANGED AgentsPage!vars
           \/ \E n \in AgentsPage!Polls :
                \/ AgentsPage!FetchAll(n) \/ AgentsPage!PollRejects(n) \/ AgentsPage!PollApplied(n)
                \/ \E l \in AgentsPage!Lists : AgentsPage!AnswerList(n, l)
           \/ \E r \in x7 : AgentsPage!ResetApplied(r)
  <2> HIDE DEF AgentsPage!PageInv, AgentsPage!KeysAgree, AgentsPage!Up
  <2>1. UNCHANGED AgentsPage!relayVars
    BY <1>4 DEF AgentsPage!FetchAll, AgentsPage!PollRejects, AgentsPage!PollApplied,
       AgentsPage!AnswerList, AgentsPage!ResetApplied, AgentsPage!vars, AgentsPage!relayVars
  <2> QED BY <1>2, <2>1
<1> QED BY <1>1, <1>3, <1>4 DEF AgentsPage!Next

\* Of a list that changes no answer under way is new
LEMMA OldAnswers ==
    ASSUME NEW p, AgentsPage!IsPoll(p), AgentsPage!PollOfRelay(p), NEW l \in AgentsPage!Lists, NEW q,
           q = [p EXCEPT ![l].new = (p[l].state # "given") /\ @],
           \A k \in AgentsPage!Lists \ {l} : AgentsPage!ListAtRelay(k)' = AgentsPage!ListAtRelay(k),
           x4 \in Nat, x4' \in Nat, x4 <= x4'
    PROVE  AgentsPage!IsPoll(q) /\ AgentsPage!PollOfRelay(q)'
<1>1. AgentsPage!IsPoll(q) /\ \A k \in AgentsPage!Lists :
        /\ q[k].state = p[k].state /\ q[k].value = p[k].value
        /\ q[k].new => p[k].new /\ (k = l => p[k].state # "given")
  <2>1. q = [k \in AgentsPage!Lists |-> IF k = l THEN [p[l] EXCEPT !.new = (p[l].state # "given") /\ @]
                                       ELSE p[k]]
    BY DEF AgentsPage!IsPoll
  <2>2. PICK a : a = [p[l] EXCEPT !.new = (p[l].state # "given") /\ @]
    OBVIOUS
  <2>3. a = [state |-> p[l].state, value |-> p[l].value, new |-> (p[l].state # "given") /\ p[l].new]
    BY <2>2 DEF AgentsPage!IsPoll
  <2>4. q[l] = a /\ \A k \in AgentsPage!Lists \ {l} : q[k] = p[k]
    BY <2>1, <2>2
  <2>5. \A k \in AgentsPage!Lists : q[k] = [state |-> q[k].state, value |-> q[k].value, new |-> q[k].new]
    BY <2>3, <2>4 DEF AgentsPage!IsPoll
  <2>6. q = [k \in AgentsPage!Lists |-> q[k]]
    BY <2>1
  <2>7. /\ q[l].state = p[l].state /\ q[l].value = p[l].value
        /\ q[l].new = ((p[l].state # "given") /\ p[l].new)
    BY <2>3, <2>4
  <2>8. \A k \in AgentsPage!Lists : /\ q[k].state = p[k].state /\ q[k].value = p[k].value
                                     /\ q[k].new => p[k].new /\ (k = l => p[k].state # "given")
    <3> SUFFICES ASSUME NEW k \in AgentsPage!Lists
                 PROVE  /\ q[k].state = p[k].state /\ q[k].value = p[k].value
                        /\ q[k].new => p[k].new /\ (k = l => p[k].state # "given")
      OBVIOUS
    <3>1. CASE k = l
      BY Zenon, <2>7, <3>1
    <3>2. CASE k # l
      BY Zenon, <2>4, <3>2
    <3> QED BY <3>1, <3>2
  <2>9. AgentsPage!IsPoll(q)
    BY Zenon, <2>5, <2>6 DEF AgentsPage!IsPoll
  <2> QED BY <2>8, <2>9
<1> QED BY <1>1 DEF AgentsPage!PollOfRelay, AgentsPage!Lists

\* A poll that is not under way
LEMMA NoPollOfRelay ==
    ASSUME NEW a \in {AgentsPage!NotAsked, AgentsPage!Asked}
    PROVE  /\ AgentsPage!IsPoll([l \in AgentsPage!Lists |-> a])
           /\ AgentsPage!PollOfRelay([l \in AgentsPage!Lists |-> a])
           /\ AgentsPage!PollOfRelay([l \in AgentsPage!Lists |-> a])'
BY DEF AgentsPage!NotAsked, AgentsPage!Asked, AgentsPage!IsPoll, AgentsPage!PollOfRelay,
   AgentsPage!Lists

\* The polls after a step that does not change what the relay has
LEMMA PollsStep ==
    ASSUME AgentsPage!PageInv, UNCHANGED <<x1, x4>>, x7' \subseteq x7,
           x6' = [n \in AgentsPage!Polls |-> x6'[n]],
           \A n \in AgentsPage!Polls :
              x6'[n] # x6[n] => AgentsPage!IsPoll(x6'[n]) /\ AgentsPage!PollOfRelay(x6'[n])
    PROVE  AgentsPage!AnswersAreOfRelay'
<1>1. /\ \A n \in AgentsPage!Polls : AgentsPage!IsPoll(x6[n]) /\ AgentsPage!PollOfRelay(x6[n])
      /\ \A r \in x7 : AgentsPage!ResetOfRelay(r)
  BY DEF AgentsPage!PageInv, AgentsPage!AnswersAreOfRelay
<1>2. \A n \in AgentsPage!Polls : AgentsPage!IsPoll(x6'[n]) /\ AgentsPage!PollOfRelay(x6'[n])
  BY <1>1
<1>3. \A q : AgentsPage!PollOfRelay(q) => AgentsPage!PollOfRelay(q)'
  BY DEF AgentsPage!PollOfRelay, AgentsPage!ListAtRelay
<1>4. \A r \in x7' : AgentsPage!ResetOfRelay(r)'
  BY <1>1 DEF AgentsPage!ResetOfRelay
<1>5. ASSUME NEW n \in AgentsPage!Polls
      PROVE  AgentsPage!IsPoll(x6'[n]) /\ AgentsPage!PollOfRelay(x6[n])'
  <2>1. PICK q : q = x6'[n]
    OBVIOUS
  <2>2. AgentsPage!IsPoll(q) /\ AgentsPage!PollOfRelay(q)'
    BY <1>2, <1>3, <2>1
  <2> QED BY <2>1, <2>2 DEF AgentsPage!PollOfRelay
<1> QED BY <1>4, <1>5 DEF AgentsPage!AnswersAreOfRelay, AgentsPage!IsPoll

LEMMA AnswerStep ==
    ASSUME AgentsPage!PageInv, NEW n \in AgentsPage!Polls, NEW l \in AgentsPage!Lists,
           AgentsPage!AnswerList(n, l)
    PROVE  AgentsPage!AnswersAreOfRelay'
<1>1. PICK a : /\ a = AgentsPage!Failed
                  \/ a = [state |-> "given", value |-> AgentsPage!ListAtRelay(l), new |-> TRUE]
               /\ x6' = [x6 EXCEPT ![n][l] = a]
  BY DEF AgentsPage!AnswerList
<1>2. x1' = x1 /\ x4' = x4 /\ x7' = x7
  BY DEF AgentsPage!AnswerList, AgentsPage!relayVars
<1>3. PICK p, q : p = x6[n] /\ q = [p EXCEPT ![l] = a]
  OBVIOUS
<1>4. /\ AgentsPage!IsPoll(p) /\ AgentsPage!PollOfRelay(p)
      /\ x6 = [k \in AgentsPage!Polls |-> x6[k]]
  BY <1>3 DEF AgentsPage!PageInv, AgentsPage!AnswersAreOfRelay
<1>5. q = [k \in AgentsPage!Lists |-> IF k = l THEN a ELSE p[k]]
  BY <1>3, <1>4 DEF AgentsPage!IsPoll
<1>6. AgentsPage!IsPoll(q)
  BY <1>1, <1>4, <1>5 DEF AgentsPage!IsPoll, AgentsPage!Failed
<1>7. l = "key" => AgentsPage!ListAtRelay(l) \in 0..x4
  BY DEF AgentsPage!ListAtRelay, AgentsPage!PageInv, AgentsPage!KeysAgree
<1>8. AgentsPage!PollOfRelay(q)
  BY <1>1, <1>4, <1>5, <1>7 DEF AgentsPage!PollOfRelay, AgentsPage!Failed, AgentsPage!Lists
<1>9. x6' = [x6 EXCEPT ![n] = q]
  BY <1>1, <1>3
<1>10. /\ x6' = [k \in AgentsPage!Polls |-> x6'[k]]
       /\ \A k \in AgentsPage!Polls : x6'[k] # x6[k] => x6'[k] = q
  BY <1>4, <1>9
<1> QED BY <1>2, <1>6, <1>8, <1>10, PollsStep

\* A change of a list: the answers about it are old
LEMMA OldPollsStep ==
    ASSUME AgentsPage!PageInv, NEW l \in AgentsPage!Lists, AgentsPage!OldPolls(l),
           \A k \in AgentsPage!Lists \ {l} : AgentsPage!ListAtRelay(k)' = AgentsPage!ListAtRelay(k),
           x4' \in Nat, x4 <= x4'
    PROVE  /\ x6' = [n \in AgentsPage!Polls |-> x6'[n]]
           /\ \A n \in AgentsPage!Polls :
                 AgentsPage!IsPoll(x6'[n]) /\ AgentsPage!PollOfRelay(x6[n])'
<1>1. x4 \in Nat
  BY DEF AgentsPage!PageInv, AgentsPage!KeysAgree
<1>2. \A n \in AgentsPage!Polls : AgentsPage!IsPoll(x6[n]) /\ AgentsPage!PollOfRelay(x6[n])
  BY DEF AgentsPage!PageInv, AgentsPage!AnswersAreOfRelay
<1>3. /\ x6' = [n \in AgentsPage!Polls |-> x6'[n]]
      /\ \A n \in AgentsPage!Polls :
            x6'[n] = [x6[n] EXCEPT ![l].new = (x6[n][l].state # "given") /\ @]
  BY DEF AgentsPage!OldPolls
<1>4. ASSUME NEW n \in AgentsPage!Polls
      PROVE  AgentsPage!IsPoll(x6'[n]) /\ AgentsPage!PollOfRelay(x6[n])'
  <2>1. PICK p, q : p = x6[n] /\ q = [p EXCEPT ![l].new = (p[l].state # "given") /\ @]
    OBVIOUS
  <2>2. q = x6'[n] /\ AgentsPage!IsPoll(p) /\ AgentsPage!PollOfRelay(p)
    BY <1>2, <1>3, <2>1
  <2>3. AgentsPage!IsPoll(q) /\ AgentsPage!PollOfRelay(q)'
    BY <1>1, <2>1, <2>2, OldAnswers
  <2> QED BY <2>2, <2>3 DEF AgentsPage!PollOfRelay
<1> QED BY <1>3, <1>4

LEMMA AnswersStep ==
    ASSUME AgentsPage!PageInv, [AgentsPage!Next]_(AgentsPage!vars)
    PROVE  AgentsPage!AnswersAreOfRelay'
<1>0. x4 \in Nat /\ x4' \in Nat /\ x4 <= x4'
  BY KeysStep
<1>1. /\ \A r \in x7 : AgentsPage!ResetOfRelay(r)
      /\ x6 = [n \in AgentsPage!Polls |-> x6[n]]
  BY DEF AgentsPage!PageInv, AgentsPage!AnswersAreOfRelay
<1>2. ASSUME x1' = x1, x4' = x4, x6' = x6, x7' \subseteq x7
      PROVE  AgentsPage!AnswersAreOfRelay'
  BY <1>1, <1>2, PollsStep
<1>3. CASE AgentsPage!TokensChange
  <2>1. x4' = x4 /\ x7' = x7 /\ AgentsPage!OldPolls("tokens")
    BY <1>3 DEF AgentsPage!TokensChange, AgentsPage!OldNews
  <2>2. /\ x6' = [n \in AgentsPage!Polls |-> x6'[n]]
        /\ \A n \in AgentsPage!Polls :
              AgentsPage!IsPoll(x6'[n]) /\ AgentsPage!PollOfRelay(x6[n])'
    BY <1>0, <2>1, OldPollsStep DEF AgentsPage!Lists, AgentsPage!ListAtRelay
  <2>3. \A r \in x7' : AgentsPage!ResetOfRelay(r)'
    BY <1>1, <2>1 DEF AgentsPage!ResetOfRelay
  <2> QED BY <2>2, <2>3 DEF AgentsPage!AnswersAreOfRelay, AgentsPage!IsPoll
<1>4. CASE AgentsPage!ResetKey
  <2>1. /\ x1' = x1 /\ AgentsPage!OldPolls("key")
        /\ x7' = {[r EXCEPT !.new = FALSE] : r \in x7} \union {[value |-> x4', new |-> TRUE]}
    BY <1>4 DEF AgentsPage!ResetKey, AgentsPage!OldNews
  <2>2. /\ x6' = [n \in AgentsPage!Polls |-> x6'[n]]
        /\ \A n \in AgentsPage!Polls :
              AgentsPage!IsPoll(x6'[n]) /\ AgentsPage!PollOfRelay(x6[n])'
    BY <1>0, <2>1, OldPollsStep DEF AgentsPage!Lists, AgentsPage!ListAtRelay
  <2>3. \A r \in x7' : AgentsPage!ResetOfRelay(r)'
    BY <1>1, <2>1 DEF AgentsPage!ResetOfRelay
  <2> QED BY <2>2, <2>3 DEF AgentsPage!AnswersAreOfRelay, AgentsPage!IsPoll
<1>5. CASE AgentsPage!Restart
  <2>1. x4' = x4 /\ x1' = x1 /\ x6' = x6 /\ x7' = x7
    BY <1>5 DEF AgentsPage!Restart, AgentsPage!PageInv, AgentsPage!KeysAgree
  <2> QED BY <1>2, <2>1
<1>6. ASSUME NEW n \in AgentsPage!Polls,
             AgentsPage!FetchAll(n) \/ AgentsPage!PollRejects(n) \/ AgentsPage!PollApplied(n)
      PROVE  AgentsPage!AnswersAreOfRelay'
  <2>1. PICK a \in {AgentsPage!NotAsked, AgentsPage!Asked} :
           x6' = [x6 EXCEPT ![n] = [l \in AgentsPage!Lists |-> a]]
    BY <1>6 DEF AgentsPage!FetchAll, AgentsPage!PollRejects, AgentsPage!PollApplied,
       AgentsPage!NoPoll
  <2>2. x1' = x1 /\ x4' = x4 /\ x7' = x7
    BY <1>6 DEF AgentsPage!FetchAll, AgentsPage!PollRejects, AgentsPage!PollApplied,
       AgentsPage!relayVars
  <2>3. PICK q : /\ q = [l \in AgentsPage!Lists |-> a]
                 /\ AgentsPage!IsPoll(q) /\ AgentsPage!PollOfRelay(q)
    BY NoPollOfRelay
  <2>4. /\ x6' = [k \in AgentsPage!Polls |-> x6'[k]]
        /\ \A k \in AgentsPage!Polls : x6'[k] # x6[k] => x6'[k] = q
    BY <1>1, <2>1, <2>3
  <2> QED BY <2>2, <2>3, <2>4, PollsStep
<1>8. CASE \/ AgentsPage!ResetKeyFails \/ AgentsPage!Stop \/ UNCHANGED AgentsPage!vars
           \/ \E r \in x7 : AgentsPage!ResetApplied(r)
  <2>1. x1' = x1 /\ x4' = x4 /\ x6' = x6 /\ x7' \subseteq x7
    BY <1>8 DEF AgentsPage!ResetKeyFails, AgentsPage!Stop, AgentsPage!ResetApplied,
       AgentsPage!vars, AgentsPage!relayVars
  <2> QED BY <1>2, <2>1
<1> QED BY <1>3, <1>4, <1>5, <1>6, <1>8, AnswerStep DEF AgentsPage!Next

\* A poll is applied: what is given and new is shown, whether it is applied or not
LEMMA AppliedStep ==
    ASSUME AgentsPage!PageInv, NEW n \in AgentsPage!Polls, AgentsPage!PollApplied(n)
    PROVE  AgentsPage!AppliedIsShown'
<1> USE DEF AgentsPage!HashAfter, AgentsPage!Lists
<1>0. PICK p : p = x6[n]
  OBVIOUS
<1>1. /\ AgentsPage!IsPoll(p) /\ AgentsPage!PollOfRelay(p)
      /\ x4 \in Nat /\ AgentsPage!AppliedIsShown
  BY <1>0 DEF AgentsPage!PageInv, AgentsPage!AnswersAreOfRelay, AgentsPage!KeysAgree
<1>2. x1' = x1 /\ x4' = x4 /\ x12' = x12
  BY DEF AgentsPage!PollApplied, AgentsPage!relayVars
<1> DEFINE Given(l) == p[l].state = "given"
           News(l) == Given(l) /\ p[l].value # x9[l]
<1>3. /\ x8' = [l \in AgentsPage!Lists |-> IF News(l) THEN p[l].value ELSE x8[l]]
      /\ x9' = [l \in AgentsPage!Lists |-> IF News(l) THEN p[l].value ELSE x9[l]]
      /\ x10' = [l \in AgentsPage!Lists |-> IF Given(l) THEN p[l].new ELSE x10[l]]
  BY <1>0 DEF AgentsPage!PollApplied
<1>4. \A l \in AgentsPage!Lists :
        /\ x8'[l] = IF News(l) THEN p[l].value ELSE x8[l]
        /\ x9'[l] = IF News(l) THEN p[l].value ELSE x9[l]
        /\ x10'[l] = IF Given(l) THEN p[l].new ELSE x10[l]
  BY <1>3
<1>5. /\ x8' = [l \in AgentsPage!Lists |-> x8'[l]]
      /\ x9' = [l \in AgentsPage!Lists |-> x9'[l]]
      /\ x10' = [l \in AgentsPage!Lists |-> x10'[l]]
  BY <1>3
<1>6. /\ x8'["tokens"] = x9'["tokens"]
      /\ x10'["tokens"] => x8'["tokens"] = x1'
  BY <1>1, <1>2, <1>4 DEF AgentsPage!PollOfRelay, AgentsPage!AppliedIsShown, AgentsPage!ListAtRelay
<1>7. /\ x9'["key"] \in Int /\ x9'["key"] <= x4'
      /\ ~x12' => x8'["key"] = x9'["key"] \/ x9'["key"] < x4'
      /\ x10'["key"] /\ ~x12' => x8'["key"] = x4'
  BY <1>1, <1>2, <1>4 DEF AgentsPage!PollOfRelay, AgentsPage!AppliedIsShown, AgentsPage!ListAtRelay
<1> QED BY <1>5, <1>6, <1>7 DEF AgentsPage!AppliedIsShown

LEMMA ResetAppliedStep ==
    ASSUME AgentsPage!PageInv, NEW r \in x7, AgentsPage!ResetApplied(r)
    PROVE  AgentsPage!AppliedIsShown'
<1> USE DEF AgentsPage!Lists
<1>1. AgentsPage!ResetOfRelay(r) /\ x4 \in Nat /\ AgentsPage!AppliedIsShown
  BY DEF AgentsPage!PageInv, AgentsPage!AnswersAreOfRelay, AgentsPage!KeysAgree
<1>2. x1' = x1 /\ x4' = x4 /\ x9' = x9
  BY DEF AgentsPage!ResetApplied, AgentsPage!relayVars
<1>3. ~x12' => ~x12 /\ r.new
  BY Zenon DEF AgentsPage!ResetApplied
<1>4. /\ x8' = [x8 EXCEPT !["key"] = r.value]
      /\ x10' = [x10 EXCEPT !["key"] = r.new]
  BY DEF AgentsPage!ResetApplied
<1>5. /\ x8' = [l \in AgentsPage!Lists |-> x8'[l]]
      /\ x10' = [l \in AgentsPage!Lists |-> x10'[l]]
      /\ x8'["key"] = r.value /\ x8'["tokens"] = x8["tokens"] /\ x10'["tokens"] = x10["tokens"]
  BY <1>1, <1>4 DEF AgentsPage!AppliedIsShown
<1> QED BY <1>1, <1>2, <1>3, <1>5 DEF AgentsPage!AppliedIsShown, AgentsPage!ResetOfRelay

LEMMA PageNext ==
    AgentsPage!PageInv /\ [AgentsPage!Next]_(AgentsPage!vars) => AgentsPage!PageInv'
<1> SUFFICES ASSUME AgentsPage!PageInv, [AgentsPage!Next]_(AgentsPage!vars)
             PROVE  AgentsPage!AppliedIsShown'
  BY KeysStep, AnswersStep DEF AgentsPage!PageInv
<1>0. x4 \in Nat /\ x4' \in Nat /\ x4 <= x4' /\ AgentsPage!AppliedIsShown
  BY KeysStep DEF AgentsPage!PageInv
<1>1. ASSUME x8' = x8, x9' = x9, x12' = x12, NEW l \in AgentsPage!Lists,
             x10' = [x10 EXCEPT ![l] = FALSE], l # "tokens" => x1' = x1, l # "key" => x4' = x4
      PROVE  AgentsPage!AppliedIsShown'
  <2>1. x10' = [k \in AgentsPage!Lists |-> x10'[k]]
    BY <1>0, <1>1 DEF AgentsPage!AppliedIsShown
  <2>2. ~x10'[l] /\ \A k \in AgentsPage!Lists \ {l} : x10'[k] = x10[k]
    BY <1>0, <1>1 DEF AgentsPage!AppliedIsShown
  <2>3. CASE l = "tokens"
    BY <1>0, <1>1, <2>1, <2>2, <2>3 DEF AgentsPage!AppliedIsShown, AgentsPage!Lists
  <2>4. CASE l = "key"
    BY <1>0, <1>1, <2>1, <2>2, <2>4 DEF AgentsPage!AppliedIsShown, AgentsPage!Lists
  <2> QED BY <2>3, <2>4 DEF AgentsPage!Lists
<1>2. CASE AgentsPage!TokensChange
  BY <1>1, <1>2 DEF AgentsPage!TokensChange, AgentsPage!OldNews, AgentsPage!pageVars, AgentsPage!Lists
<1>3. CASE AgentsPage!ResetKey
  BY <1>1, <1>3 DEF AgentsPage!ResetKey, AgentsPage!OldNews, AgentsPage!pageVars, AgentsPage!Lists
<1>4. ASSUME x8' = x8, x9' = x9, x12' = x12, x10' = x10, x1' = x1, x4' = x4
      PROVE  AgentsPage!AppliedIsShown'
  BY <1>0, <1>4 DEF AgentsPage!AppliedIsShown
<1>5. CASE AgentsPage!Restart
  <2>1. x4' = x4 /\ x10' = x10
    BY <1>5 DEF AgentsPage!Restart, AgentsPage!PageInv, AgentsPage!KeysAgree
  <2> QED BY <1>4, <1>5, <2>1 DEF AgentsPage!Restart, AgentsPage!pageVars
<1>6. CASE \/ AgentsPage!ResetKeyFails \/ AgentsPage!Stop \/ UNCHANGED AgentsPage!vars
           \/ \E n \in AgentsPage!Polls :
                \/ AgentsPage!FetchAll(n) \/ AgentsPage!PollRejects(n)
                \/ \E l \in AgentsPage!Lists : AgentsPage!AnswerList(n, l)
  BY <1>4, <1>6 DEF AgentsPage!ResetKeyFails, AgentsPage!Stop, AgentsPage!FetchAll, AgentsPage!vars,
     AgentsPage!PollRejects, AgentsPage!AnswerList, AgentsPage!relayVars, AgentsPage!pageVars
<1> QED BY <1>2, <1>3, <1>5, <1>6, AppliedStep, ResetAppliedStep DEF AgentsPage!Next

LEMMA PageSafe == AgentsPage!PageInv => AgentsPage!ShownIsFresh
BY DEF AgentsPage!PageInv, AgentsPage!KeysAgree, AgentsPage!AppliedIsShown, AgentsPage!ShownIsFresh

-----------------------------------------------------------------------------
(***************************************************************************)
(* UploadOverlay: upload, reading, begun, sendQueue, up and down are x1 to *)
(* x6, pending, deaf, saved and refused x7 to x10                          *)
(***************************************************************************)

LEMMA UploadInit == UploadOverlay!Init => UploadOverlay!UploadInv
BY DEF UploadOverlay!Init, UploadOverlay!UploadInv, UploadOverlay!QueueInOrder,
       UploadOverlay!SentCount, UploadOverlay!AnswersAreTrue, UploadOverlay!OverlayKeepsUp,
       UploadOverlay!None, UploadOverlay!Statuses

LEMMA ConcatFacts ==
    ASSUME NEW S, NEW s \in Seq(S), NEW t \in Seq(S)
    PROVE  /\ s \o t \in Seq(S) /\ Len(s \o t) = Len(s) + Len(t)
           /\ \A i \in 1..Len(s) : (s \o t)[i] = s[i]
           /\ \A i \in 1..Len(t) : (s \o t)[Len(s) + i] = t[i]
OBVIOUS

LEMMA TransferQueued ==
    ASSUME UploadOverlay!UploadInv, UploadOverlay!ImageRead
    PROVE  UploadOverlay!QueueInOrder' /\ UploadOverlay!SentCount' = UploadOverlay!SentCount
<1> DEFINE Queued == [kind : {"start", "chunk", "end", "mark"}, id : Nat \ {0}]
<1>0. /\ x3 \in Nat /\ x4 \in Seq(Queued) /\ UploadOverlay!QueueInOrder
      /\ Len(x4) \in Nat /\ DOMAIN x4 = 1..Len(x4) /\ UploadOverlay!SentCount \in Nat
  BY DEF UploadOverlay!UploadInv, UploadOverlay!QueueInOrder, UploadOverlay!SentCount
<1>1. PICK t : t = UploadOverlay!Transfer(x3 + 1)
  OBVIOUS
<1>2. /\ t \in Seq(Queued) /\ Len(t) = 4
      /\ \A j \in 1..4 : t[j].id = x3 + 1 /\ UploadOverlay!PlaceOf(t[j].kind) = j
  BY <1>0, <1>1 DEF UploadOverlay!Transfer, UploadOverlay!Msg, UploadOverlay!PlaceOf
<1>3. PICK q : q = x4 \o t
  OBVIOUS
<1>4. /\ q \in Seq(Queued) /\ Len(q) = Len(x4) + 4
      /\ \A i \in 1..Len(x4) : q[i] = x4[i]
      /\ \A j \in 1..4 : q[Len(x4) + j] = t[j]
  <2>1. x4 \in Seq(Queued) /\ t \in Seq(Queued)
    BY <1>0, <1>2
  <2> HIDE DEF Queued
  <2>2. /\ x4 \o t \in Seq(Queued) /\ Len(x4 \o t) = Len(x4) + Len(t)
        /\ \A i \in 1..Len(x4) : (x4 \o t)[i] = x4[i]
        /\ \A i \in 1..Len(t) : (x4 \o t)[Len(x4) + i] = t[i]
    BY <2>1, ConcatFacts
  <2> QED BY <1>2, <1>3, <2>2
<1>5. x3' = x3 + 1 /\ x4' = q
  BY <1>1, <1>3 DEF UploadOverlay!ImageRead
<1>6. UploadOverlay!SentCount' = UploadOverlay!SentCount /\ Len(x4') <= 4 * x3'
  <2>1. PICK n \in Nat : n = Len(x4) /\ Len(q) = n + 4
    BY <1>0, <1>4
  <2>2. PICK d : d = Len(x4') /\ d = n + 4
    BY <1>5, <2>1
  <2>3. n <= 4 * x3 /\ x3 \in Nat
    BY <1>0, <2>1 DEF UploadOverlay!QueueInOrder
  <2> QED BY <1>5, <2>1, <2>2, <2>3 DEF UploadOverlay!SentCount
<1>7. ASSUME NEW i \in 1..Len(q)
      PROVE  UploadOverlay!SentCount + i = 4 * (q[i].id - 1) + UploadOverlay!PlaceOf(q[i].kind)
  <2>1. CASE i \in 1..Len(x4)
    <3>1. UploadOverlay!SentCount + i = 4 * (x4[i].id - 1) + UploadOverlay!PlaceOf(x4[i].kind)
      BY <1>0, <2>1 DEF UploadOverlay!QueueInOrder
    <3> QED BY <1>4, <2>1, <3>1
  <2>2. CASE i \notin 1..Len(x4)
    <3>1. PICK j \in 1..4 : i = Len(x4) + j
      <4>1. i - Len(x4) \in 1..4 /\ i = Len(x4) + (i - Len(x4))
        <5>1. PICK n \in Nat : n = Len(x4) /\ Len(q) = n + 4
          BY <1>0, <1>4
        <5> QED BY <2>2, <5>1
      <4> QED BY <4>1
    <3>2. q[i].id = x3 + 1 /\ UploadOverlay!PlaceOf(q[i].kind) = j
      BY <1>2, <1>4, <3>1
    <3> QED BY <1>0, <3>1, <3>2 DEF UploadOverlay!SentCount
  <2> QED BY <2>1, <2>2
<1> QED BY SMTT(20), <1>4, <1>5, <1>6, <1>7 DEF UploadOverlay!QueueInOrder

LEMMA MessageSent ==
    ASSUME UploadOverlay!UploadInv, UploadOverlay!SendNext
    PROVE  /\ UploadOverlay!QueueInOrder'
           /\ UploadOverlay!SentCount' = UploadOverlay!SentCount + 1
           /\ UploadOverlay!SentCount \in Int
           /\ Head(x4) \in [kind : {"start", "chunk", "end", "mark"}, id : Nat \ {0}]
           /\ UploadOverlay!SentCount + 1
                = 4 * (Head(x4).id - 1) + UploadOverlay!PlaceOf(Head(x4).kind)
<1> DEFINE Queued == [kind : {"start", "chunk", "end", "mark"}, id : Nat \ {0}]
<1>1. /\ x3 \in Nat /\ x4 \in Seq(Queued) /\ x4 # <<>> /\ UploadOverlay!QueueInOrder
      /\ x3' = x3 /\ x4' = Tail(x4)
  BY DEF UploadOverlay!UploadInv, UploadOverlay!QueueInOrder, UploadOverlay!SendNext
<1>2. PICK q : q = Tail(x4)
  OBVIOUS
<1>3. /\ q \in Seq(Queued) /\ Len(x4) \in Nat \ {0} /\ Len(q) = Len(x4) - 1
      /\ \A i \in 1..Len(q) : i + 1 \in 1..Len(x4) /\ q[i] = x4[i + 1]
      /\ Head(x4) = x4[1] /\ x4[1] \in Queued
  <2> HIDE DEF Queued
  <2> QED BY <1>1, <1>2
<1>4. PICK n \in Nat \ {0} : n = Len(x4) /\ Len(q) = n - 1
  BY <1>3
<1>5. UploadOverlay!SentCount = 4 * x3 - n /\ n <= 4 * x3
  BY <1>1, <1>4 DEF UploadOverlay!SentCount, UploadOverlay!QueueInOrder
<1>6. UploadOverlay!SentCount' = 4 * x3 - (n - 1) /\ Len(x4') = n - 1
  BY <1>1, <1>2, <1>4 DEF UploadOverlay!SentCount
<1>7. UploadOverlay!SentCount' = UploadOverlay!SentCount + 1 /\ Len(x4') <= 4 * x3'
  BY <1>1, <1>5, <1>6
<1>8. \A i \in 1..n :
        UploadOverlay!SentCount + i = 4 * (x4[i].id - 1) + UploadOverlay!PlaceOf(x4[i].kind)
  BY <1>1, <1>4 DEF UploadOverlay!QueueInOrder
<1>9. \A i \in 1..Len(q) :
        UploadOverlay!SentCount + (i + 1)
          = 4 * (q[i].id - 1) + UploadOverlay!PlaceOf(q[i].kind)
  BY <1>3, <1>4, <1>8
<1>10. \A i \in 1..Len(q) : UploadOverlay!SentCount + (i + 1) = UploadOverlay!SentCount + 1 + i
  BY <1>1, <1>4, <1>5
<1>11. UploadOverlay!QueueInOrder'
  BY SMTT(30), <1>1, <1>2, <1>3, <1>7, <1>9, <1>10 DEF UploadOverlay!QueueInOrder
<1>12. 1 \in 1..n
  OBVIOUS
<1> QED BY <1>1, <1>3, <1>5, <1>7, <1>8, <1>11, <1>12

LEMMA SendStep ==
    ASSUME UploadOverlay!UploadInv, UploadOverlay!SendNext
    PROVE  UploadOverlay!OverlayKeepsUp'
<1>1. PICK m, n : /\ m = Head(x4) /\ n = UploadOverlay!SentCount
                  /\ UploadOverlay!SentCount' = n + 1 /\ n \in Int
                  /\ m.id \in Nat \ {0} /\ m.kind \in {"start", "chunk", "end", "mark"}
                  /\ n + 1 = 4 * (m.id - 1) + UploadOverlay!PlaceOf(m.kind)
  BY MessageSent
<1>2. x3' = x3 /\ x3 \in Nat /\ x9' = x9 /\ x10' = x10 /\ UploadOverlay!OverlayKeepsUp
  BY DEF UploadOverlay!SendNext, UploadOverlay!UploadInv, UploadOverlay!agentVars
<1>3. CASE m.kind = "mark" /\ UploadOverlay!Shown(m.id)
  <2>1. x1' = [x1 EXCEPT !.status = "waiting"] /\ x1.id = m.id
    BY <1>1, <1>3 DEF UploadOverlay!SendNext, UploadOverlay!SetStatus, UploadOverlay!Shown
  <2>2. n + 1 = 4 * x1.id
    BY <1>1, <1>3, <2>1 DEF UploadOverlay!PlaceOf
  <2>3. x1.chunksSent /\ x1.id # 0
    BY <1>1, <1>2, <2>1, <2>2 DEF UploadOverlay!OverlayKeepsUp
  <2> QED BY <1>1, <1>2, <2>1, <2>2, <2>3 DEF UploadOverlay!OverlayKeepsUp, UploadOverlay!Statuses
<1>4. CASE m.kind = "chunk" /\ UploadOverlay!Shown(m.id)
  <2>1. x1' = [x1 EXCEPT !.chunksSent = TRUE] /\ x1.id = m.id
    BY <1>1, <1>4 DEF UploadOverlay!SendNext, UploadOverlay!Shown
  <2>2. n + 1 = 4 * x1.id - 2
    BY <1>1, <1>4, <2>1 DEF UploadOverlay!PlaceOf
  <2>3. /\ x1' \in [id : 0..x3', status : UploadOverlay!Statuses, chunksSent : BOOLEAN]
        /\ x1'.id = x1.id /\ x1'.status = x1.status /\ x1'.chunksSent
    BY <1>2, <2>1 DEF UploadOverlay!OverlayKeepsUp
  <2> QED BY <1>1, <1>2, <2>2, <2>3 DEF UploadOverlay!OverlayKeepsUp
<1>5. CASE ~(m.kind \in {"mark", "chunk"} /\ UploadOverlay!Shown(m.id))
  <2>1. x1' = x1
    BY <1>1, <1>5 DEF UploadOverlay!SendNext, UploadOverlay!SetStatus
  <2>2. x1.id # 0 => n + 1 # 4 * x1.id /\ n + 1 # 4 * x1.id - 2
    BY <1>1, <1>2, <1>5 DEF UploadOverlay!PlaceOf, UploadOverlay!Shown, UploadOverlay!None,
       UploadOverlay!OverlayKeepsUp
  <2> QED BY <1>1, <1>2, <2>1, <2>2 DEF UploadOverlay!OverlayKeepsUp
<1> QED BY <1>3, <1>4, <1>5

LEMMA AnswersTrue ==
    ASSUME UploadOverlay!UploadInv, [UploadOverlay!Next]_(UploadOverlay!vars)
    PROVE  UploadOverlay!AnswersAreTrue' /\ x9 \subseteq x9' /\ x10 \subseteq x10'
<1> DEFINE Ups == [kind : UploadOverlay!Kinds, id : Nat \ {0}]
           Downs == [kind : {"refused", "complete"}, id : Nat \ {0}]
           TrueIn(d, s, r) == \A i \in DOMAIN d : d[i].id \in IF d[i].kind = "complete" THEN s ELSE r
<1>1. x5 \in Seq(Ups) /\ x6 \in Seq(Downs) /\ TrueIn(x6, x9, x10)
  BY DEF UploadOverlay!UploadInv, UploadOverlay!AnswersAreTrue
<1>2. ASSUME x5' \in Seq(Ups), x6' \in Seq(Downs), TrueIn(x6', x9', x10')
      PROVE  UploadOverlay!AnswersAreTrue'
  BY <1>2 DEF UploadOverlay!AnswersAreTrue
<1>3. ASSUME NEW m \in Downs, m.id \in IF m.kind = "complete" THEN x9' ELSE x10',
             x6' = Append(x6, m), x9 \subseteq x9', x10 \subseteq x10'
      PROVE  x6' \in Seq(Downs) /\ TrueIn(x6', x9', x10')
  <2>1. PICK d : d = Append(x6, m)
    OBVIOUS
  <2>2. /\ d \in Seq(Downs) /\ DOMAIN d = 1..Len(x6) + 1 /\ Len(x6) \in Nat
        /\ \A i \in DOMAIN d : IF i \in DOMAIN x6 THEN d[i] = x6[i] ELSE d[i] = m
    <3> HIDE DEF Downs
    <3> QED BY <1>1, <1>3, <2>1
  <2>3. TrueIn(d, x9', x10')
    BY <1>1, <1>3, <2>2
  <2> QED BY <1>3, <2>1, <2>2, <2>3
<1>4. ASSUME x6' = x6, x9' = x9, x10' = x10
      PROVE  x6' \in Seq(Downs) /\ TrueIn(x6', x9', x10')
  BY <1>1, <1>4
<1>5. CASE UploadOverlay!AgentReceives
  <2>1. x5 # <<>> /\ x5' = Tail(x5) /\ Head(x5) \in Ups
    <3>1. x5 # <<>> /\ x5' = Tail(x5)
      BY <1>5 DEF UploadOverlay!AgentReceives
    <3> HIDE DEF Ups
    <3> QED BY <1>1, <3>1
  <2>2. x5' \in Seq(Ups)
    <3> HIDE DEF Ups
    <3> QED BY <1>1, <2>1
  <2>3. PICK t : t = Head(x5).id /\ t \in Nat \ {0}
    BY <2>1
  <2>4. \/ x6' = x6 /\ x9' = x9 /\ x10' = x10
        \/ /\ x6' = Append(x6, UploadOverlay!Msg("refused", t))
           /\ x10' = x10 \union {t} /\ x9' = x9
        \/ /\ x6' = Append(x6, UploadOverlay!Msg("complete", t))
           /\ x9' = x9 \union {t} /\ x10' = x10
    BY <1>5, <2>3 DEF UploadOverlay!AgentReceives
  <2>5. \A k \in {"refused", "complete"} :
          UploadOverlay!Msg(k, t) \in Downs /\ UploadOverlay!Msg(k, t).id = t
            /\ UploadOverlay!Msg(k, t).kind = k
    BY <2>3 DEF UploadOverlay!Msg
  <2>6. x6' \in Seq(Downs) /\ TrueIn(x6', x9', x10') /\ x9 \subseteq x9' /\ x10 \subseteq x10'
    <3>1. CASE x6' = x6 /\ x9' = x9 /\ x10' = x10
      BY <1>4, <3>1
    <3>2. CASE /\ x6' = Append(x6, UploadOverlay!Msg("refused", t))
               /\ x10' = x10 \union {t} /\ x9' = x9
      BY <1>3, <2>5, <3>2
    <3>3. CASE /\ x6' = Append(x6, UploadOverlay!Msg("complete", t))
               /\ x9' = x9 \union {t} /\ x10' = x10
      BY <1>3, <2>5, <3>3
    <3> QED BY <2>4, <3>1, <3>2, <3>3
  <2> QED BY <1>2, <2>2, <2>6
<1>6. CASE UploadOverlay!SendNext
  <2>1. x6' = x6 /\ x9' = x9 /\ x10' = x10
    BY <1>6 DEF UploadOverlay!SendNext, UploadOverlay!agentVars
  <2>2. x5' \in Seq(Ups)
    <3>1. Head(x4) \in [kind : {"start", "chunk", "end", "mark"}, id : Nat \ {0}]
      BY <1>6, MessageSent
    <3>2. PICK m \in Ups : x5' = x5 \/ x5' = Append(x5, m)
      BY <1>6, <3>1 DEF UploadOverlay!SendNext, UploadOverlay!Msg, UploadOverlay!Kinds
    <3>3. Append(x5, m) \in Seq(Ups)
      <4> HIDE DEF Ups
      <4> QED BY <1>1, <3>2
    <3> QED BY <1>1, <3>2, <3>3
  <2> QED BY <1>2, <1>4, <2>1, <2>2
<1>7. CASE UploadOverlay!Lost
  <2>1. x5' = <<>> /\ x6' = <<>> /\ x9' = x9 /\ x10' = x10
    BY <1>7 DEF UploadOverlay!Lost
  <2> QED BY <1>2, <2>1
<1>8. CASE UploadOverlay!Answered
  <2>1. x6 # <<>> /\ x6' = Tail(x6) /\ x5' = x5 /\ x9' = x9 /\ x10' = x10
    BY <1>8 DEF UploadOverlay!Answered, UploadOverlay!agentVars
  <2>2. PICK d : d = Tail(x6)
    OBVIOUS
  <2>3. d \in Seq(Downs) /\ \A i \in DOMAIN d : i + 1 \in DOMAIN x6 /\ d[i] = x6[i + 1]
    <3> HIDE DEF Downs
    <3> QED BY <1>1, <2>1, <2>2
  <2>4. TrueIn(d, x9, x10)
    BY <1>1, <2>3
  <2> QED BY <1>1, <1>2, <2>1, <2>2, <2>3, <2>4
<1>9. CASE \/ UploadOverlay!Start \/ UploadOverlay!ImageRead \/ UploadOverlay!Dismiss
           \/ UNCHANGED UploadOverlay!vars
  <2>1. x5' = x5 /\ x6' = x6 /\ x9' = x9 /\ x10' = x10
    BY <1>9 DEF UploadOverlay!Start, UploadOverlay!ImageRead, UploadOverlay!Dismiss,
       UploadOverlay!vars, UploadOverlay!agentVars
  <2> QED BY <1>1, <1>2, <1>4, <2>1
<1> QED BY <1>5, <1>6, <1>7, <1>8, <1>9 DEF UploadOverlay!Next

LEMMA OverlayStep ==
    ASSUME UploadOverlay!UploadInv, [UploadOverlay!Next]_(UploadOverlay!vars)
    PROVE  UploadOverlay!OverlayKeepsUp'
<1> DEFINE Downs == [kind : {"refused", "complete"}, id : Nat \ {0}]
<1>1. UploadOverlay!OverlayKeepsUp /\ x3 \in Nat /\ x9 \subseteq x9' /\ x10 \subseteq x10'
  BY AnswersTrue DEF UploadOverlay!UploadInv
<1>2. ASSUME x1' = x1, x3' = x3, UploadOverlay!SentCount' = UploadOverlay!SentCount
      PROVE  UploadOverlay!OverlayKeepsUp'
  BY <1>1, <1>2 DEF UploadOverlay!OverlayKeepsUp
<1>3. ASSUME x3' = x3, x1' \in [id : {0}, status : {"none", "error"}, chunksSent : {FALSE}]
      PROVE  UploadOverlay!OverlayKeepsUp'
  <2>1. /\ x1' \in [id : 0..x3', status : UploadOverlay!Statuses, chunksSent : BOOLEAN]
        /\ x1'.id = 0 /\ x1'.status \in {"none", "error"}
    <3>1. 0 \in 0..x3'
      BY <1>1, <1>3
    <3>2. x1' = [id |-> x1'.id, status |-> x1'.status, chunksSent |-> x1'.chunksSent]
          /\ x1'.id = 0 /\ x1'.status \in {"none", "error"} /\ x1'.chunksSent = FALSE
      BY <1>3
    <3> QED BY <3>1, <3>2 DEF UploadOverlay!Statuses
  <2> QED BY <2>1 DEF UploadOverlay!OverlayKeepsUp
<1>4. CASE UploadOverlay!Start
  <2>1. x3' = x3 /\ x4' = x4
    BY <1>4 DEF UploadOverlay!Start
  <2>2. CASE x1' = x1
    BY <1>2, <2>1, <2>2 DEF UploadOverlay!SentCount
  <2>3. CASE x1' # x1
    BY <1>3, <1>4, <2>1, <2>3
       DEF UploadOverlay!Start, UploadOverlay!Paste, UploadOverlay!Drop, UploadOverlay!Begin,
           UploadOverlay!TooLarge, UploadOverlay!None
  <2> QED BY <2>2, <2>3
<1>5. CASE UploadOverlay!ImageRead
  <2>1. UploadOverlay!SentCount' = UploadOverlay!SentCount
    BY <1>5, TransferQueued
  <2>2. UploadOverlay!SentCount \in Int /\ UploadOverlay!SentCount <= 4 * x3
    BY DEF UploadOverlay!UploadInv, UploadOverlay!QueueInOrder, UploadOverlay!SentCount
  <2>3. x3' = x3 + 1 /\ x1' = [id |-> x3 + 1, status |-> "sending", chunksSent |-> FALSE]
    BY <1>5 DEF UploadOverlay!ImageRead
  <2> QED BY <1>1, <2>1, <2>2, <2>3 DEF UploadOverlay!OverlayKeepsUp, UploadOverlay!Statuses
<1>6. CASE UploadOverlay!AgentReceives \/ UploadOverlay!Lost \/ UNCHANGED UploadOverlay!vars
  BY <1>2, <1>6 DEF UploadOverlay!AgentReceives, UploadOverlay!Lost, UploadOverlay!vars,
     UploadOverlay!SentCount
<1>7. CASE UploadOverlay!Answered
  <2>1. /\ x3' = x3 /\ UploadOverlay!SentCount' = UploadOverlay!SentCount
        /\ x6 # <<>> /\ x9' = x9 /\ x10' = x10
    BY <1>7 DEF UploadOverlay!Answered, UploadOverlay!SentCount, UploadOverlay!agentVars
  <2>2. PICK m : m = Head(x6)
    OBVIOUS
  <2>3. m \in Downs /\ m.id \in IF m.kind = "complete" THEN x9 ELSE x10
    <3>1. x6 \in Seq(Downs)
      BY DEF UploadOverlay!UploadInv, UploadOverlay!AnswersAreTrue
    <3>2. 1 \in DOMAIN x6 /\ m = x6[1] /\ m \in Downs
      <4> HIDE DEF Downs
      <4> QED BY <2>1, <2>2, <3>1
    <3> QED BY <3>2 DEF UploadOverlay!UploadInv, UploadOverlay!AnswersAreTrue
  <2>4. UploadOverlay!SetStatus(m.id, IF m.kind = "refused" THEN "error" ELSE "complete")
    BY <1>7, <2>2 DEF UploadOverlay!Answered
  <2>5. CASE ~UploadOverlay!Shown(m.id)
    BY <1>2, <2>1, <2>4, <2>5 DEF UploadOverlay!SetStatus
  <2>6. ASSUME UploadOverlay!Shown(m.id)
        PROVE  /\ x1' \in [id : 0..x3, status : UploadOverlay!Statuses, chunksSent : BOOLEAN]
               /\ x1'.id = m.id /\ x1.id = m.id /\ m.id # 0 /\ x1'.chunksSent = x1.chunksSent
               /\ x1'.status = IF m.kind = "refused" THEN "error" ELSE "complete"
    <3>1. x1 \in [id : 0..x3, status : UploadOverlay!Statuses, chunksSent : BOOLEAN]
      BY <1>1 DEF UploadOverlay!OverlayKeepsUp
    <3>2. x1' = [x1 EXCEPT !.status = IF m.kind = "refused" THEN "error" ELSE "complete"]
      BY <2>4, <2>6 DEF UploadOverlay!SetStatus
    <3>3. x1.id = m.id /\ m.id # 0
      BY <2>3, <2>6 DEF UploadOverlay!Shown
    <3> QED BY <3>1, <3>2, <3>3 DEF UploadOverlay!Statuses
  <2>7. CASE UploadOverlay!Shown(m.id) /\ m.kind = "complete"
    BY <1>1, <2>1, <2>3, <2>6, <2>7 DEF UploadOverlay!OverlayKeepsUp
  <2>8. CASE UploadOverlay!Shown(m.id) /\ m.kind = "refused"
    BY <1>1, <2>1, <2>3, <2>6, <2>8 DEF UploadOverlay!OverlayKeepsUp
  <2> QED BY <2>3, <2>5, <2>7, <2>8
<1>8. CASE UploadOverlay!Dismiss
  BY <1>3, <1>8 DEF UploadOverlay!Dismiss, UploadOverlay!None
<1> QED BY <1>4, <1>5, <1>6, <1>7, <1>8, SendStep DEF UploadOverlay!Next

LEMMA UploadNext ==
    UploadOverlay!UploadInv /\ [UploadOverlay!Next]_(UploadOverlay!vars) => UploadOverlay!UploadInv'
<1> SUFFICES ASSUME UploadOverlay!UploadInv, [UploadOverlay!Next]_(UploadOverlay!vars)
             PROVE  UploadOverlay!UploadInv'
  OBVIOUS
<1>1. UploadOverlay!AnswersAreTrue' /\ UploadOverlay!OverlayKeepsUp'
  BY AnswersTrue, OverlayStep
<1>2. x3' \in Nat
  BY DEF UploadOverlay!UploadInv, UploadOverlay!Next, UploadOverlay!Start, UploadOverlay!ImageRead,
     UploadOverlay!SendNext, UploadOverlay!AgentReceives, UploadOverlay!Lost,
     UploadOverlay!Answered, UploadOverlay!Dismiss, UploadOverlay!vars
<1>3. UploadOverlay!QueueInOrder'
  <2>1. CASE UploadOverlay!ImageRead \/ UploadOverlay!SendNext
    BY <2>1, TransferQueued, MessageSent
  <2>2. CASE \/ UploadOverlay!Start \/ UploadOverlay!AgentReceives \/ UploadOverlay!Lost
             \/ UploadOverlay!Answered \/ UploadOverlay!Dismiss \/ UNCHANGED UploadOverlay!vars
    <3>1. x3' = x3 /\ x4' = x4
      BY <2>2 DEF UploadOverlay!Start, UploadOverlay!AgentReceives, UploadOverlay!Lost,
         UploadOverlay!Answered, UploadOverlay!Dismiss, UploadOverlay!vars
    <3> QED BY <3>1 DEF UploadOverlay!UploadInv, UploadOverlay!QueueInOrder, UploadOverlay!SentCount
  <2> QED BY <2>1, <2>2 DEF UploadOverlay!Next
<1> QED BY <1>1, <1>2, <1>3 DEF UploadOverlay!UploadInv

\* Transfer t is in the queue as long as its last message is not sent
LEMMA UploadSafe == UploadOverlay!UploadInv => UploadOverlay!OverlayIsTrue
<1> SUFFICES ASSUME UploadOverlay!UploadInv PROVE UploadOverlay!OverlayIsTrue
  OBVIOUS
<1>1. PICK n, s : /\ n = Len(x4) /\ n \in Nat /\ DOMAIN x4 = 1..n
                  /\ s = UploadOverlay!SentCount /\ s = 4 * x3 - n /\ x3 \in Nat
  BY DEF UploadOverlay!UploadInv, UploadOverlay!QueueInOrder, UploadOverlay!SentCount
<1>2. \A i \in 1..n : /\ x4[i].id \in Nat /\ UploadOverlay!PlaceOf(x4[i].kind) \in 1..4
                      /\ s + i = 4 * (x4[i].id - 1) + UploadOverlay!PlaceOf(x4[i].kind)
  <2>1. \A k : UploadOverlay!PlaceOf(k) \in 1..4
    BY DEF UploadOverlay!PlaceOf
  <2>2. \A i \in 1..n : x4[i].id \in Nat
    <3> DEFINE Items == [kind : {"start", "chunk", "end", "mark"}, id : Nat \ {0}]
    <3>1. x4 \in Seq(Items)
      BY DEF UploadOverlay!UploadInv, UploadOverlay!QueueInOrder
    <3>2. \A i \in 1..n : x4[i] \in Items
      <4> HIDE DEF Items
      <4> QED BY <1>1, <3>1
    <3> QED BY <3>2
  <2>3. \A i \in 1..n : s + i = 4 * (x4[i].id - 1) + UploadOverlay!PlaceOf(x4[i].kind)
    BY <1>1 DEF UploadOverlay!UploadInv, UploadOverlay!QueueInOrder
  <2> QED BY <2>1, <2>2, <2>3
<1>3. x1.id \in 0..x3 /\ UploadOverlay!OverlayKeepsUp
  BY DEF UploadOverlay!UploadInv, UploadOverlay!OverlayKeepsUp
<1>4. ASSUME s < 4 * x1.id PROVE UploadOverlay!Queued(x1.id)
  <2>1. 4 * x1.id - s \in 1..n
    BY <1>1, <1>3, <1>4
  <2>2. PICK i : i = 4 * x1.id - s /\ i \in 1..n
    BY <2>1
  <2>3. PICK t, p : t = x4[i].id /\ t \in Nat /\ p \in 1..4 /\ s + i = 4 * (t - 1) + p
    BY <1>2, <2>2
  <2>4. t = x1.id
    <3>1. PICK u : u = x1.id /\ u \in Nat
      BY <1>1, <1>3
    <3>2. 4 * u = 4 * (t - 1) + p
      BY <1>1, <2>2, <2>3, <3>1
    <3> QED BY <2>3, <3>1, <3>2
  <2> QED BY <1>1, <2>2, <2>3, <2>4 DEF UploadOverlay!Queued
<1>5. ASSUME s >= 4 * x1.id PROVE ~UploadOverlay!Queued(x1.id)
  <2> SUFFICES ASSUME NEW i \in 1..n, x4[i].id = x1.id PROVE FALSE
    BY <1>1 DEF UploadOverlay!Queued
  <2>1. PICK t, p : t = x1.id /\ t \in Nat /\ p \in 1..4 /\ s + i = 4 * (t - 1) + p
    BY <1>2
  <2>2. s \in Int /\ s >= 4 * t
    BY <1>1, <1>5, <2>1
  <2> QED BY <2>1, <2>2
<1>6. x1.status = "waiting" => x1.chunksSent
  BY <1>1, <1>3 DEF UploadOverlay!OverlayKeepsUp
<1> QED BY <1>1, <1>3, <1>4, <1>5, <1>6 DEF UploadOverlay!OverlayKeepsUp, UploadOverlay!OverlayIsTrue

-----------------------------------------------------------------------------
(***************************************************************************)
(* RateLimit: now, store, swept and accepted are x1 to x4                  *)
(***************************************************************************)

LEMMA LimitConstants == WindowMs \in Nat /\ MaxRequests \in Nat \ {0}
BY PartsConstants DEF PartsConstants

USE LimitConstants

LEMMA LimitInit == RateLimit!Init => RateLimit!LimitInv
<1> SUFFICES ASSUME RateLimit!Init PROVE RateLimit!LimitInv
  OBVIOUS
<1>1. x1 = 0 /\ DOMAIN x2 = {} /\ x4 = [k \in Names |-> <<>>]
  BY DEF RateLimit!Init, RateLimit!NoEntries
<1>2. RateLimit!SpacedOut(<<>>) /\ RateLimit!MayStart(<<>>)
  BY <1>1 DEF RateLimit!SpacedOut, RateLimit!MayStart
<1> QED BY <1>1, <1>2 DEF RateLimit!LimitInv, RateLimit!KeyInv

\* A request is let through now, a window after the 2 * MaxRequests - 1 before
LEMMA SpacedAppend ==
    ASSUME x1 \in Nat, NEW a, RateLimit!SpacedOut(a),
           \A i \in DOMAIN a : i + 2 * MaxRequests = Len(a) + 1 => a[i] + WindowMs < x1
    PROVE  RateLimit!SpacedOut(Append(a, x1))
<1>0. PICK b : b = Append(a, x1)
  OBVIOUS
<1>1. PICK n : n = Len(a) /\ n \in Nat /\ DOMAIN a = 1..n /\ a \in Seq(Nat) /\ b = Append(a, x1)
  <2>1. a \in Seq(Nat)
    BY DEF RateLimit!SpacedOut
  <2> QED BY <1>0, <2>1
<1>2. b \in Seq(Nat) /\ DOMAIN b = 1..(n + 1) /\ b[n + 1] = x1 /\ \A i \in 1..n : b[i] = a[i]
  BY <1>1
<1>3. \A i \in 1..n : a[i] \in Nat /\ a[i] <= x1
  BY <1>1 DEF RateLimit!SpacedOut
<1>4. \A i \in DOMAIN b : i \in 1..n \/ i = n + 1
  BY <1>1, <1>2
<1>5. \A i \in DOMAIN b : b[i] <= x1
  BY <1>2, <1>3, <1>4
<1>6. ASSUME NEW i \in DOMAIN b, NEW j \in DOMAIN b, i <= j PROVE b[i] <= b[j]
  <2>1. CASE j = n + 1
    BY <1>2, <1>5, <1>6, <2>1
  <2>2. CASE j \in 1..n
    <3>1. i \in 1..n
      BY <1>1, <1>2, <1>6, <2>2
    <3> QED BY <1>1, <1>2, <1>6, <2>2, <3>1 DEF RateLimit!SpacedOut
  <2> QED BY <1>4, <2>1, <2>2
<1>7. ASSUME NEW i \in DOMAIN b, i + 2 * MaxRequests \in DOMAIN b
      PROVE  b[i] + WindowMs < b[i + 2 * MaxRequests]
  <2>1. PICK j : j = i + 2 * MaxRequests /\ j \in DOMAIN b /\ i \in 1..n
    BY <1>1, <1>2, <1>7
  <2>2. CASE j = n + 1
    BY <1>1, <1>2, <2>1, <2>2
  <2>3. CASE j \in 1..n
    BY <1>1, <1>2, <2>1, <2>3 DEF RateLimit!SpacedOut
  <2> QED BY <1>4, <2>1, <2>2, <2>3
<1> QED BY <1>1, <1>2, <1>5, <1>6, <1>7 DEF RateLimit!SpacedOut

LEMMA KeyKept ==
    ASSUME RateLimit!LimitInv, NEW k \in Names,
           x1' \in Nat, x1 <= x1', x4'[k] = x4[k],
           k \in DOMAIN x2' <=> k \in DOMAIN x2, k \in DOMAIN x2 => x2'[k] = x2[k]
    PROVE  RateLimit!KeyInv(k)'
<1>1. RateLimit!KeyInv(k) /\ x1 \in Nat
  BY DEF RateLimit!LimitInv
<1>2. PICK a, n : /\ a = x4[k] /\ a \in Seq(Nat) /\ n = Len(a) /\ n \in Nat
                  /\ DOMAIN a = 1..n /\ \A i \in 1..n : a[i] \in Nat
  BY <1>1 DEF RateLimit!KeyInv, RateLimit!SpacedOut
<1>3. RateLimit!SpacedOut(x4[k])'
  BY <1>1, <1>2 DEF RateLimit!KeyInv, RateLimit!SpacedOut
<1>4. CASE k \in DOMAIN x2
  <2>1. RateLimit!EntryFits(k, a) /\ x2'[k] = x2[k] /\ x2[k].resetAt \in Nat
    BY <1>1, <1>2, <1>4 DEF RateLimit!KeyInv, RateLimit!EntryFits, RateLimit!Entry
  <2>2. x2[k].resetAt <= x1' + WindowMs
    BY <1>1, <2>1 DEF RateLimit!EntryFits
  <2>3. RateLimit!InWindow(k)' = RateLimit!InWindow(k)
    BY <2>1 DEF RateLimit!InWindow
  <2>4. RateLimit!EntryFits(k, x4[k])'
    BY <1>2, <2>1, <2>2, <2>3 DEF RateLimit!EntryFits
  <2> QED BY <1>3, <1>4, <2>4 DEF RateLimit!KeyInv
<1>5. CASE k \notin DOMAIN x2
  <2>1. RateLimit!MayStart(x4[k])'
    BY SMTT(20), <1>1, <1>2, <1>5 DEF RateLimit!KeyInv, RateLimit!MayStart
  <2> QED BY <1>3, <1>5, <2>1 DEF RateLimit!KeyInv
<1> QED BY <1>4, <1>5

\* A window that is over lets one start, with its entry or without
LEMMA WindowOver ==
    ASSUME RateLimit!LimitInv, NEW k \in Names,
           k \in DOMAIN x2 => RateLimit!Expired(x2[k])
    PROVE  RateLimit!MayStart(x4[k])
<1>1. RateLimit!KeyInv(k) /\ x1 \in Nat
  BY DEF RateLimit!LimitInv
<1>2. CASE k \in DOMAIN x2
  <2>1. PICK a, n, c, e : /\ a = x4[k] /\ a \in Seq(Nat) /\ n = Len(a) /\ n \in Nat
                          /\ DOMAIN a = 1..n /\ (\A i \in 1..n : a[i] \in Nat)
                          /\ c = RateLimit!InWindow(k) /\ e = x2[k].resetAt /\ e \in Nat
    BY SMTT(20), <1>1, <1>2 DEF RateLimit!KeyInv, RateLimit!SpacedOut, RateLimit!EntryFits, RateLimit!Entry
  <2>2. c \in Nat /\ c <= MaxRequests
    BY <1>1, <1>2, <2>1 DEF RateLimit!KeyInv, RateLimit!EntryFits, RateLimit!Entry, RateLimit!InWindow
  <2>3. e < x1
    BY <1>2, <2>1 DEF RateLimit!Expired
  <2>4. \A i \in 1..n : i + c <= n => a[i] + WindowMs <= e
    BY <1>1, <1>2, <2>1 DEF RateLimit!KeyInv, RateLimit!EntryFits
  <2>5. ASSUME NEW i \in 1..n, i + MaxRequests <= n PROVE a[i] + WindowMs < x1
    <3>1. i + c <= n
      BY <2>1, <2>2, <2>5
    <3>2. PICK u : u = a[i] /\ u \in Nat /\ u + WindowMs <= e
      BY <2>1, <2>4, <2>5, <3>1
    <3>3. e \in Nat /\ x1 \in Nat /\ WindowMs \in Nat
      BY <1>1, <2>1
    <3> QED BY <2>3, <3>2, <3>3
  <2> QED BY <2>1, <2>5 DEF RateLimit!MayStart
<1>3. CASE k \notin DOMAIN x2
  BY <1>1, <1>3 DEF RateLimit!KeyInv
<1> QED BY <1>2, <1>3

\* A request opens a window
LEMMA OpenedStep ==
    ASSUME RateLimit!LimitInv, NEW k \in Names,
           k \in DOMAIN x2 => RateLimit!Expired(x2[k]),
           x1' = x1, x2' = RateLimit!Opened(k), x4' = [x4 EXCEPT ![k] = Append(@, x1)]
    PROVE  RateLimit!KeyInv(k)'
<1>1. PICK a, b, n :
        /\ a = x4[k] /\ b = Append(a, x1) /\ n = Len(a) /\ RateLimit!SpacedOut(a)
        /\ x4'[k] = b /\ x1 \in Nat
  BY DEF RateLimit!LimitInv, RateLimit!KeyInv
<1>2. /\ a \in Seq(Nat) /\ n \in Nat /\ DOMAIN a = 1..n
      /\ (\A i \in 1..n : a[i] \in Nat /\ a[i] <= x1)
  <2>1. a \in Seq(Nat)
    BY <1>1 DEF RateLimit!SpacedOut
  <2>2. n \in Nat /\ DOMAIN a = 1..n
    BY <1>1, <2>1
  <2> QED BY SMTT(20), <1>1, <2>1, <2>2 DEF RateLimit!SpacedOut
<1>3. \A i \in 1..n : i + MaxRequests <= n => a[i] + WindowMs < x1
  BY <1>1, <1>2, WindowOver DEF RateLimit!MayStart
<1>4. RateLimit!SpacedOut(b)
  <2>1. \A i \in DOMAIN a : i + 2 * MaxRequests = Len(a) + 1 => a[i] + WindowMs < x1
    <3>1. ASSUME NEW i \in 1..n, i + 2 * MaxRequests = n + 1 PROVE a[i] + WindowMs < x1
      <4>1. i + MaxRequests <= n
        BY <1>2, <3>1
      <4> QED BY <1>3, <4>1
    <3> QED BY <1>1, <1>2, <3>1
  <2> QED BY <1>1, <2>1, SpacedAppend
<1>5. RateLimit!SpacedOut(x4[k])'
  BY <1>1, <1>4 DEF RateLimit!SpacedOut
<1>6. k \in DOMAIN x2' /\ x2'[k] = [count |-> 1, resetAt |-> x1 + WindowMs]
  BY DEF RateLimit!Opened
<1>7. RateLimit!InWindow(k)' = 1
  BY <1>6 DEF RateLimit!InWindow
<1>8. Len(b) = n + 1 /\ DOMAIN b = 1..(n + 1) /\ b[n + 1] = x1 /\ \A i \in 1..n : b[i] = a[i]
  BY <1>1, <1>2
<1>9. ASSUME NEW i \in DOMAIN b
      PROVE  /\ b[i] <= x1 + WindowMs
             /\ i + 1 <= Len(b) => b[i] + WindowMs <= x1 + WindowMs
             /\ i + 1 + MaxRequests <= Len(b) => b[i] + 2 * WindowMs < x1 + WindowMs
  <2>1. CASE i \in 1..n
    <3>1. PICK u : u = b[i] /\ u = a[i] /\ u \in Nat /\ u <= x1
      BY <1>2, <1>8, <2>1
    <3>2. i + MaxRequests <= n => u + WindowMs < x1
      BY <1>3, <2>1, <3>1
    <3>3. i + 1 + MaxRequests <= n + 1 => i + MaxRequests <= n
      BY <1>2, <2>1
    <3> QED BY SMTT(20), <1>1, <1>8, <3>1, <3>2, <3>3
  <2>2. CASE i = n + 1
    BY <1>1, <1>2, <1>8, <2>2
  <2> QED BY <1>2, <1>8, <2>1, <2>2
<1>10. RateLimit!EntryFits(k, x4[k])'
  <2>1. x2'[k] \in RateLimit!Entry /\ x2'[k].count > 0 /\ x2'[k].resetAt = x1 + WindowMs
    BY <1>1, <1>6 DEF RateLimit!Entry
  <2> QED BY <1>1, <1>7, <1>9, <2>1 DEF RateLimit!EntryFits
<1> QED BY <1>5, <1>6, <1>10 DEF RateLimit!KeyInv

\* A request is counted in the window of its entry
LEMMA CountedStep ==
    ASSUME RateLimit!LimitInv, NEW k \in Names, k \in DOMAIN x2, ~RateLimit!Expired(x2[k]),
           x1' = x1, x2' = [x2 EXCEPT ![k] = RateLimit!CountedUp(@)],
           x4' = IF x2'[k].count <= MaxRequests THEN [x4 EXCEPT ![k] = Append(@, x1)] ELSE x4
    PROVE  RateLimit!KeyInv(k)'
<1>1. PICK a, n, c, d, e :
        /\ a = x4[k] /\ n = Len(a) /\ RateLimit!SpacedOut(a) /\ x1 \in Nat
        /\ RateLimit!EntryFits(k, a)
        /\ c = x2[k].count /\ e = x2[k].resetAt /\ c \in Nat \ {0} /\ e \in Nat
        /\ d = IF c > MaxRequests THEN c ELSE c + 1
  <2>1. /\ RateLimit!SpacedOut(x4[k]) /\ x1 \in Nat /\ RateLimit!EntryFits(k, x4[k])
    BY DEF RateLimit!LimitInv, RateLimit!KeyInv
  <2>2. x2[k].count \in Nat \ {0} /\ x2[k].resetAt \in Nat
    BY <2>1 DEF RateLimit!EntryFits, RateLimit!Entry
  <2> QED BY <2>1, <2>2
<1>2. /\ a \in Seq(Nat) /\ n \in Nat /\ DOMAIN a = 1..n
      /\ (\A i \in 1..n : a[i] \in Nat /\ a[i] <= x1)
  <2>1. a \in Seq(Nat)
    BY <1>1 DEF RateLimit!SpacedOut
  <2>2. n \in Nat /\ DOMAIN a = 1..n
    BY <1>1, <2>1
  <2>3. \A i \in 1..n : a[i] \in Nat
    BY <2>1, <2>2
  <2>4. \A i \in 1..n : a[i] <= x1
    BY <1>1, <2>2 DEF RateLimit!SpacedOut
  <2> QED BY <2>1, <2>2, <2>3, <2>4
<1>3. /\ DOMAIN x2' = DOMAIN x2 /\ x2'[k] \in RateLimit!Entry
      /\ x2'[k].count = d /\ x2'[k].resetAt = e /\ d \in Nat \ {0}
  <2>1. x2'[k] = [x2[k] EXCEPT !.count = d] /\ DOMAIN x2' = DOMAIN x2
    BY <1>1 DEF RateLimit!CountedUp
  <2>2. x2[k] \in RateLimit!Entry
    BY <1>1 DEF RateLimit!EntryFits
  <2> QED BY <1>1, <2>1, <2>2 DEF RateLimit!Entry
<1>4. PICK w, v : /\ w = RateLimit!InWindow(k) /\ v = RateLimit!InWindow(k)'
                  /\ w = (IF c < MaxRequests THEN c ELSE MaxRequests)
                  /\ v = (IF d < MaxRequests THEN d ELSE MaxRequests)
  BY <1>1, <1>3 DEF RateLimit!InWindow
<1>5. x1 <= e /\ e <= x1 + WindowMs
  BY <1>1 DEF RateLimit!Expired, RateLimit!EntryFits
<1>6. \A i \in 1..n : /\ a[i] <= e
                      /\ i + w <= n => a[i] + WindowMs <= e
                      /\ i + w + MaxRequests <= n => a[i] + 2 * WindowMs < e
  BY <1>1, <1>2, <1>4 DEF RateLimit!EntryFits
<1>7. CASE d > MaxRequests
  <2>1. v = w
    BY <1>1, <1>4, <1>7
  <2>2. x4' = x4
    BY <1>1, <1>3, <1>7
  <2>3. RateLimit!SpacedOut(x4[k])'
    BY <1>1, <2>2 DEF RateLimit!SpacedOut
  <2>4. RateLimit!EntryFits(k, x4[k])'
    <3>1. x4'[k] = a /\ x1' = x1 /\ RateLimit!InWindow(k)' = w
      BY <1>1, <1>4, <2>1, <2>2
    <3> QED BY SMTT(20), <1>2, <1>3, <1>5, <1>6, <3>1 DEF RateLimit!EntryFits
  <2> QED BY <1>3, <2>3, <2>4 DEF RateLimit!KeyInv
<1>8. CASE d <= MaxRequests
  <2>1. w = c /\ v = c + 1 /\ c + 1 <= MaxRequests
    BY <1>1, <1>4, <1>8
  <2>2. PICK b : b = Append(a, x1) /\ x4'[k] = b
    BY <1>1, <1>3, <1>8 DEF RateLimit!LimitInv
  <2>3. Len(b) = n + 1 /\ DOMAIN b = 1..(n + 1) /\ b[n + 1] = x1 /\ \A i \in 1..n : b[i] = a[i]
    BY <1>1, <1>2, <2>2
  <2>4. \A i \in DOMAIN a : i + 2 * MaxRequests = Len(a) + 1 => a[i] + WindowMs < x1
    <3>1. ASSUME NEW i \in 1..n, i + 2 * MaxRequests = n + 1 PROVE a[i] + WindowMs < x1
      <4>1. i + w + MaxRequests <= n
        <5>1. PICK M : M = MaxRequests /\ M \in Nat
          OBVIOUS
        <5>2. w \in Nat /\ n \in Nat /\ w + 1 <= M /\ i \in Nat
          BY SMTT(30), <1>1, <1>2, <2>1, <3>1, <5>1
        <5>3. i + 2 * M = n + 1
          BY <3>1, <5>1
        <5> QED BY <5>1, <5>2, <5>3
      <4>2. PICK u : u = a[i] /\ u \in Nat /\ u + 2 * WindowMs < e
        BY <1>2, <1>6, <4>1
      <4>3. e \in Nat /\ x1 \in Nat /\ WindowMs \in Nat
        BY <1>1
      <4> QED BY <1>5, <4>2, <4>3
    <3> QED BY <1>1, <1>2, <3>1
  <2>5. RateLimit!SpacedOut(b)
    BY <1>1, <2>2, <2>4, SpacedAppend
  <2>6. RateLimit!SpacedOut(x4[k])'
    BY <2>2, <2>5 DEF RateLimit!SpacedOut
  <2>7. ASSUME NEW i \in DOMAIN b
        PROVE  /\ b[i] <= e
               /\ i + v <= Len(b) => b[i] + WindowMs <= e
               /\ i + v + MaxRequests <= Len(b) => b[i] + 2 * WindowMs < e
    <3>1. CASE i \in 1..n
      <4>1. PICK u : /\ u = b[i] /\ u = a[i] /\ u \in Nat /\ u <= e
                     /\ i + w <= n => u + WindowMs <= e
                     /\ i + w + MaxRequests <= n => u + 2 * WindowMs < e
        BY <1>2, <1>6, <2>3, <3>1
      <4>2. /\ i + v <= n + 1 => i + w <= n
            /\ i + v + MaxRequests <= n + 1 => i + w + MaxRequests <= n
        <5>1. PICK M : M = MaxRequests /\ M \in Nat
          OBVIOUS
        <5>2. w \in Nat /\ n \in Nat /\ v = w + 1 /\ i \in Nat
          BY <1>1, <1>2, <2>1, <3>1, <5>1
        <5> QED BY <5>1, <5>2
      <4> QED BY <2>3, <4>1, <4>2
    <3>2. CASE i = n + 1
      BY SMTT(20), <1>1, <1>2, <1>5, <2>1, <2>3, <3>2
    <3> QED BY <1>2, <2>3, <3>1, <3>2
  <2>8. RateLimit!EntryFits(k, x4[k])'
    BY SMTT(30), <1>1, <1>3, <1>4, <1>5, <2>2, <2>7 DEF RateLimit!EntryFits
  <2> QED BY <1>3, <2>6, <2>8 DEF RateLimit!KeyInv
<1> QED BY <1>1, <1>3, <1>7, <1>8

LEMMA LimitNext ==
    RateLimit!LimitInv /\ [RateLimit!Next]_(RateLimit!vars) => RateLimit!LimitInv'
<1> SUFFICES ASSUME RateLimit!LimitInv, [RateLimit!Next]_(RateLimit!vars)
             PROVE  RateLimit!LimitInv'
  OBVIOUS
<1>1. ASSUME NEW k \in Names, RateLimit!Check(k) PROVE RateLimit!LimitInv'
  <2>1. x1' = x1 /\ x1 \in Nat /\ DOMAIN x2 \subseteq Names /\ DOMAIN x4 = Names
    BY <1>1 DEF RateLimit!Check, RateLimit!LimitInv
  <2>2. CASE /\ k \in DOMAIN x2 => RateLimit!Expired(x2[k])
             /\ x2' = RateLimit!Opened(k) /\ x4' = [x4 EXCEPT ![k] = Append(@, x1)]
    <3>1. /\ DOMAIN x2' \subseteq Names /\ DOMAIN x4' = Names
          /\ \A q \in Names \ {k} : /\ q \in DOMAIN x2' <=> q \in DOMAIN x2
                                    /\ q \in DOMAIN x2 => x2'[q] = x2[q]
                                    /\ x4'[q] = x4[q]
      BY <2>1, <2>2 DEF RateLimit!Opened
    <3>2. \A q \in Names \ {k} : RateLimit!KeyInv(q)'
      BY <2>1, <3>1, KeyKept
    <3>3. RateLimit!KeyInv(k)'
      BY <2>1, <2>2, OpenedStep
    <3> QED BY <2>1, <3>1, <3>2, <3>3 DEF RateLimit!LimitInv
  <2>3. CASE UNCHANGED <<x2, x4>>
    <3>1. \A q \in Names : RateLimit!KeyInv(q)'
      BY <2>1, <2>3, KeyKept
    <3> QED BY <2>1, <2>3, <3>1 DEF RateLimit!LimitInv
  <2>4. CASE /\ k \in DOMAIN x2 /\ ~RateLimit!Expired(x2[k])
             /\ x2' = [x2 EXCEPT ![k] = RateLimit!CountedUp(@)]
             /\ x4' = IF x2'[k].count <= MaxRequests THEN [x4 EXCEPT ![k] = Append(@, x1)] ELSE x4
    <3>1. /\ DOMAIN x2' \subseteq Names /\ DOMAIN x4' = Names
          /\ \A q \in Names \ {k} : /\ q \in DOMAIN x2' <=> q \in DOMAIN x2
                                    /\ q \in DOMAIN x2 => x2'[q] = x2[q]
                                    /\ x4'[q] = x4[q]
      BY <2>1, <2>4
    <3>2. \A q \in Names \ {k} : RateLimit!KeyInv(q)'
      BY <2>1, <3>1, KeyKept
    <3>3. RateLimit!KeyInv(k)'
      BY <2>1, <2>4, CountedStep
    <3> QED BY <2>1, <3>1, <3>2, <3>3 DEF RateLimit!LimitInv
  <2> QED BY <1>1, <2>2, <2>3, <2>4 DEF RateLimit!Check
<1>2. CASE RateLimit!Interval
  <2>1. x1' = x1 /\ x4' = x4 /\ x1 \in Nat
    BY <1>2 DEF RateLimit!Interval, RateLimit!LimitInv
  <2>2. /\ DOMAIN x2' = {k \in DOMAIN x2 : ~RateLimit!Expired(x2[k])}
        /\ \A k \in DOMAIN x2' : x2'[k] = x2[k]
    BY <1>2 DEF RateLimit!Interval, RateLimit!Sweep, RateLimit!Restrict
  <2>3. ASSUME NEW k \in Names PROVE RateLimit!KeyInv(k)'
    <3>1. CASE k \in DOMAIN x2 => k \in DOMAIN x2'
      BY <2>1, <2>2, <3>1, KeyKept
    <3>2. CASE k \in DOMAIN x2 /\ k \notin DOMAIN x2'
      <4>1. RateLimit!MayStart(x4[k])
        BY <2>2, <3>2, WindowOver
      <4>2. RateLimit!SpacedOut(x4[k])
        BY DEF RateLimit!LimitInv, RateLimit!KeyInv
      <4> QED BY <2>1, <3>2, <4>1, <4>2
              DEF RateLimit!KeyInv, RateLimit!MayStart, RateLimit!SpacedOut
    <3> QED BY <3>1, <3>2
  <2> QED BY <2>1, <2>2, <2>3 DEF RateLimit!LimitInv
<1>3. CASE RateLimit!Tick \/ UNCHANGED RateLimit!vars
  <2>1. UNCHANGED <<x2, x4>> /\ x1 \in Nat /\ x1' \in {x1, x1 + 1}
    BY <1>3 DEF RateLimit!Tick, RateLimit!vars, RateLimit!LimitInv
  <2>2. \A q \in Names : RateLimit!KeyInv(q)'
    BY <2>1, KeyKept
  <2> QED BY <2>1, <2>2 DEF RateLimit!LimitInv
<1> QED BY <1>1, <1>2, <1>3 DEF RateLimit!Next

LEMMA LeastNumber ==
    ASSUME NEW T, T \subseteq Nat, T # {}
    PROVE  \E k \in T : \A j \in T : ~(j < k)
<1>1. \E k \in T : \A j \in T : <<j, k>> \notin OpToRel(<, Nat)
  BY WFMin, NatLessThanWellFounded
<1> QED BY <1>1 DEF OpToRel

\* From the first request of a span on there are 2 * MaxRequests at most
LEMMA LimitSafe == RateLimit!LimitInv => RateLimit!RateIsLimited
<1> SUFFICES ASSUME RateLimit!LimitInv, NEW k \in Names, NEW t \in 0..x1
             PROVE  Cardinality({i \in DOMAIN x4[k] : t <= x4[k][i] /\ x4[k][i] <= t + WindowMs})
                      <= 2 * MaxRequests
  BY DEF RateLimit!RateIsLimited, Cardinality, RateLimit!Cardinality
<1>1. PICK a, n : /\ a = x4[k] /\ n = Len(a) /\ RateLimit!SpacedOut(a) /\ a \in Seq(Nat)
  BY DEF RateLimit!LimitInv, RateLimit!KeyInv, RateLimit!SpacedOut
<1>2. n \in Nat /\ DOMAIN a = 1..n /\ \A i \in 1..n : a[i] \in Nat
  BY <1>1
<1> DEFINE S == {i \in DOMAIN a : t <= a[i] /\ a[i] <= t + WindowMs}
<1>3. CASE S = {}
  <2>1. Cardinality(S) = 0
    BY <1>3, FS_EmptySet
  <2> QED BY <1>1, <2>1
<1>4. CASE S # {}
  <2>1. PICK m \in S : \A j \in S : ~(j < m)
    <3>1. S \subseteq Nat
      BY <1>2
    <3> HIDE DEF S
    <3> QED BY <1>4, <3>1, LeastNumber
  <2>2. PICK l : l = m + 2 * MaxRequests /\ l \in Nat /\ m \in Nat
    BY <1>2, <2>1
  <2>3. \A j \in S : j \in m..(l - 1)
    <3> SUFFICES ASSUME NEW j \in S, j >= l PROVE FALSE
      BY <1>2, <2>1, <2>2
    <3>1. l \in DOMAIN a /\ m \in DOMAIN a /\ j \in DOMAIN a
      BY <1>2, <2>1, <2>2
    <3>2. a[m] + WindowMs < a[l] /\ a[l] <= a[j]
      BY <1>1, <2>2, <3>1 DEF RateLimit!SpacedOut
    <3>3. a[m] \in Nat /\ a[l] \in Nat /\ a[j] \in Nat /\ t <= a[m] /\ a[j] <= t + WindowMs
      BY <1>2, <2>1, <3>1
    <3> QED BY <3>2, <3>3
  <2>4. IsFiniteSet(m..(l - 1)) /\ Cardinality(m..(l - 1)) = 2 * MaxRequests
    BY <2>2, FS_Interval
  <2>5. Cardinality(S) <= 2 * MaxRequests
    BY <2>3, <2>4, FS_Subset
  <2> QED BY <1>1, <2>5
<1> QED BY <1>3, <1>4
HIDE LimitConstants

-----------------------------------------------------------------------------
(***************************************************************************)
(* TabLayout: tabs, active, split, focused, closing, known and late are x1 *)
(* to x7                                                                   *)
(***************************************************************************)

\* Numbers ranked by how many of a finite set are below: each place is taken once
LEMMA Ranks ==
    ASSUME NEW I, I \subseteq Nat, IsFiniteSet(I)
    PROVE  /\ \A i \in I : Cardinality({j \in I : j < i}) + 1 \in 1..Cardinality(I)
           /\ \A i, k \in I :
                Cardinality({j \in I : j < i}) = Cardinality({j \in I : j < k}) => i = k
           /\ \A i, k \in I :
                i < k => Cardinality({j \in I : j < i}) < Cardinality({j \in I : j < k})
           /\ \A n \in 1..Cardinality(I) : \E i \in I : Cardinality({j \in I : j < i}) = n - 1
<1>1. PICK R : R = {p \in I \X I : p[1] < p[2]}
  OBVIOUS
<1>2. \A i, j \in I : <<i, j>> \in R <=> i < j
  BY <1>1
<1>3. \A i \in I : {j \in I : <<j, i>> \in R} = {j \in I : j < i}
  BY <1>2
<1>4. /\ \A i \in I : <<i, i>> \notin R
      /\ \A i, j, k \in I : <<i, j>> \in R /\ <<j, k>> \in R => <<i, k>> \in R
      /\ \A i, j \in I : i = j \/ <<i, j>> \in R \/ <<j, i>> \in R
  <2>1. \A i, j, k \in I : ~(i < i) /\ (i < j /\ j < k => i < k) /\ (i = j \/ i < j \/ j < i)
    OBVIOUS
  <2> QED BY <1>2, <2>1
<1>5. /\ \A i \in I : Cardinality({j \in I : <<j, i>> \in R}) + 1 \in 1..Cardinality(I)
      /\ \A i, k \in I : <<i, k>> \in R =>
           Cardinality({j \in I : <<j, i>> \in R}) < Cardinality({j \in I : <<j, k>> \in R})
      /\ \A n \in 1..Cardinality(I) :
           \E i \in I : Cardinality({j \in I : <<j, i>> \in R}) = n - 1
  <2>1. \A S : AuditLog!Cardinality(S) = Cardinality(S)
    BY DEF AuditLog!Cardinality, Cardinality
  <2>2. AuditLog!IsFiniteSet(I)
    BY DEF AuditLog!IsFiniteSet, IsFiniteSet
  <2>3. /\ \A i \in I : AuditLog!Cardinality({j \in I : <<j, i>> \in R}) + 1 \in 1..AuditLog!Cardinality(I)
        /\ \A i, k \in I : <<i, k>> \in R =>
             AuditLog!Cardinality({j \in I : <<j, i>> \in R}) < AuditLog!Cardinality({j \in I : <<j, k>> \in R})
        /\ \A n \in 1..AuditLog!Cardinality(I) :
             \E i \in I : AuditLog!Cardinality({j \in I : <<j, i>> \in R}) = n - 1
    BY <1>4, <2>2, AuditLog!RanksInOrder
  <2> QED BY <2>1, <2>3
<1>6. \A i \in I : Cardinality({j \in I : j < i}) + 1 \in 1..Cardinality(I)
  BY <1>3, <1>5
<1>7. \A n \in 1..Cardinality(I) : \E i \in I : Cardinality({j \in I : j < i}) = n - 1
  BY <1>3, <1>5
<1>8. ASSUME NEW i \in I, NEW k \in I,
             Cardinality({j \in I : j < i}) = Cardinality({j \in I : j < k})
      PROVE  i = k
  <2>1. PICK a, b : /\ a = Cardinality({j \in I : j < i}) /\ b = Cardinality({j \in I : j < k})
                    /\ a = b /\ a \in Nat /\ b \in Nat
    BY <1>8, FS_Subset, FS_CardinalityType
  <2>2. ~(a < b) /\ ~(b < a)
    BY <2>1
  <2>3. <<i, k>> \notin R /\ <<k, i>> \notin R
    BY <1>3, <1>5, <2>1, <2>2
  <2> QED BY <1>4, <2>3
<1>9. \A i, k \in I : i < k => Cardinality({j \in I : j < i}) < Cardinality({j \in I : j < k})
  BY <1>2, <1>3, <1>5
<1> QED BY <1>6, <1>7, <1>8, <1>9

\* p are the elements of q in S: the n-th of them comes from the place f[n]
Picks(p, q, S, f) ==
    /\ f \in [DOMAIN p -> DOMAIN q]
    /\ \A n \in DOMAIN p : p[n] = q[f[n]] /\ q[f[n]] \in S
    /\ \A n, m \in DOMAIN p : n < m => f[n] < f[m]
    /\ \A i \in DOMAIN q : q[i] \in S => \E n \in DOMAIN p : f[n] = i

\* Filtered are the elements that are in S, in their order
LEMMA Filtered ==
    ASSUME NEW T, NEW q \in Seq(T), NEW S, NEW p, p = Only(q, S)
    PROVE  p \in Seq(T) /\ \E f : Picks(p, q, S, f)
<1> DEFINE I == {i \in DOMAIN q : q[i] \in S}
           rank(i) == Cardinality({j \in I : j < i})
           at(n) == CHOOSE i \in I : rank(i) = n - 1
<1>1. I \subseteq Nat /\ IsFiniteSet(I)
  <2>1. PICK l \in Nat : DOMAIN q = 1..l
    BY LenProperties
  <2>2. IsFiniteSet(1..l)
    BY FS_Interval
  <2>3. I \subseteq 1..l
    BY <2>1
  <2>4. I \subseteq Nat
    BY <2>3
  <2> HIDE DEF I
  <2> QED BY <2>2, <2>3, <2>4, FS_Subset
<1>2. PICK N \in Nat : N = Cardinality(I)
  BY <1>1, FS_CardinalityType
<1>3. p = [n \in 1..N |-> q[at(n)]]
  BY <1>2 DEF Only
<1>4. /\ \A i \in I : rank(i) + 1 \in 1..N
      /\ \A i, k \in I : rank(i) = rank(k) => i = k
      /\ \A i, k \in I : i < k => rank(i) < rank(k)
      /\ \A n \in 1..N : \E i \in I : rank(i) = n - 1
  <2> HIDE DEF I
  <2>1. \A i \in I : rank(i) + 1 \in 1..N
    <3>1. \A i \in I : Cardinality({j \in I : j < i}) + 1 \in 1..Cardinality(I)
      BY <1>1, Ranks
    <3> QED BY <1>2, <3>1
  <2>2. \A i, k \in I : rank(i) = rank(k) => i = k
    BY <1>1, Ranks
  <2>3. \A n \in 1..N : \E i \in I : rank(i) = n - 1
    BY <1>1, <1>2, Ranks
  <2>4. \A i, k \in I : i < k => rank(i) < rank(k)
    BY <1>1, Ranks
  <2> QED BY <2>1, <2>2, <2>3, <2>4
<1>5. \A n \in 1..N : at(n) \in I /\ rank(at(n)) = n - 1
  BY <1>4
<1>6. DOMAIN p = 1..N /\ \A n \in 1..N : at(n) \in DOMAIN q /\ p[n] = q[at(n)] /\ q[at(n)] \in S
  BY <1>3, <1>5
<1>7. p \in Seq(T)
  <2>0. \A i \in DOMAIN q : q[i] \in T
    OBVIOUS
  <2>1. \A n \in 1..N : p[n] \in T
    BY <1>6, <2>0
  <2> HIDE DEF at
  <2>2. p \in [1..N -> T]
    BY <1>3, <2>1
  <2> QED BY <2>2
<1>8. ASSUME NEW i \in DOMAIN q, q[i] \in S PROVE \E n \in 1..N : at(n) = i
  <2>1. PICK n : n = rank(i) + 1 /\ n \in 1..N /\ rank(i) = n - 1
    <3>1. PICK m : m = rank(i)
      OBVIOUS
    <3>2. rank(i) + 1 \in 1..N /\ rank(i) \in Nat
      <4>1. IsFiniteSet({j \in I : j < i})
        BY <1>1, FS_Subset
      <4> QED BY <1>4, <1>8, <3>1, <4>1, FS_CardinalityType
    <3> HIDE DEF rank
    <3> QED BY <3>1, <3>2
  <2>2. at(n) = i
    BY <1>4, <1>5, <1>8, <2>1
  <2> QED BY <2>1, <2>2
<1>9. ASSUME NEW n \in 1..N, NEW m \in 1..N, n < m PROVE at(n) < at(m)
  <2>1. PICK i, k : i = at(n) /\ k = at(m) /\ i \in I /\ k \in I /\ rank(i) = n - 1 /\ rank(k) = m - 1
    BY <1>5
  <2>2. i # k /\ ~(rank(k) < rank(i))
    <3> HIDE DEF at, rank, I
    <3> QED BY <1>9, <2>1
  <2>3. ~(k < i)
    BY <1>4, <2>1, <2>2
  <2>4. i \in Nat /\ k \in Nat
    BY <1>1, <2>1
  <2>5. i < k
    BY <2>2, <2>3, <2>4
  <2> QED BY <2>1, <2>5
<1>10. PICK f : f = [n \in 1..N |-> at(n)]
  OBVIOUS
<1>11. Picks(p, q, S, f)
  <2> HIDE DEF at, I
  <2>1. f \in [DOMAIN p -> DOMAIN q]
    BY <1>6, <1>10
  <2>2. \A n \in DOMAIN p : p[n] = q[f[n]] /\ q[f[n]] \in S
    BY <1>6, <1>10
  <2>3. \A n, m \in DOMAIN p : n < m => f[n] < f[m]
    BY <1>6, <1>9, <1>10
  <2>4. \A i \in DOMAIN q : q[i] \in S => \E n \in DOMAIN p : f[n] = i
    BY <1>6, <1>8, <1>10
  <2> QED BY <2>1, <2>2, <2>3, <2>4 DEF Picks
<1> QED BY <1>7, <1>11

\* Filtered are the elements that are in S, each as often as it was
LEMMA OnlyFacts ==
    ASSUME NEW T, NEW q \in Seq(T), NEW S, NEW p, p = TabLayout!Only(q, S)
    PROVE  /\ p \in Seq(T) /\ TabLayout!Range(p) = TabLayout!Range(q) \intersect S
           /\ TabLayout!IsInjective(q) => TabLayout!IsInjective(p)
<1>1. p = Only(q, S)
  BY DEF Only, TabLayout!Only, Cardinality, TabLayout!Cardinality
<1>2. p \in Seq(T)
  BY <1>1, Filtered
<1>3. PICK f : Picks(p, q, S, f)
  BY <1>1, Filtered
<1>4. TabLayout!Range(p) = TabLayout!Range(q) \intersect S
  BY <1>3 DEF Picks, TabLayout!Range
<1>5. ASSUME TabLayout!IsInjective(q), NEW n \in DOMAIN p, NEW m \in DOMAIN p, p[n] = p[m]
      PROVE  n = m
  <2>1. f[n] = f[m]
    BY <1>3, <1>5 DEF Picks, TabLayout!IsInjective
  <2>2. n \in Nat /\ m \in Nat /\ f[n] \in Nat
    BY <1>2, <1>3 DEF Picks
  <2>3. ~(n < m) /\ ~(m < n)
    BY <1>3, <2>1, <2>2 DEF Picks
  <2> QED BY <2>2, <2>3
<1> QED BY <1>2, <1>4, <1>5 DEF TabLayout!IsInjective

LEMMA LayoutInit == TabLayout!Init => TabLayout!LayoutInv
<1> SUFFICES ASSUME TabLayout!Init PROVE TabLayout!LayoutInv
  OBVIOUS
<1>1. PICK n \in 0..2 : x1 \in [1..n -> Sessions] /\ TabLayout!IsInjective(x1)
  BY DEF TabLayout!Init
<1>2. /\ x6 = {x1[i] : i \in DOMAIN x1} /\ x3 = Nothing
      /\ x2 = IF x1 = <<>> THEN Nothing ELSE x1[1]
  BY DEF TabLayout!Init, TabLayout!Range
<1>3. DOMAIN x1 = 1..n /\ x6 \subseteq Sessions /\ x1 \in [1..n -> x6]
  BY <1>1, <1>2
<1>4. x1 \in Seq(x6)
  BY <1>3
<1>5. x2 \in x6 \union {Nothing}
  BY <1>2, <1>4
<1> QED BY <1>1, <1>2, <1>3, <1>4, <1>5 DEF TabLayout!LayoutInv, TabLayout!PanesApart

\* Tabs that are added, each for a session that has none
LEMMA TabsAdded ==
    ASSUME NEW K, NEW a \in Seq(K), NEW b \in Seq(K),
           TabLayout!IsInjective(a), TabLayout!IsInjective(b),
           \A i \in DOMAIN a, j \in DOMAIN b : a[i] # b[j]
    PROVE  /\ a \o b \in Seq(K) /\ TabLayout!IsInjective(a \o b)
           /\ TabLayout!Range(a) \subseteq TabLayout!Range(a \o b)
           /\ TabLayout!Range(b) \subseteq TabLayout!Range(a \o b)
<1>1. PICK n \in Nat, m \in Nat : n = Len(a) /\ m = Len(b) /\ DOMAIN a = 1..n /\ DOMAIN b = 1..m
  BY LenProperties
<1>2. PICK c : c = a \o b /\ c \in Seq(K) /\ DOMAIN c = 1..(n + m)
  <2>1. a \o b \in Seq(K) /\ Len(a \o b) = Len(a) + Len(b)
    BY ConcatProperties
  <2>2. DOMAIN (a \o b) = 1..Len(a \o b)
    BY <2>1, LenProperties
  <2> QED BY <1>1, <2>1, <2>2
<1>3. /\ \A i \in 1..n : i \in DOMAIN c /\ c[i] = a[i]
      /\ \A i \in DOMAIN c : i \notin 1..n => i - n \in 1..m /\ c[i] = b[i - n]
      /\ \A j \in 1..m : n + j \in DOMAIN c /\ c[n + j] = b[j]
  BY <1>1, <1>2
<1>4. ASSUME NEW i \in DOMAIN c, NEW j \in DOMAIN c, c[i] = c[j] PROVE i = j
  <2>1. CASE i \in 1..n
    <3>1. j \in 1..n
      BY <1>1, <1>3, <1>4, <2>1
    <3> QED BY <1>1, <1>3, <1>4, <2>1, <3>1 DEF TabLayout!IsInjective
  <2>2. CASE i \notin 1..n
    <3>1. j \notin 1..n
      BY <1>1, <1>3, <1>4, <2>2
    <3>2. i - n = j - n
      BY <1>1, <1>3, <1>4, <2>2, <3>1 DEF TabLayout!IsInjective
    <3> QED BY <1>1, <1>2, <3>2
  <2> QED BY <2>1, <2>2
<1>5. TabLayout!IsInjective(c)
  BY <1>4 DEF TabLayout!IsInjective
<1>6. TabLayout!Range(a) \subseteq TabLayout!Range(c) /\ TabLayout!Range(b) \subseteq TabLayout!Range(c)
  BY <1>1, <1>3 DEF TabLayout!Range
<1> QED BY <1>2, <1>5, <1>6

LEMMA CreatedLayout ==
    ASSUME TabLayout!LayoutInv, NEW s \in Sessions, TabLayout!Created(s)
    PROVE  TabLayout!LayoutInv'
<1> USE DEF TabLayout!LayoutInv
<1>1. x6' = x6 \union {s} /\ x7' = (x7 \/ s \in x6) /\ x6' \subseteq Sessions
  BY DEF TabLayout!Created
<1>2. /\ x1' \in Seq(x6') /\ TabLayout!IsInjective(x1')
      /\ TabLayout!Range(x1) \subseteq TabLayout!Range(x1')
      /\ s \in TabLayout!Range(x1')
  <2>1. x1 \in Seq(x6')
    BY <1>1
  <2>2. CASE TabLayout!HasTab(s)
    BY <2>1, <2>2 DEF TabLayout!Created, TabLayout!HasTab
  <2>3. CASE ~TabLayout!HasTab(s)
    <3>1. x1' = Append(x1, s) /\ \A i \in DOMAIN x1 : x1[i] # s
      BY <2>3 DEF TabLayout!Created, TabLayout!HasTab, TabLayout!Range
    <3>2. PICK b : b = <<s>> /\ b \in Seq(x6') /\ DOMAIN b = {1} /\ b[1] = s
      <4>1. PICK K : K = x6' /\ s \in K
        BY <1>1
      <4>2. <<s>> \in Seq(K)
        BY <4>1
      <4>3. PICK b : b = <<s>>
        OBVIOUS
      <4>4. b \in Seq(x6') /\ DOMAIN b = {1} /\ b[1] = s
        BY <4>1, <4>2, <4>3
      <4> QED BY <4>3, <4>4
    <3>3. x1' = x1 \o b
      BY <2>1, <3>1, <3>2
    <3>4. TabLayout!IsInjective(b) /\ s \in TabLayout!Range(b)
      BY <3>2 DEF TabLayout!IsInjective, TabLayout!Range
    <3>5. \A i \in DOMAIN x1, j \in DOMAIN b : x1[i] # b[j]
      BY <3>1, <3>2
    <3> QED BY <2>1, <3>2, <3>3, <3>4, <3>5, TabsAdded
  <2> QED BY <2>2, <2>3
<1>3. CASE x3 = Nothing
  <2>1. x3' = x3 /\ x2' \in x6' \union {Nothing}
    BY <1>1, <1>3 DEF TabLayout!Created
  <2> QED BY <1>1, <1>2, <1>3, <2>1 DEF TabLayout!PanesApart
<1>4. CASE x3 # Nothing
  <2>1. /\ x3 \in [right : SUBSET x6, leftActive : x6, rightActive : x6]
        /\ x3.right \subseteq TabLayout!Range(x1) /\ x3.rightActive \in x3.right
        /\ ~x7 => x3.leftActive \notin x3.right
    BY <1>4 DEF TabLayout!PanesApart
  <2>2. x2' \in x6' \union {Nothing}
    BY <1>1, <1>4 DEF TabLayout!Created
  <2>3. /\ x3' \in [right : SUBSET x6', leftActive : x6', rightActive : x6']
        /\ x3'.right \subseteq TabLayout!Range(x1') /\ x3'.rightActive \in x3'.right
        /\ ~x7' => x3'.leftActive \notin x3'.right
    <3>1. CASE x4 = "right"
      <4>1. x3' = [right |-> x3.right \union {s}, leftActive |-> x3.leftActive, rightActive |-> s]
        BY <1>4, <2>1, <3>1 DEF TabLayout!Created, TabLayout!InRightPane
      <4> QED BY <1>1, <1>2, <2>1, <4>1
    <3>2. CASE x4 # "right"
      <4>1. x3' = [right |-> x3.right, leftActive |-> s, rightActive |-> x3.rightActive]
        BY <1>4, <2>1, <3>2 DEF TabLayout!Created
      <4> QED BY <1>1, <1>2, <2>1, <4>1
    <3> QED BY <3>1, <3>2
  <2> QED BY <1>1, <1>2, <2>2, <2>3 DEF TabLayout!PanesApart
<1> QED BY <1>3, <1>4

LEMMA ListedLayout ==
    ASSUME TabLayout!LayoutInv, NEW ss \in Seq(Sessions), TabLayout!IsInjective(ss),
           TabLayout!Listed(ss)
    PROVE  TabLayout!LayoutInv'
<1> USE DEF TabLayout!LayoutInv
<1>1. /\ x6' = x6 \union TabLayout!Range(ss) /\ x6' \subseteq Sessions /\ x6 \subseteq x6'
      /\ UNCHANGED <<x3, x7>>
  BY DEF TabLayout!Listed, TabLayout!Range
<1>2. PICK n \in Nat : DOMAIN ss = 1..n /\ ss # <<>>
  BY LenProperties DEF TabLayout!Listed
<1>3. ss \in Seq(x6')
  <2>1. \A i \in 1..n : ss[i] \in x6'
    BY <1>1, <1>2 DEF TabLayout!Range
  <2>2. ss \in [1..n -> x6']
    BY <1>2, <2>1
  <2> QED BY <2>2
<1>4. PICK b : b = TabLayout!Only(ss, Sessions \ TabLayout!Range(x1)) /\ x1' = x1 \o b
  BY DEF TabLayout!Listed
<1>5. /\ b \in Seq(x6') /\ TabLayout!IsInjective(b)
      /\ \A j \in DOMAIN b : b[j] \notin TabLayout!Range(x1)
  <2>1. PICK S : S = Sessions \ TabLayout!Range(x1) /\ b = TabLayout!Only(ss, S)
    BY <1>4
  <2>2. /\ b \in Seq(x6') /\ TabLayout!IsInjective(b)
        /\ TabLayout!Range(b) = TabLayout!Range(ss) \intersect S
    BY <1>3, <2>1, OnlyFacts
  <2>3. \A j \in DOMAIN b : b[j] \in TabLayout!Range(b)
    BY DEF TabLayout!Range
  <2> QED BY <2>1, <2>2, <2>3
<1>6. /\ x1' \in Seq(x6') /\ TabLayout!IsInjective(x1')
      /\ TabLayout!Range(x1) \subseteq TabLayout!Range(x1')
  <2>1. x1 \in Seq(x6')
    BY <1>1
  <2>2. \A i \in DOMAIN x1, j \in DOMAIN b : x1[i] # b[j]
    BY <1>5 DEF TabLayout!Range
  <2> QED BY <1>4, <1>5, <2>1, <2>2, TabsAdded
<1>7. x2' \in x6' \union {Nothing}
  <2>1. ss[1] \in x6'
    BY <1>2, <1>3
  <2> QED BY <1>1, <2>1 DEF TabLayout!Listed
<1>8. x3' # Nothing => x3' \in [right : SUBSET x6', leftActive : x6', rightActive : x6']
  BY <1>1
<1>9. TabLayout!PanesApart'
  BY <1>1, <1>6 DEF TabLayout!PanesApart
<1> QED BY <1>1, <1>6, <1>7, <1>8, <1>9

\* A closed tab leaves both panes, and a pane whose terminal it was shows the
\* first of those left to it
LEMMA CloseLayout ==
    ASSUME TabLayout!LayoutInv, UNCHANGED <<x6, x7>>,
           NEW sid, NEW wasActive, TabLayout!CloseEnds(sid, wasActive)
    PROVE  TabLayout!LayoutInv'
<1>0. x1 \in Seq(x6) /\ TabLayout!IsInjective(x1) /\ x6 \subseteq Sessions
  BY DEF TabLayout!LayoutInv
<1>1. /\ x1' \in Seq(x6) /\ TabLayout!IsInjective(x1')
      /\ TabLayout!Range(x1) \ {sid} \subseteq TabLayout!Range(x1')
  <2>1. PICK S, q, b : /\ S = Sessions \ {sid} /\ q = x1 /\ b = TabLayout!Only(q, S)
                       /\ x1' = b
    BY DEF TabLayout!CloseEnds
  <2>2. /\ b \in Seq(x6) /\ (TabLayout!IsInjective(q) => TabLayout!IsInjective(b))
        /\ TabLayout!Range(b) = TabLayout!Range(q) \intersect S
    BY <1>0, <2>1, OnlyFacts
  <2>3. TabLayout!Range(q) \subseteq Sessions
    BY <1>0, <2>1 DEF TabLayout!Range
  <2> QED BY <1>0, <2>1, <2>2, <2>3
<1> USE DEF TabLayout!LayoutInv
<1>2. PICK remaining : remaining \in {x1', <<>>} /\ TabLayout!CloseWith(sid, wasActive, remaining)
  BY DEF TabLayout!CloseEnds
<1>3. remaining \in Seq(x6)
  <2>1. <<>> \in Seq(x6)
    OBVIOUS
  <2> QED BY <1>1, <1>2, <2>1
<1>4. PICK first : /\ first = IF remaining = <<>> THEN Nothing ELSE remaining[1]
                   /\ first \in x6 \union {Nothing}
  BY <1>3
<1>5. CASE x3 = Nothing \/ x3' = Nothing
  <2>1. x2' \in {x2, first} /\ x3' = Nothing
    BY <1>2, <1>4, <1>5 DEF TabLayout!CloseWith
  <2> QED BY <1>1, <1>4, <2>1 DEF TabLayout!PanesApart
<1>6. CASE x3 # Nothing /\ x3' # Nothing
  <2>1. PICK right, l, r :
          /\ right = x3.right \ {sid}
          /\ l = TabLayout!Only(remaining, Sessions \ right) /\ r = TabLayout!Only(remaining, right)
    OBVIOUS
  <2>2. /\ l # <<>> /\ r # <<>> /\ x2' = x2
        /\ x3' = [right |-> right,
                  leftActive |-> IF x3.leftActive = sid THEN l[1] ELSE x3.leftActive,
                  rightActive |-> IF x3.rightActive = sid THEN r[1] ELSE x3.rightActive]
    BY <1>2, <1>6, <2>1 DEF TabLayout!CloseWith, TabLayout!NextActive
  <2>3. l[1] \in x6 /\ l[1] \notin right
    <3>1. PICK S : S = Sessions \ right /\ l = TabLayout!Only(remaining, S)
      BY <2>1
    <3>3. l \in Seq(x6) /\ \A n \in DOMAIN l : l[n] \in S
      <4>1. l \in Seq(x6) /\ TabLayout!Range(l) \subseteq S
        BY <1>3, <3>1, OnlyFacts
      <4> QED BY <4>1 DEF TabLayout!Range
    <3>2. 1 \in DOMAIN l /\ l[1] \in x6
      BY <2>2, <3>3
    <3> QED BY <3>1, <3>2, <3>3
  <2>4. r[1] \in x6 /\ r[1] \in right
    <3>1. r \in Seq(x6) /\ \A n \in DOMAIN r : r[n] \in right
      <4>1. r \in Seq(x6) /\ TabLayout!Range(r) \subseteq right
        BY <1>3, <2>1, OnlyFacts
      <4> QED BY <4>1 DEF TabLayout!Range
    <3>2. 1 \in DOMAIN r /\ r[1] \in x6
      BY <2>2, <3>1
    <3> QED BY <3>1, <3>2
  <2>5. /\ x3 \in [right : SUBSET x6, leftActive : x6, rightActive : x6]
        /\ x3.right \subseteq TabLayout!Range(x1) /\ x3.rightActive \in x3.right
        /\ ~x7 => x3.leftActive \notin x3.right
    BY <1>6 DEF TabLayout!PanesApart
  <2>6. x3' \in [right : SUBSET x6, leftActive : x6, rightActive : x6]
    BY <2>1, <2>2, <2>3, <2>4, <2>5
  <2>7. /\ x3'.right \subseteq TabLayout!Range(x1') /\ x3'.rightActive \in x3'.right
        /\ ~x7 => x3'.leftActive \notin x3'.right
    BY <1>1, <2>1, <2>2, <2>3, <2>4, <2>5
  <2> QED BY <1>1, <2>2, <2>6, <2>7 DEF TabLayout!PanesApart
<1> QED BY <1>5, <1>6

\* The right pane begins with the first tab that is not the active one
LEMMA SplitLayout ==
    ASSUME TabLayout!LayoutInv, TabLayout!HandleSplit
    PROVE  TabLayout!LayoutInv'
<1>0. x1 \in Seq(x6) /\ TabLayout!IsInjective(x1) /\ x6 \subseteq Sessions
  BY DEF TabLayout!LayoutInv
<1> USE DEF TabLayout!LayoutInv
<1>1. UNCHANGED <<x1, x6, x7>>
  BY DEF TabLayout!HandleSplit
<1>2. CASE x3 # Nothing
  BY <1>1, <1>2 DEF TabLayout!HandleSplit, TabLayout!PanesApart
<1>3. CASE x3 = Nothing
  <2>1. PICK S, q, p : S = Sessions \ {x2} /\ q = x1 /\ p = TabLayout!Only(q, S)
    OBVIOUS
  <2>2. p \in Seq(x6) /\ TabLayout!Range(p) = TabLayout!Range(q) \intersect S
    <3> HIDE DEF TabLayout!LayoutInv
    <3> QED BY <1>0, <2>1, OnlyFacts
  <2>3. /\ x2 # Nothing /\ x2 \in x6 /\ x2' = x2
        /\ 1 \in DOMAIN x1 /\ 2 \in DOMAIN x1 /\ x1[1] \in Sessions /\ x1[2] \in Sessions
        /\ x3' = [right |-> {p[1]}, leftActive |-> x2, rightActive |-> p[1]]
    <3>1. /\ x2 # Nothing /\ x2' = x2 /\ Len(x1) >= 2
          /\ x3' = [right |-> {p[1]}, leftActive |-> x2, rightActive |-> p[1]]
      BY <1>3, <2>1 DEF TabLayout!HandleSplit
    <3>2. 1 \in DOMAIN x1 /\ 2 \in DOMAIN x1
      BY <3>1
    <3> QED BY <3>1, <3>2
  <2>4. x1[1] # x1[2]
    BY <2>3 DEF TabLayout!IsInjective
  <2>5. p # <<>> /\ 1 \in DOMAIN p
    <3>1. {x1[1], x1[2]} \subseteq TabLayout!Range(q)
      BY <2>1, <2>3 DEF TabLayout!Range
    <3>2. TabLayout!Range(p) # {}
      <4>1. PICK e \in {x1[1], x1[2]} : e # x2
        BY <2>4
      <4>2. e \in Sessions \ {x2} /\ e \in TabLayout!Range(q)
        BY <2>3, <3>1, <4>1
      <4> HIDE DEF TabLayout!LayoutInv
      <4> QED BY <2>1, <2>2, <4>2
    <3>3. DOMAIN p # {}
      BY <3>2 DEF TabLayout!Range
    <3> HIDE DEF TabLayout!LayoutInv
    <3> QED BY <2>2, <3>3
  <2>6. p[1] \in x6 /\ p[1] # x2 /\ p[1] \in TabLayout!Range(x1)
    <3>1. p[1] \in TabLayout!Range(p)
      BY <2>5 DEF TabLayout!Range
    <3>2. p[1] \in x6
      BY <2>2, <2>5
    <3>3. PICK u : u = p[1]
      OBVIOUS
    <3>4. u \in S /\ u \in TabLayout!Range(x1)
      BY <2>1, <2>2, <3>1, <3>3
    <3> QED BY <2>1, <3>2, <3>3, <3>4
  <2> QED BY <1>1, <2>3, <2>6 DEF TabLayout!PanesApart
<1> QED BY <1>2, <1>3

LEMMA LayoutNext ==
    TabLayout!LayoutInv /\ [TabLayout!Next]_(TabLayout!vars) => TabLayout!LayoutInv'
<1> SUFFICES ASSUME TabLayout!LayoutInv, [TabLayout!Next]_(TabLayout!vars)
             PROVE  TabLayout!LayoutInv'
  OBVIOUS
<1>1. ASSUME NEW s \in Sessions, NEW t \in Sessions,
             TabLayout!Listed(<<s>>) \/ (s # t /\ TabLayout!Listed(<<s, t>>))
      PROVE  TabLayout!LayoutInv'
  <2>1. /\ <<s>> \in Seq(Sessions) /\ TabLayout!IsInjective(<<s>>)
        /\ <<s, t>> \in Seq(Sessions) /\ (s # t => TabLayout!IsInjective(<<s, t>>))
    BY DEF TabLayout!IsInjective
  <2> QED BY <1>1, <2>1, ListedLayout
<1>2. ASSUME NEW s \in Sessions, TabLayout!CloseNow(s) PROVE TabLayout!LayoutInv'
  BY <1>2, CloseLayout DEF TabLayout!CloseNow
<1>3. ASSUME NEW c \in x5, TabLayout!CloseContinues(c) PROVE TabLayout!LayoutInv'
  BY <1>3, CloseLayout DEF TabLayout!CloseContinues
<1>4. ASSUME NEW s \in Sessions, TabLayout!Activate(s) PROVE TabLayout!LayoutInv'
  <2> USE DEF TabLayout!LayoutInv
  <2>1. UNCHANGED <<x1, x6, x7>>
    BY <1>4 DEF TabLayout!Activate
  <2>2. \A q \in TabLayout!Range(x1) : q \in x6
    BY DEF TabLayout!Range
  <2>3. CASE x3 = Nothing
    BY <1>4, <2>1, <2>2, <2>3 DEF TabLayout!Activate, TabLayout!HasTab, TabLayout!PanesApart
  <2>4. CASE x3 # Nothing
    <3>1. /\ x3 \in [right : SUBSET x6, leftActive : x6, rightActive : x6]
          /\ x3.right \subseteq TabLayout!Range(x1) /\ x3.rightActive \in x3.right
          /\ ~x7 => x3.leftActive \notin x3.right
      BY <2>4 DEF TabLayout!PanesApart
    <3>2. /\ x2' = x2
          /\ \/ s \in TabLayout!LeftSessions /\ x3' = [x3 EXCEPT !.leftActive = s]
             \/ s \in TabLayout!RightSessions /\ x3' = [x3 EXCEPT !.rightActive = s]
      BY <1>4, <2>4 DEF TabLayout!Activate
    <3>3. /\ x3' \in [right : SUBSET x6, leftActive : x6, rightActive : x6]
          /\ x3'.right \subseteq TabLayout!Range(x1) /\ x3'.rightActive \in x3'.right
          /\ ~x7 => x3'.leftActive \notin x3'.right
      BY <2>2, <3>1, <3>2 DEF TabLayout!LeftSessions, TabLayout!RightSessions
    <3> QED BY <2>1, <3>2, <3>3 DEF TabLayout!PanesApart
  <2> QED BY <2>3, <2>4
<1>5. CASE \/ \E s \in Sessions : TabLayout!CloseBegins(s)
           \/ \E pane \in TabLayout!Pane : TabLayout!Focus(pane)
           \/ UNCHANGED TabLayout!vars
  <2>1. UNCHANGED <<x1, x2, x3, x6, x7>>
    BY <1>5 DEF TabLayout!CloseBegins, TabLayout!Focus, TabLayout!vars
  <2> QED BY <2>1 DEF TabLayout!LayoutInv, TabLayout!PanesApart
<1> QED BY <1>1, <1>2, <1>3, <1>4, <1>5, CreatedLayout, SplitLayout DEF TabLayout!Next

-----------------------------------------------------------------------------
(***************************************************************************)
(* CommandPalette: agents, open, matches, selectedIndex and settled are x1 *)
(* to x5                                                                   *)
(***************************************************************************)

LEMMA SeqOfMore == ASSUME NEW S, NEW T, S \subseteq T, NEW q \in Seq(S) PROVE q \in Seq(T)
<1>1. PICK n \in Nat : q \in [1..n -> S]
  BY LenProperties
<1>2. q \in [1..n -> T]
  BY <1>1
<1> QED BY <1>2

LEMMA SeqOfFunction == ASSUME NEW n \in Nat, NEW T, NEW q \in [1..n -> T] PROVE q \in Seq(T)
OBVIOUS

\* f numbers the places from lo + 1 to hi in ascending order; it adds lo to each number
Numbers(f, N, lo, hi) ==
    /\ lo \in Nat /\ hi \in Nat /\ lo <= hi /\ N \in Nat
    /\ f \in [1..N -> (lo + 1)..hi]
    /\ \A n, m \in 1..N : n < m => f[n] < f[m]
    /\ \A i \in (lo + 1)..hi : \E n \in 1..N : f[n] = i
Adds(f, N, lo) == \A n \in 1..N : f[n] = lo + n

\* Numbers in ascending order that leave none out from lo + 1 to hi are all of these
LEMMA NoneLeftOut ==
    ASSUME NEW f, NEW N, NEW lo, NEW hi, Numbers(f, N, lo, hi)
    PROVE  N = hi - lo /\ Adds(f, N, lo)
<1>0. /\ lo \in Nat /\ hi \in Nat /\ lo <= hi /\ N \in Nat
      /\ f \in [1..N -> (lo + 1)..hi]
      /\ \A n, m \in 1..N : n < m => f[n] < f[m]
      /\ \A i \in (lo + 1)..hi : \E n \in 1..N : f[n] = i
  BY DEF Numbers
<1> USE <1>0
<1>1. \A n \in 1..N : f[n] = lo + n
  <2> DEFINE Wrong == {n \in 1..N : f[n] # lo + n}
  <2> SUFFICES ASSUME Wrong # {} PROVE FALSE
    OBVIOUS
  <2>1. PICK n \in Wrong : \A j \in Wrong : ~(j < n)
    <3>1. Wrong \subseteq Nat
      OBVIOUS
    <3> HIDE DEF Wrong
    <3> QED BY <3>1, LeastNumber
  <2>2. n \in 1..N /\ f[n] \in (lo + 1)..hi /\ f[n] # lo + n
    OBVIOUS
  <2>3. f[n] > lo + n
    <3>1. CASE n = 1
      BY <2>2, <3>1
    <3>2. CASE n # 1
      <4>1. PICK m \in 1..N : m = n - 1 /\ m < n
        BY <2>2, <3>2
      <4>2. m \notin Wrong
        <5> HIDE DEF Wrong
        <5> QED BY <2>1, <4>1
      <4>3. PICK x, y : x = f[n] /\ y = f[m] /\ x \in Nat /\ y \in Nat
        <5>1. \A j \in 1..N : f[j] \in Nat
          BY SMTT(30)
        <5> QED BY <2>2, <5>1
      <4>4. y = lo + m /\ y < x
        BY <2>2, <4>1, <4>2, <4>3
      <4>5. n \in Nat /\ m \in Nat /\ x # lo + n
        BY <2>2, <4>3
      <4> HIDE <1>0
      <4> HIDE DEF Wrong
      <4>6. lo \in Nat
        BY <1>0
      <4>7. x > lo + n
        BY <4>1, <4>3, <4>4, <4>5, <4>6
      <4> QED BY <4>3, <4>7
    <3> QED BY <3>1, <3>2
  <2>4. PICK m \in 1..N : f[m] = lo + n
    BY <2>2, <2>3
  <2>5. ~(m < n)
    <3>1. m \in Wrong \/ f[m] = lo + m
      OBVIOUS
    <3> HIDE DEF Wrong
    <3> QED BY <2>1, <2>2, <2>4, <3>1
  <2>6. ~(n < m)
    BY <2>2, <2>3, <2>4
  <2> QED BY <2>2, <2>4, <2>5, <2>6
<1>2. N <= hi - lo
  BY <1>1
<1>3. ~(N < hi - lo)
  <2> SUFFICES ASSUME N < hi - lo PROVE FALSE
    OBVIOUS
  <2>1. PICK m \in 1..N : f[m] = lo + (N + 1)
    OBVIOUS
  <2> QED BY <1>1, <2>1
<1>4. N = hi - lo
  BY <1>2, <1>3
<1> QED BY <1>1, <1>4 DEF Adds

\* The elements of G stand before the others
Leads(q, G) == \A i, j \in DOMAIN q : i < j /\ q[j] \in G => q[i] \in G

\* F and R share no element and leave none of T out
Apart(T, F, R) == T \subseteq F \union R /\ F \intersect R = {}

\* Filtering what stands in front, and what is left, takes a sequence apart
LEMMA FrontAndRest ==
    ASSUME NEW T, NEW q, q \in Seq(T), NEW F, NEW R, Apart(T, F, R), Leads(q, F)
    PROVE  Only(q, F) \o Only(q, R) = q
<1>1. PICK l \in Nat : DOMAIN q = 1..l /\ l = Len(q)
  BY LenProperties
<1>2. PICK a, b : a = Only(q, F) /\ b = Only(q, R)
  OBVIOUS
<1>3. a \in Seq(T) /\ \E f : Picks(a, q, F, f)
  BY <1>2, Filtered
<1>4. b \in Seq(T) /\ \E g : Picks(b, q, R, g)
  BY <1>2, Filtered
<1>5. PICK f : Picks(a, q, F, f)
  BY <1>3
<1>6. PICK g : Picks(b, q, R, g)
  BY <1>4
<1>7. PICK N, M : N \in Nat /\ M \in Nat /\ N = Len(a) /\ M = Len(b)
                  /\ DOMAIN a = 1..N /\ DOMAIN b = 1..M
  <2>1. a \in Seq(T) /\ b \in Seq(T)
    BY <1>3, <1>4
  <2> QED BY <2>1, LenProperties
<1>8. PICK k \in 0..l : \A i \in 1..l : q[i] \in F <=> i <= k
  <2> DEFINE Out == {n \in Nat : n + 1 \in 1..l => q[n + 1] \notin F}
  <2>1. Out \subseteq Nat /\ l \in Out
    OBVIOUS
  <2>2. PICK k \in Out : \A j \in Out : ~(j < k)
    <3> HIDE DEF Out
    <3> QED BY <2>1, LeastNumber
  <2>3. k \in Nat /\ k <= l
    BY <2>1, <2>2
  <2>4. ASSUME NEW i \in 1..l, i <= k PROVE q[i] \in F
    <3>1. i - 1 \in Nat /\ i - 1 < k /\ (i - 1) + 1 = i
      BY <2>3, <2>4
    <3>2. i - 1 \notin Out
      BY <2>2, <3>1
    <3> QED BY <3>1, <3>2
  <2>5. ASSUME NEW i \in 1..l, q[i] \in F PROVE i <= k
    <3>1. ~(k + 1 < i)
      BY <1>1, <2>2, <2>3, <2>5 DEF Leads
    <3>2. k + 1 # i
      BY <2>2, <2>3, <2>5
    <3> QED BY <2>3, <3>1, <3>2
  <2>6. k \in 0..l
    BY <1>1, <2>3
  <2> HIDE DEF Out
  <2> QED BY Zenon, <2>4, <2>5, <2>6
<1>9. \A i \in 1..l : q[i] \in R <=> i > k
  <2>1. \A i \in 1..l : q[i] \in T
    BY <1>1
  <2>2. \A i \in 1..l : q[i] \in R <=> q[i] \notin F
    BY <2>1 DEF Apart
  <2> QED BY <1>8, <2>2
<1>10. N = k /\ \A n \in 1..N : f[n] = n
  <2>1. \A n \in 1..N : f[n] \in 1..k
    BY <1>1, <1>5, <1>7, <1>8 DEF Picks
  <2>2. f \in [1..N -> (0 + 1)..k]
    BY <1>5, <1>7, <2>1 DEF Picks
  <2>3. \A n, m \in 1..N : n < m => f[n] < f[m]
    BY <1>5, <1>7 DEF Picks
  <2>4. ASSUME NEW i \in (0 + 1)..k PROVE \E n \in 1..N : f[n] = i
    <3>1. i \in 1..l /\ i <= k
      BY <1>8
    <3>2. q[i] \in F
      BY <1>8, <3>1
    <3> QED BY <1>1, <1>5, <1>7, <3>1, <3>2 DEF Picks
  <2>5. 0 \in Nat /\ k \in Nat /\ 0 <= k
    BY <1>8
  <2>6. Numbers(f, N, 0, k)
    BY <1>7, <2>2, <2>3, <2>4, <2>5 DEF Numbers
  <2>7. N = k - 0 /\ Adds(f, N, 0)
    BY <2>6, NoneLeftOut
  <2> QED BY <1>7, <1>8, <2>7 DEF Adds
<1>11. M = l - k /\ \A n \in 1..M : g[n] = k + n
  <2>1. \A n \in 1..M : g[n] \in (k + 1)..l
    BY <1>1, <1>6, <1>7, <1>8, <1>9 DEF Picks
  <2>2. g \in [1..M -> (k + 1)..l]
    BY <1>6, <1>7, <2>1 DEF Picks
  <2>3. \A n, m \in 1..M : n < m => g[n] < g[m]
    BY <1>6, <1>7 DEF Picks
  <2>4. \A i \in (k + 1)..l : \E n \in 1..M : g[n] = i
    BY <1>1, <1>6, <1>7, <1>8, <1>9 DEF Picks
  <2>5. k \in Nat /\ l \in Nat /\ k <= l
    BY <1>8
  <2>6. Numbers(g, M, k, l)
    BY <1>7, <2>2, <2>3, <2>4, <2>5 DEF Numbers
  <2>7. M = l - k /\ Adds(g, M, k)
    BY <2>6, NoneLeftOut
  <2> QED BY <2>7 DEF Adds
<1>12. \A n \in 1..N : a[n] = q[n]
  BY <1>5, <1>7, <1>10 DEF Picks
<1>13. \A n \in 1..M : b[n] = q[k + n]
  BY <1>6, <1>7, <1>11 DEF Picks
<1>14. a \o b \in Seq(T) /\ Len(a \o b) = l /\ \A i \in 1..l : (a \o b)[i] = q[i]
  <2>1. a \o b \in Seq(T) /\ Len(a \o b) = N + M
    BY <1>3, <1>4, <1>7
  <2>2. \A i \in 1..(N + M) : (a \o b)[i] = IF i <= N THEN a[i] ELSE b[i - N]
    BY <1>3, <1>4, <1>7
  <2>3. N = k /\ M = l - k /\ k \in 0..l
    BY <1>10, <1>11, <1>8
  <2>4. ASSUME NEW i \in 1..l PROVE (a \o b)[i] = q[i]
    <3>1. CASE i <= N
      BY <1>7, <1>12, <2>2, <2>3, <2>4, <3>1
    <3>2. CASE ~(i <= N)
      <4>1. i - N \in 1..M /\ k + (i - N) = i
        BY <2>3, <2>4, <3>2
      <4>2. (a \o b)[i] = b[i - N]
        <5>1. i \in 1..(N + M)
          BY <2>3
        <5> QED BY <2>2, <3>2, <5>1
      <4> QED BY <1>13, <4>1, <4>2
    <3> QED BY <3>1, <3>2
  <2> QED BY <2>1, <2>3, <2>4
<1>15. a \o b = q
  <2>1. PICK c : c = a \o b
    OBVIOUS
  <2> QED BY <1>1, <1>14, <2>1, SeqEqual
<1> QED BY <1>2, <1>15

\* A set as a list
LEMMA SetListed ==
    ASSUME NEW S, IsFiniteSet(S) PROVE CommandPalette!SetToSeq(S) \in Seq(S)
<1>1. PICK n \in Nat : ExistsBijection(1..n, S)
  BY FS_NatBijection
<1>2. Cardinality(S) = n
  BY <1>1, FS_CountingElements
<1>3. PICK f : f \in [1..n -> S] /\ CommandPalette!IsInjective(f)
  BY <1>1 DEF ExistsBijection, Bijection, Injection, IsInjective, CommandPalette!IsInjective
<1>4. PICK q : q = CommandPalette!SetToSeq(S) /\ q \in [1..n -> S]
  BY <1>2, <1>3 DEF CommandPalette!SetToSeq, Cardinality, CommandPalette!Cardinality
<1> QED BY <1>4, SeqOfFunction

LEMMA FilterOfPalette == \A q, S : CommandPalette!Only(q, S) = Only(q, S)
BY DEF CommandPalette!Only, Only, Cardinality, CommandPalette!Cardinality

LEMMA ItemsListed ==
    ASSUME PartsConstants, DOMAIN x1 \subseteq Machines
    PROVE  CommandPalette!AllItems \in Seq(CommandPalette!Items)
           /\ Leads(CommandPalette!AllItems, Machines)
<1>1. PICK a, b : a = CommandPalette!SetToSeq(DOMAIN x1) /\ b = CommandPalette!SetToSeq(Pages)
  OBVIOUS
<1>2. a \in Seq(DOMAIN x1)
  <2>1. IsFiniteSet(DOMAIN x1)
    BY FS_Subset DEF PartsConstants
  <2> QED BY <1>1, <2>1, SetListed
<1>3. a \in Seq(Machines)
  BY <1>2, SeqOfMore
<1>4. b \in Seq(Pages)
  BY <1>1, SetListed DEF PartsConstants
<1>5. a \in Seq(CommandPalette!Items) /\ b \in Seq(CommandPalette!Items)
  BY <1>3, <1>4, SeqOfMore DEF CommandPalette!Items
<1>6. PICK q : q = a \o b
  OBVIOUS
<1>7. CommandPalette!AllItems = q
  BY <1>1, <1>6 DEF CommandPalette!AllItems
<1>8. q \in Seq(CommandPalette!Items)
  BY <1>5, <1>6
<1>9. PICK n, m \in Nat : n = Len(a) /\ m = Len(b)
  BY <1>5, LenProperties
<1>10. DOMAIN q = 1..(n + m) /\ \A i \in 1..(n + m) : q[i] = IF i <= n THEN a[i] ELSE b[i - n]
  BY <1>5, <1>6, <1>9
<1>11. ASSUME NEW i \in 1..(n + m) PROVE q[i] \in Machines <=> i <= n
  <2>1. CASE i <= n
    <3>1. a[i] \in Machines
      BY <1>3, <1>9, <2>1
    <3> QED BY <1>10, <2>1, <3>1
  <2>2. CASE ~(i <= n)
    <3>1. i - n \in 1..m
      BY <2>2
    <3>2. b[i - n] \in Pages
      BY <1>4, <1>9, <3>1
    <3> QED BY <1>10, <2>2, <3>2 DEF PartsConstants
  <2> QED BY <2>1, <2>2
<1>12. Leads(q, Machines)
  <2> SUFFICES ASSUME NEW i \in DOMAIN q, NEW j \in DOMAIN q, i < j, q[j] \in Machines
               PROVE  q[i] \in Machines
    BY DEF Leads
  <2>1. i \in 1..(n + m) /\ j \in 1..(n + m) /\ j <= n
    BY <1>10, <1>11
  <2>2. i <= n
    BY <2>1
  <2> QED BY <1>11, <2>1, <2>2
<1> QED BY <1>7, <1>8, <1>12

LEMMA StillLeads ==
    ASSUME NEW q, NEW p, NEW S, NEW f, Picks(p, q, S, f), NEW G, Leads(q, G)
    PROVE  Leads(p, G)
<1> SUFFICES ASSUME NEW i \in DOMAIN p, NEW j \in DOMAIN p, i < j, p[j] \in G PROVE p[i] \in G
  BY DEF Leads
<1>1. f[i] \in DOMAIN q /\ f[j] \in DOMAIN q /\ f[i] < f[j] /\ p[i] = q[f[i]] /\ p[j] = q[f[j]]
  BY DEF Picks
<1> QED BY <1>1 DEF Leads

\* The score of every item, and that the scores fall
Scored(q, s) ==
    /\ \A i \in DOMAIN q : s[q[i]] \in 1..3
    /\ \A i, j \in DOMAIN q : i < j => s[q[i]] >= s[q[j]]

\* The items of one score, and what is known of them
OfScore(p, A, T, s, k) == p = Only(A, {i \in T : s[i] = k})
OfScoreFacts(p, A, T, s, k) ==
    /\ p \in Seq(T)
    /\ \A i \in DOMAIN p : s[p[i]] = k
    /\ \A G : Leads(A, G) => Leads(p, G)
    /\ (\A t \in T : s[t] # k) => p = <<>>

LEMMA ScoreTaken ==
    ASSUME NEW T, NEW A, A \in Seq(T), NEW s, NEW k, NEW p, OfScore(p, A, T, s, k)
    PROVE  OfScoreFacts(p, A, T, s, k)
<1>0. p = Only(A, {i \in T : s[i] = k})
  BY DEF OfScore
<1>1. p \in Seq(T)
  BY <1>0, Filtered
<1>2. PICK f : Picks(p, A, {i \in T : s[i] = k}, f)
  BY <1>0, Filtered
<1>3. \A i \in DOMAIN p : s[p[i]] = k
  BY <1>2 DEF Picks
<1>4. \A G : Leads(A, G) => Leads(p, G)
  BY <1>2, StillLeads
<1>5. ASSUME \A t \in T : s[t] # k PROVE p = <<>>
  <2>1. \A i \in DOMAIN p : p[i] \in T
    BY <1>1
  <2>2. DOMAIN p = {}
    BY <1>3, <1>5, <2>1
  <2>3. Len(p) = 0
    BY <1>1, <2>2, LenProperties
  <2> QED BY <1>1, <2>3
<1> QED BY <1>1, <1>3, <1>4, <1>5 DEF OfScoreFacts

LEMMA FilteredFacts ==
    ASSUME PartsConstants, DOMAIN x1 \subseteq Machines
    PROVE  /\ CommandPalette!filtered \in Seq(CommandPalette!Items)
           /\ Scored(CommandPalette!filtered, x3)
           /\ x3 = CommandPalette!NoQuery => Leads(CommandPalette!filtered, Machines)
<1>1. PICK A, T : A = CommandPalette!AllItems /\ T = CommandPalette!Items
  OBVIOUS
<1>2. A \in Seq(T) /\ Leads(A, Machines)
  BY <1>1, ItemsListed
<1>3. PICK a, b, c : OfScore(a, A, T, x3, 3) /\ OfScore(b, A, T, x3, 2) /\ OfScore(c, A, T, x3, 1)
  BY DEF OfScore
<1>4. CommandPalette!filtered = (a \o b) \o c
  BY <1>1, <1>3, FilterOfPalette DEF OfScore, CommandPalette!filtered
<1>5. /\ OfScoreFacts(a, A, T, x3, 3) /\ OfScoreFacts(b, A, T, x3, 2)
      /\ OfScoreFacts(c, A, T, x3, 1)
  BY <1>2, <1>3, ScoreTaken
<1>6. a \in Seq(T) /\ b \in Seq(T) /\ c \in Seq(T)
  BY <1>5 DEF OfScoreFacts
<1>7. \A i \in DOMAIN a : x3[a[i]] = 3
  BY <1>5 DEF OfScoreFacts
<1>8. \A i \in DOMAIN b : x3[b[i]] = 2
  BY <1>5 DEF OfScoreFacts
<1>20. \A i \in DOMAIN c : x3[c[i]] = 1
  BY <1>5 DEF OfScoreFacts
<1>9. PICK k, l, m : k \in Nat /\ l \in Nat /\ m \in Nat /\ k = Len(a) /\ l = Len(b) /\ m = Len(c)
  BY <1>6, LenProperties
<1>10. PICK q : q = (a \o b) \o c
  OBVIOUS
<1>11. q \in Seq(T) /\ DOMAIN q = 1..(k + l + m)
  BY <1>6, <1>9, <1>10
<1>12. ASSUME NEW i \in DOMAIN q
       PROVE  x3[q[i]] = IF i <= k THEN 3 ELSE IF i <= k + l THEN 2 ELSE 1
  <2>0. i \in Nat /\ i \in 1..(k + l + m)
    BY <1>11
  <2>1. CASE i <= k
    <3>1. i \in DOMAIN a /\ q[i] = a[i]
      BY <1>6, <1>9, <1>10, <2>0, <2>1
    <3> QED BY <1>7, <2>1, <3>1
  <2>2. CASE ~(i <= k) /\ i <= k + l
    <3>1. i - k \in DOMAIN b /\ q[i] = b[i - k]
      BY SMTT(20), <1>6, <1>9, <1>10, <2>0, <2>2
    <3> QED BY <1>8, <2>2, <3>1
  <2>3. CASE ~(i <= k) /\ ~(i <= k + l)
    <3>1. i - (k + l) \in DOMAIN c /\ q[i] = c[i - (k + l)]
      BY <1>6, <1>9, <1>10, <2>0, <2>3
    <3> QED BY <1>20, <2>3, <3>1
  <2> QED BY <2>1, <2>2, <2>3
<1>13. Scored(q, x3)
  <2>1. ASSUME NEW i \in DOMAIN q PROVE x3[q[i]] \in 1..3
    BY <1>12
  <2>2. ASSUME NEW i \in DOMAIN q, NEW j \in DOMAIN q, i < j PROVE x3[q[i]] >= x3[q[j]]
    <3>1. PICK u, v : u = x3[q[i]] /\ v = x3[q[j]]
      OBVIOUS
    <3>2. u = IF i <= k THEN 3 ELSE IF i <= k + l THEN 2 ELSE 1
      BY <1>12, <3>1
    <3>3. v = IF j <= k THEN 3 ELSE IF j <= k + l THEN 2 ELSE 1
      BY <1>12, <3>1
    <3>4. i \in Nat /\ j \in Nat
      BY <1>11
    <3>5. u >= v
      BY <1>9, <2>2, <3>2, <3>3, <3>4
    <3> QED BY <3>1, <3>5
  <2> QED BY <2>1, <2>2 DEF Scored
<1>14. ASSUME x3 = CommandPalette!NoQuery PROVE Leads(q, Machines)
  <2>1. \A t \in T : x3[t] = 3
    BY <1>1, <1>14 DEF CommandPalette!NoQuery
  <2>2. b = <<>>
    <3>1. \A t \in T : x3[t] # 2
      BY <2>1
    <3> QED BY <1>5, <3>1 DEF OfScoreFacts
  <2>3. c = <<>>
    <3>1. \A t \in T : x3[t] # 1
      BY <2>1
    <3> QED BY <1>5, <3>1 DEF OfScoreFacts
  <2>4. q = a
    BY <1>6, <1>10, <2>2, <2>3
  <2>5. Leads(a, Machines)
    BY <1>2, <1>5 DEF OfScoreFacts
  <2> QED BY <2>4, <2>5
<1> QED BY <1>1, <1>4, <1>10, <1>11, <1>13, <1>14

\* A group that no item of the other scores into leads the list
LEMMA GroupLeads ==
    ASSUME PartsConstants, DOMAIN x1 \subseteq Machines, CommandPalette!GroupsApart,
           NEW q, q = CommandPalette!filtered
    PROVE  Leads(q, Machines) \/ Leads(q, Pages)
<1>1. q \in Seq(CommandPalette!Items) /\ Scored(q, x3)
  BY FilteredFacts
<1>2. \A i \in DOMAIN q : q[i] \in Machines \/ q[i] \in Pages
  BY <1>1 DEF CommandPalette!Items
<1>3. CASE x3 = CommandPalette!NoQuery
  BY <1>3, FilteredFacts
<1>4. ASSUME NEW G, NEW H, CommandPalette!Ahead(G, H), \A i \in DOMAIN q : q[i] \in G \/ q[i] \in H
      PROVE  Leads(q, G)
  <2> SUFFICES ASSUME NEW i \in DOMAIN q, NEW j \in DOMAIN q, i < j, q[j] \in G, q[i] \notin G
               PROVE  FALSE
    BY DEF Leads
  <2>1. q[i] \in H
    BY <1>4
  <2>2. PICK u, v : u = x3[q[i]] /\ v = x3[q[j]]
    OBVIOUS
  <2>3. u \in 1..3 /\ v \in 1..3 /\ u >= v
    BY <1>1, <2>2 DEF Scored
  <2>4. v * u > 0 => v >= u + 1
    BY <1>4, <2>1, <2>2 DEF CommandPalette!Ahead
  <2>5. \A m, n \in 1..3 : m * n > 0
    BY \A m, n \in 1..3 : m \in {1, 2, 3} /\ n \in {1, 2, 3}
  <2>6. v >= u + 1
    BY <2>3, <2>4, <2>5
  <2> QED BY <2>3, <2>6
<1>5. CASE CommandPalette!Ahead(Machines, Pages)
  BY <1>2, <1>4, <1>5
<1>6. CASE CommandPalette!Ahead(Pages, Machines)
  BY <1>2, <1>4, <1>6
<1> QED BY <1>3, <1>5, <1>6 DEF CommandPalette!GroupsApart

\* The rows are then the list as it was filtered, which Enter counts through
LEMMA RowsAreFiltered ==
    ASSUME PartsConstants, DOMAIN x1 \subseteq Machines, CommandPalette!GroupsApart,
           NEW q, q = CommandPalette!filtered, q # <<>>
    PROVE  CommandPalette!rows = q
<1>1. PICK T, F : /\ T = CommandPalette!Items
                  /\ F = IF Head(q) \in Machines THEN Machines ELSE Pages
  OBVIOUS
<1>2. q \in Seq(T)
  BY <1>1, FilteredFacts
<1>3. \A i \in DOMAIN q : q[i] \in Machines \/ q[i] \in Pages
  BY <1>1, <1>2 DEF CommandPalette!Items
<1>4. 1 \in DOMAIN q /\ Head(q) = q[1] /\ \A i \in DOMAIN q : i = 1 \/ 1 < i
  BY <1>2, LenProperties
<1>5. Leads(q, F)
  <2>1. ASSUME NEW G, NEW H, G \intersect H = {}, \A i \in DOMAIN q : q[i] \in G \/ q[i] \in H,
               Leads(q, G), q[1] \in H
        PROVE  Leads(q, H)
    <3>1. \A i \in DOMAIN q : q[i] \notin G
      BY <1>4, <2>1 DEF Leads
    <3> QED BY <2>1, <3>1 DEF Leads
  <2>2. Machines \intersect Pages = {}
    BY DEF PartsConstants
  <2>3. Leads(q, Machines) \/ Leads(q, Pages)
    BY GroupLeads
  <2>4. CASE q[1] \in Machines
    <3>1. F = Machines
      BY <1>1, <1>4, <2>4
    <3> QED BY <1>3, <2>1, <2>2, <2>3, <2>4, <3>1
  <2>5. CASE q[1] \notin Machines
    <3>1. F = Pages /\ q[1] \in Pages
      BY <1>1, <1>3, <1>4, <2>5
    <3> QED BY <1>3, <2>1, <2>2, <2>3, <3>1
  <2> QED BY <2>4, <2>5
<1>6. Only(q, F) \o Only(q, T \ F) = q
  <2>1. PICK R : R = T \ F
    OBVIOUS
  <2>2. Apart(T, F, R)
    BY <2>1 DEF Apart
  <2>3. Only(q, F) \o Only(q, R) = q
    BY <1>2, <1>5, <2>2, FrontAndRest
  <2> QED BY <2>1, <2>3
<1>7. CommandPalette!rows = Only(q, F) \o Only(q, T \ F)
  BY <1>1, FilterOfPalette DEF CommandPalette!rows
<1> QED BY <1>6, <1>7

LEMMA RowsListed ==
    ASSUME PartsConstants, DOMAIN x1 \subseteq Machines
    PROVE  DOMAIN CommandPalette!rows \subseteq Nat
<1>1. PICK q, T : q = CommandPalette!filtered /\ T = CommandPalette!Items /\ q \in Seq(T)
  BY FilteredFacts
<1>2. PICK F : F = IF q # <<>> /\ Head(q) \in Machines THEN Machines ELSE Pages
  OBVIOUS
<1>3. Only(q, F) \in Seq(T) /\ Only(q, T \ F) \in Seq(T)
  BY <1>1, Filtered
<1>4. PICK a, b : a = Only(q, F) /\ b = Only(q, T \ F) /\ CommandPalette!rows = a \o b
  BY <1>1, <1>2, FilterOfPalette DEF CommandPalette!rows
<1>5. a \o b \in Seq(T)
  BY <1>3, <1>4
<1> QED BY <1>4, <1>5

LEMMA PaletteInit ==
    ASSUME PartsConstants, CommandPalette!Init PROVE CommandPalette!PaletteInv
<1>1. /\ DOMAIN x1 = {} /\ x3 = CommandPalette!NoQuery /\ x4 = 0
  BY DEF CommandPalette!Init
<1>2. DOMAIN x1 \subseteq Machines /\ x4 \in Int
  BY <1>1
<1>3. PICK q : q = CommandPalette!filtered /\ q \in Seq(CommandPalette!Items)
  BY <1>2, FilteredFacts
<1>4. q # <<>> => 0 < Len(q)
  BY <1>3, LenProperties
<1> QED BY <1>1, <1>2, <1>3, <1>4 DEF CommandPalette!PaletteInv

\* The selection stays a number, and is one of the list's once the effects have run
LEMMA PaletteNext ==
    ASSUME PartsConstants, CommandPalette!PaletteInv, [CommandPalette!Next]_(CommandPalette!vars)
    PROVE  CommandPalette!PaletteInv'
<1>1. /\ DOMAIN x1 \subseteq Machines /\ x4 \in Int
      /\ x3 \in CommandPalette!Queries \union {CommandPalette!NoQuery}
  BY DEF CommandPalette!PaletteInv
<1>2. PICK q, l : q = CommandPalette!filtered /\ l = Len(q) /\ l \in Nat /\ (q # <<>> => l > 0)
  <2>1. CommandPalette!filtered \in Seq(CommandPalette!Items)
    BY <1>1, FilteredFacts
  <2> QED BY <2>1, LenProperties
<1>3. (CommandPalette!Queries \union {CommandPalette!NoQuery})'
          = CommandPalette!Queries \union {CommandPalette!NoQuery}
  BY DEF CommandPalette!Queries, CommandPalette!NoQuery, CommandPalette!Items
<1>4. ASSUME x5' = FALSE, DOMAIN x1' \subseteq Machines, x4' \in Int,
             x3' \in CommandPalette!Queries \union {CommandPalette!NoQuery}
      PROVE  CommandPalette!PaletteInv'
  BY <1>3, <1>4 DEF CommandPalette!PaletteInv
<1>5. CASE CommandPalette!AgentsChange
  BY <1>1, <1>4, <1>5 DEF CommandPalette!AgentsChange, CommandPalette!Rendered
<1>6. CASE CommandPalette!Toggle
  <2>1. x5' = FALSE /\ x1' = x1
    BY <1>6 DEF CommandPalette!Toggle, CommandPalette!Rendered
  <2>2. (x3' = CommandPalette!NoQuery /\ x4' = 0) \/ (x3' = x3 /\ x4' = x4)
    BY Zenon, <1>6 DEF CommandPalette!Toggle
  <2>3. x3' \in CommandPalette!Queries \union {CommandPalette!NoQuery} /\ x4' \in Int
    BY <1>1, <2>2
  <2> QED BY <1>1, <1>4, <2>1, <2>3
<1>7. CASE CommandPalette!Type
  <2>1. x5' = FALSE /\ x1' = x1 /\ x4' = 0
    BY <1>7 DEF CommandPalette!Type, CommandPalette!Rendered
  <2>2. x3' \in CommandPalette!Queries \union {CommandPalette!NoQuery}
    BY <1>7 DEF CommandPalette!Type
  <2>3. x4' \in Int
    BY <2>1
  <2> QED BY <1>1, <1>4, <2>1, <2>2, <2>3
<1>8. CASE CommandPalette!Effects
  <2>1. x1' = x1 /\ x3' = x3 /\ x4' = CommandPalette!Clamped
    BY <1>8 DEF CommandPalette!Effects
  <2>2. CommandPalette!filtered' = q
    BY <1>2, <2>1 DEF CommandPalette!filtered, CommandPalette!AllItems
  <2>3. CommandPalette!Clamped = IF x4 < l THEN x4 ELSE IF q = <<>> THEN 0 ELSE l - 1
    BY <1>2 DEF CommandPalette!Clamped
  <2>4. x4' \in Int /\ (q # <<>> => x4' < l)
    <3>1. PICK i \in Int : i = x4
      BY <1>1
    <3> QED BY <1>2, <2>1, <2>3, <3>1
  <2> QED BY <1>1, <1>2, <1>3, <2>1, <2>2, <2>4 DEF CommandPalette!PaletteInv
<1>9. CASE CommandPalette!Move
  <2>1. x4' \in Int
    <3>1. PICK i \in Int : i = x4
      BY <1>1
    <3>2. CASE CommandPalette!ArrowDown
      BY <1>2, <3>1, <3>2 DEF CommandPalette!ArrowDown, CommandPalette!Least
    <3>3. CASE CommandPalette!ArrowUp
      BY <3>1, <3>3 DEF CommandPalette!ArrowUp
    <3>4. CASE CommandPalette!MouseEnter
      BY <1>1, <3>4, RowsListed DEF CommandPalette!MouseEnter
    <3> QED BY <1>9, <3>2, <3>3, <3>4 DEF CommandPalette!Move
  <2> QED BY <1>1, <1>4, <1>9, <2>1 DEF CommandPalette!Move, CommandPalette!Rendered
<1>10. CASE CommandPalette!Enter
  BY <1>1, <1>4, <1>10 DEF CommandPalette!Enter, CommandPalette!Run, CommandPalette!Rendered
<1>11. CASE CommandPalette!Click
  BY <1>1, <1>4, <1>11 DEF CommandPalette!Click, CommandPalette!Run, CommandPalette!Rendered
<1>12. CASE UNCHANGED CommandPalette!vars
  <2>1. x1' = x1 /\ x3' = x3 /\ x4' = x4 /\ x5' = x5
    BY <1>12 DEF CommandPalette!vars
  <2>2. CommandPalette!filtered' = CommandPalette!filtered
    BY <2>1 DEF CommandPalette!filtered, CommandPalette!AllItems
  <2> QED BY <1>3, <2>1, <2>2 DEF CommandPalette!PaletteInv
<1> QED BY <1>5, <1>6, <1>7, <1>8, <1>9, <1>10, <1>11, <1>12 DEF CommandPalette!Next

LEMMA PaletteSafe ==
    ASSUME PartsConstants, CommandPalette!PaletteInv PROVE CommandPalette!EnterRunsHighlighted
<1> SUFFICES ASSUME x2, x5, CommandPalette!GroupsApart, CommandPalette!filtered # <<>>, x4 >= 0
             PROVE  x4 < Len(CommandPalette!filtered)
                    /\ CommandPalette!Highlighted = CommandPalette!filtered[x4 + 1]
  BY DEF CommandPalette!EnterRunsHighlighted
<1>1. DOMAIN x1 \subseteq Machines /\ x4 \in Int
  BY DEF CommandPalette!PaletteInv
<1>2. PICK q : q = CommandPalette!filtered /\ q \in Seq(CommandPalette!Items)
  BY <1>1, FilteredFacts
<1>3. x4 < Len(q)
  BY <1>2 DEF CommandPalette!PaletteInv
<1>4. CommandPalette!rows = q
  BY <1>1, <1>2, RowsAreFiltered
<1>5. x4 + 1 \in DOMAIN q
  <2>1. PICK i, l : i = x4 /\ i \in Int /\ i >= 0 /\ l = Len(q) /\ l \in Nat /\ i < l
    BY <1>1, <1>2, <1>3, LenProperties
  <2>2. i + 1 \in 1..l
    BY <2>1
  <2> QED BY <1>2, <2>1, <2>2, LenProperties
<1>6. CommandPalette!Highlighted = q[x4 + 1]
  BY <1>4, <1>5 DEF CommandPalette!Highlighted
<1> QED BY <1>2, <1>3, <1>6

-----------------------------------------------------------------------------
(***************************************************************************)
(* PingLoop: ticks, pendingPing, toAgent, toRelay, latencyMs, zeros,       *)
(* connected, toBrowser, lists, listed, shown and behind are x1 to x12     *)
(***************************************************************************)

ListOf(L) == [answered : BOOLEAN, latencyMs : L, old : BOOLEAN]

LEMMA PingInit == PingLoop!Init => PingLoop!PingInv
<1> SUFFICES ASSUME PingLoop!Init PROVE PingLoop!PingInv
  OBVIOUS
<1> USE DEF PingLoop!Null
<1>1. /\ x1 = 0 /\ x2 = 0 /\ x3 = {} /\ x4 = {} /\ x5 = 0 /\ x6 = {} /\ x8 = <<>>
      /\ x11 = 0 /\ MaxTicks \in Nat
  BY PartsConstants DEF PingLoop!Init
<1>2. x9 \in [PingLoop!Calls -> PingLoop!List] /\ {x7, x10, x12} \subseteq BOOLEAN
  <2>1. PICK l : l = PingLoop!NoList
    OBVIOUS
  <2>2. 0 \in PingLoop!Latency
    BY <1>1 DEF PingLoop!Latency
  <2>3. l \in PingLoop!List
    BY <2>1, <2>2 DEF PingLoop!NoList, PingLoop!List
  <2> QED BY <2>1, <2>3 DEF PingLoop!Init
<1>3. {x2, x5, x11} \subseteq PingLoop!Latency /\ x3 \union x4 \union x6 \subseteq PingLoop!Pings
  BY <1>1 DEF PingLoop!Latency
<1>4. x1 \in 0..MaxTicks /\ x8 \in Seq(PingLoop!Latency)
  BY <1>1
<1>5. PingLoop!Told
  BY <1>1 DEF PingLoop!Init, PingLoop!Told, PingLoop!NoList
<1> QED BY <1>1, <1>2, <1>3, <1>4, <1>5 DEF PingLoop!PingInv, PingLoop!TypeOK, PingLoop!Recent

\* The lists that there are turn old
LEMMA AgedTypes ==
    ASSUME NEW L, NEW M, L \subseteq M, x9 \in [PingLoop!Calls -> ListOf(L)],
           x9' = x9 \/ PingLoop!Aged
    PROVE  x9' \in [PingLoop!Calls -> ListOf(M)]
<1>1. CASE x9' = x9
  BY <1>1 DEF ListOf
<1>2. CASE PingLoop!Aged
  <2>1. \A c \in PingLoop!Calls : [x9[c] EXCEPT !.old = x9[c].answered] \in ListOf(M)
    BY DEF ListOf
  <2> QED BY <1>2, <2>1 DEF PingLoop!Aged
<1> QED BY <1>1, <1>2

\* What a latency that is told changes
LEMMA TellTypes ==
    ASSUME NEW L, NEW M, L \subseteq M, x9 \in [PingLoop!Calls -> ListOf(L)], x8 \in Seq(L),
           NEW l \in M, PingLoop!Tell(l)
    PROVE  /\ x9' \in [PingLoop!Calls -> ListOf(M)]
           /\ x8' \in Seq(M) /\ x12' \in BOOLEAN
           /\ IF x7 THEN x12' = FALSE /\ Len(x8') \in Nat /\ x8' # <<>> /\ x8'[Len(x8')] = l
                    ELSE x12' = TRUE /\ x8' = x8
           /\ \A c \in PingLoop!Calls : x9'[c].old = x9[c].answered
                                        /\ x9'[c].answered = x9[c].answered
<1>1. PingLoop!Aged
  BY DEF PingLoop!Tell
<1>2. x8 \in Seq(M)
  BY SeqOfMore
<1>3. x9' \in [PingLoop!Calls -> ListOf(M)]
  BY <1>1, AgedTypes
<1>4. \A c \in PingLoop!Calls : x9'[c].old = x9[c].answered /\ x9'[c].answered = x9[c].answered
  BY <1>1 DEF PingLoop!Aged, ListOf
<1>5. x12' = ~x7 /\ x8' = IF x7 THEN Append(x8, l) ELSE x8
  BY DEF PingLoop!Tell
<1>6. ASSUME x7 PROVE Len(x8') \in Nat /\ x8' # <<>> /\ x8'[Len(x8')] = l /\ x8' \in Seq(M)
  <2>1. x8' = Append(x8, l)
    BY <1>5, <1>6
  <2> QED BY <1>2, <2>1, AppendProperties
<1> QED BY <1>2, <1>3, <1>4, <1>5, <1>6

\* The types with the variables written out
LEMMA PingTyped ==
    ASSUME PingLoop!TypeOK
    PROVE  /\ x1 \in 0..MaxTicks /\ x1 \in Nat
           /\ x2 \in 0..x1 /\ x5 \in 0..x1 /\ x11 \in 0..x1
           /\ x3 \subseteq 1..x1 /\ x4 \subseteq 1..x1 /\ x6 \subseteq 1..x1
           /\ x8 \in Seq(0..x1) /\ x9 \in [PingLoop!Calls -> ListOf(0..x1)]
           /\ x7 \in BOOLEAN /\ x10 \in BOOLEAN /\ x12 \in BOOLEAN
<1>1. MaxTicks \in Nat
  BY PartsConstants
<1>2. x9 \in [PingLoop!Calls -> ListOf(0..x1)] /\ x8 \in Seq(0..x1)
  BY DEF PingLoop!TypeOK, PingLoop!List, PingLoop!Latency, ListOf
<1>3. x3 \union x4 \union x6 \subseteq 1..x1 /\ x1 \in 0..MaxTicks
  BY DEF PingLoop!TypeOK, PingLoop!Pings
<1>4. {x2, x5, x11} \subseteq 0..x1 /\ {x7, x10, x12} \subseteq BOOLEAN
  BY DEF PingLoop!TypeOK, PingLoop!Latency
<1> QED BY <1>1, <1>2, <1>3, <1>4

LEMMA PingTypedNext ==
    ASSUME x1' \in 0..MaxTicks, x2' \in 0..x1', x5' \in 0..x1', x11' \in 0..x1',
           x3' \subseteq 1..x1', x4' \subseteq 1..x1', x6' \subseteq 1..x1',
           x8' \in Seq(0..x1'), x9' \in [PingLoop!Calls -> ListOf(0..x1')],
           x7' \in BOOLEAN, x10' \in BOOLEAN, x12' \in BOOLEAN
    PROVE  PingLoop!TypeOK'
<1>1. x9' \in [PingLoop!Calls -> PingLoop!List'] /\ x8' \in Seq(PingLoop!Latency')
  BY DEF PingLoop!List, PingLoop!Latency, ListOf
<1>2. {x2', x5', x11'} \subseteq PingLoop!Latency'
  BY DEF PingLoop!Latency
<1>3. x3' \union x4' \union x6' \subseteq PingLoop!Pings'
  BY DEF PingLoop!Pings
<1> QED BY <1>1, <1>2, <1>3 DEF PingLoop!TypeOK

\* What the last conjunct of the invariant asks of a step
LEMMA ToldNext ==
    ASSUME ~x7' => x8' = <<>>,
           ~x12' => IF x8' = <<>> THEN x11' = x5' \/ x11' = (IF x5' \in x6' THEN 0 ELSE x5')
                    ELSE x8'[Len(x8')] = x5',
           x12' /\ x5' # 0 => x8' = <<>>,
           \A c \in PingLoop!Calls : ~x9'[c].old /\ x9'[c].answered => x9'[c].latencyMs = x5'
    PROVE  PingLoop!Told'
<1>1. PingLoop!Null' = 0
  BY DEF PingLoop!Null
<1>2. PingLoop!Seen(x5)' = IF x5' \in x6' THEN 0 ELSE x5'
  BY <1>1 DEF PingLoop!Seen
<1>3. ~x12' => IF x8' = <<>> THEN x11' \in {x5', PingLoop!Seen(x5)'} ELSE x8'[Len(x8')] = x5'
  BY <1>2
<1> QED BY Zenon, <1>1, <1>3 DEF PingLoop!Told

LEMMA TickStep ==
    ASSUME PingLoop!PingInv, PingLoop!Tick
    PROVE  PingLoop!PingInv'
<1> USE DEF PingLoop!Null
<1>0. PingLoop!TypeOK /\ PingLoop!Recent /\ PingLoop!Told
  BY DEF PingLoop!PingInv
<1>1. PICK t : t = x1
  OBVIOUS
<1>2. /\ x1' = t + 1 /\ t < MaxTicks /\ t \in Nat /\ MaxTicks \in Nat
      /\ UNCHANGED <<x4, x6, x7, x10, x11>>
  BY <1>0, <1>1, PingTyped, PartsConstants DEF PingLoop!Tick
<1>3. PICK L, M : L = 0..t /\ M = 0..(t + 1)
  OBVIOUS
<1>4. L \subseteq M /\ 1..t \subseteq 1..(t + 1) /\ 0 \in M /\ t + 1 \in M /\ t + 1 \in 1..(t + 1)
      /\ x1' \in 0..MaxTicks
  BY <1>2, <1>3
<1>5. /\ x2 \in L /\ x5 \in L /\ x11 \in L
      /\ x3 \subseteq 1..t /\ x4 \subseteq 1..t /\ x6 \subseteq 1..t
      /\ x8 \in Seq(L) /\ x9 \in [PingLoop!Calls -> ListOf(L)]
      /\ x7 \in BOOLEAN /\ x10 \in BOOLEAN /\ x12 \in BOOLEAN
  BY <1>0, <1>1, <1>3, PingTyped
<1>6. /\ x4' \subseteq 1..x1' /\ x6' \subseteq 1..x1' /\ x11' \in 0..x1'
      /\ x7' \in BOOLEAN /\ x10' \in BOOLEAN /\ 0..x1' = M
  BY <1>2, <1>3, <1>4, <1>5
<1>7. x8 \in Seq(M)
  BY <1>4, <1>5, SeqOfMore
<1>8. CASE x2 # 0 /\ x5 # 0
  <2>1. x5' = 0 /\ x2' = 0 /\ PingLoop!Tell(0) /\ x3' = x3
    BY <1>8 DEF PingLoop!Tick, PingLoop!TimedOut, PingLoop!GiveUp
  <2>2. x9' \in [PingLoop!Calls -> ListOf(M)] /\ x8' \in Seq(M) /\ x12' \in BOOLEAN
    BY <1>4, <1>5, <2>1, TellTypes
  <2>3. /\ IF x7 THEN x12' = FALSE /\ x8' # <<>> /\ x8'[Len(x8')] = 0
                 ELSE x12' = TRUE /\ x8' = x8
        /\ \A c \in PingLoop!Calls : x9'[c].old = x9[c].answered
                                     /\ x9'[c].answered = x9[c].answered
    BY <1>4, <1>5, <2>1, TellTypes
  <2>4. PingLoop!TypeOK'
    BY <1>2, <1>3, <1>4, <1>5, <1>6, <2>1, <2>2, PingTypedNext
  <2>5. PingLoop!Recent'
    BY <2>1 DEF PingLoop!Recent
  <2>6. PingLoop!Told'
    BY <1>0, <1>2, <2>1, <2>3 DEF PingLoop!Told
  <2> QED BY <2>4, <2>5, <2>6 DEF PingLoop!PingInv
<1>9. CASE x2 # 0 /\ x5 = 0
  <2>1. x5' = 0 /\ x2' = 0 /\ UNCHANGED <<x3, x8, x9, x12>>
    BY <1>9 DEF PingLoop!Tick, PingLoop!TimedOut, PingLoop!GiveUp
  <2>2. x9' \in [PingLoop!Calls -> ListOf(M)]
    BY <1>4, <1>5, <2>1, AgedTypes
  <2>3. PingLoop!TypeOK'
    BY <1>2, <1>3, <1>4, <1>5, <1>6, <1>7, <2>1, <2>2, PingTypedNext
  <2>4. PingLoop!Recent'
    BY <2>1 DEF PingLoop!Recent
  <2>5. PingLoop!Told'
    BY <1>0, <1>2, <1>9, <2>1 DEF PingLoop!Told, PingLoop!Seen
  <2> QED BY <2>3, <2>4, <2>5 DEF PingLoop!PingInv
<1>10. CASE x2 = 0
  <2>1. x2' = t + 1 /\ x3' = x3 \union {t + 1} /\ UNCHANGED <<x5, x8, x9, x12>>
    BY <1>2, <1>10 DEF PingLoop!Tick, PingLoop!TimedOut, PingLoop!SendPing
  <2>2. x9' \in [PingLoop!Calls -> ListOf(M)]
    BY <1>4, <1>5, <2>1, AgedTypes
  <2>3. x5' \in M /\ x2' \in M /\ x3' \subseteq 1..x1'
    BY <1>2, <1>4, <1>5, <2>1
  <2>4. PingLoop!TypeOK'
    BY <1>2, <1>4, <1>5, <1>6, <1>7, <2>1, <2>2, <2>3, PingTypedNext
  <2>5. PingLoop!Recent'
    BY <1>0, <1>1, <1>2, <1>10, <2>1 DEF PingLoop!Recent
  <2>6. PingLoop!Told'
    BY <1>0, <1>2, <2>1 DEF PingLoop!Told, PingLoop!Seen
  <2> QED BY <2>4, <2>5, <2>6 DEF PingLoop!PingInv
<1> QED BY <1>8, <1>9, <1>10

LEMMA PongStep ==
    ASSUME PingLoop!PingInv, NEW id \in x4, PingLoop!Pong(id)
    PROVE  PingLoop!PingInv'
<1> USE DEF PingLoop!Null
<1>0. PingLoop!TypeOK /\ PingLoop!Recent /\ PingLoop!Told
  BY DEF PingLoop!PingInv
<1>1. PICK L : L = 0..x1
  OBVIOUS
<1>2. /\ x1' = x1 /\ L \subseteq L /\ x1 \in Nat /\ x1 \in 0..MaxTicks
      /\ x2 \in L /\ x5 \in L /\ x11 \in L /\ 0 \in L
      /\ x3 \subseteq 1..x1 /\ x4 \subseteq 1..x1 /\ x6 \subseteq 1..x1
      /\ x8 \in Seq(L) /\ x9 \in [PingLoop!Calls -> ListOf(L)]
      /\ x7 \in BOOLEAN /\ x10 \in BOOLEAN /\ x12 \in BOOLEAN
      /\ UNCHANGED <<x3, x7, x10, x11>> /\ x4' \subseteq 1..x1
  BY <1>0, <1>1, PingTyped DEF PingLoop!Pong
<1>3. id \in L /\ id # 0 /\ id \in 1..x1
  BY <1>1, <1>2
<1>4. CASE id = x2
  <2>1. x5' = id /\ x6' \subseteq 1..x1 /\ x2' = 0 /\ PingLoop!Tell(id)
    BY <1>2, <1>3, <1>4 DEF PingLoop!Pong, PingLoop!Awaited
  <2>2. x9' \in [PingLoop!Calls -> ListOf(L)] /\ x8' \in Seq(L) /\ x12' \in BOOLEAN
    BY <1>2, <1>3, <2>1, TellTypes
  <2>3. /\ IF x7 THEN x12' = FALSE /\ x8' # <<>> /\ x8'[Len(x8')] = id
                 ELSE x12' = TRUE /\ x8' = x8
        /\ \A c \in PingLoop!Calls : x9'[c].old = x9[c].answered
                                     /\ x9'[c].answered = x9[c].answered
    BY <1>2, <1>3, <2>1, TellTypes
  <2>4. PingLoop!TypeOK'
    BY <1>1, <1>2, <1>3, <2>1, <2>2, PingTypedNext
  <2>5. PingLoop!Recent'
    BY <1>0, <1>2, <1>3, <1>4, <2>1 DEF PingLoop!Recent
  <2>6. PingLoop!Told'
    BY <1>0, <1>2, <2>1, <2>3 DEF PingLoop!Told
  <2> QED BY <2>4, <2>5, <2>6 DEF PingLoop!PingInv
<1>5. CASE id # x2
  <2>1. UNCHANGED <<x2, x5, x6, x8, x9, x12>>
    BY <1>5 DEF PingLoop!Pong, PingLoop!Awaited
  <2>2. PingLoop!TypeOK'
    BY <1>1, <1>2, <2>1, PingTypedNext
  <2>3. PingLoop!Recent' /\ PingLoop!Told'
    BY <1>0, <1>2, <2>1 DEF PingLoop!Recent, PingLoop!Told, PingLoop!Seen
  <2> QED BY <2>2, <2>3 DEF PingLoop!PingInv
<1> QED BY <1>4, <1>5

LEMMA NewConnectionStep ==
    ASSUME PingLoop!PingInv, PingLoop!NewConnection
    PROVE  PingLoop!PingInv'
<1> USE DEF PingLoop!Null
<1>0. PingLoop!TypeOK /\ PingLoop!Recent /\ PingLoop!Told
  BY DEF PingLoop!PingInv
<1>1. PICK L : L = 0..x1
  OBVIOUS
<1>2. /\ L \subseteq L /\ x1 \in Nat /\ x1 \in 0..MaxTicks
      /\ x11 \in L /\ 0 \in L
      /\ x4 \subseteq 1..x1 /\ x6 \subseteq 1..x1
      /\ x8 \in Seq(L) /\ x9 \in [PingLoop!Calls -> ListOf(L)]
      /\ x7 \in BOOLEAN /\ x10 \in BOOLEAN /\ x12 \in BOOLEAN
      /\ UNCHANGED <<x1, x4, x6, x7, x8, x10, x11>> /\ x2' = 0 /\ x3' = {} /\ x5' = 0
      /\ IF x5 # 0 THEN x12' = TRUE /\ PingLoop!Aged ELSE UNCHANGED <<x9, x12>>
  BY <1>0, <1>1, PingTyped DEF PingLoop!NewConnection
<1>3. x9' \in [PingLoop!Calls -> ListOf(L)]
  BY <1>2, AgedTypes
<1>4. PingLoop!TypeOK'
  BY <1>1, <1>2, <1>3, PingTypedNext
<1>5. PingLoop!Recent'
  BY <1>2 DEF PingLoop!Recent
<1>6. CASE x5 = 0
  <2>1. /\ ~x7 => x8 = <<>>
        /\ ~x12 => IF x8 = <<>> THEN x11 = 0 ELSE x8[Len(x8)] = 0
        /\ \A c \in PingLoop!Calls : ~x9[c].old /\ x9[c].answered => x9[c].latencyMs = 0
    BY <1>0, <1>6 DEF PingLoop!Told, PingLoop!Seen
  <2>2. UNCHANGED <<x7, x8, x9, x11, x12>> /\ x5' = 0
    BY <1>2, <1>6
  <2>3. /\ ~x12' => IF x8' = <<>> THEN x11' = x5' \/ x11' = (IF x5' \in x6' THEN 0 ELSE x5')
                    ELSE x8'[Len(x8')] = x5'
        /\ x12' /\ x5' # 0 => x8' = <<>>
        /\ ~x7' => x8' = <<>>
    BY <2>1, <2>2
  <2>4. \A c \in PingLoop!Calls : ~x9'[c].old /\ x9'[c].answered => x9'[c].latencyMs = x5'
    BY <2>1, <2>2
  <2>5. PingLoop!Told'
    BY <2>3, <2>4, ToldNext
  <2> QED BY <1>4, <1>5, <2>5 DEF PingLoop!PingInv
<1>7. CASE x5 # 0
  <2>1. \A c \in PingLoop!Calls : x9'[c].old = x9[c].answered /\ x9'[c].answered = x9[c].answered
    BY <1>2, <1>7 DEF PingLoop!Aged, ListOf
  <2>2. ~x7' => x8' = <<>>
    BY <1>0, <1>2 DEF PingLoop!Told
  <2>3. /\ ~x12' => IF x8' = <<>> THEN x11' = x5' \/ x11' = (IF x5' \in x6' THEN 0 ELSE x5')
                    ELSE x8'[Len(x8')] = x5'
        /\ x12' /\ x5' # 0 => x8' = <<>>
    BY <1>2, <1>7
  <2>4. \A c \in PingLoop!Calls : ~x9'[c].old /\ x9'[c].answered => x9'[c].latencyMs = x5'
    BY <2>1
  <2>5. PingLoop!Told'
    BY <2>2, <2>3, <2>4, ToldNext
  <2> QED BY <1>4, <1>5, <2>5 DEF PingLoop!PingInv
<1> QED BY <1>6, <1>7

LEMMA OnLatencyStep ==
    ASSUME PingLoop!PingInv, PingLoop!OnLatency
    PROVE  PingLoop!PingInv'
<1> USE DEF PingLoop!Null
<1>0. PingLoop!TypeOK /\ PingLoop!Recent /\ PingLoop!Told
  BY DEF PingLoop!PingInv
<1>1. PICK L : L = 0..x1
  OBVIOUS
<1>2. /\ x1 \in Nat /\ x1 \in 0..MaxTicks
      /\ x2 \in L /\ x5 \in L /\ x11 \in L /\ 0 \in L
      /\ x3 \subseteq 1..x1 /\ x4 \subseteq 1..x1 /\ x6 \subseteq 1..x1
      /\ x8 \in Seq(L) /\ x9 \in [PingLoop!Calls -> ListOf(L)]
      /\ x7 \in BOOLEAN /\ x10 \in BOOLEAN /\ x12 \in BOOLEAN
  BY <1>0, <1>1, PingTyped
<1>3. PICK m, n : m = Head(x8) /\ n = Len(x8)
  OBVIOUS
<1>4. /\ UNCHANGED <<x1, x2, x3, x4, x5, x6, x7, x9, x10>>
      /\ x8 # <<>> /\ x8' = Tail(x8)
      /\ x11' = (IF x10 THEN PingLoop!Seen(m) ELSE x11)
      /\ x12' = (x12 \/ (~x10 /\ x8' = <<>>))
  BY <1>3 DEF PingLoop!OnLatency, PingLoop!agentVars
<1>5. /\ n \in Nat /\ n # 0 /\ m = x8[1] /\ m \in L
      /\ x8' \in Seq(L) /\ Len(x8') = n - 1 /\ (x8' = <<>> <=> n = 1)
      /\ n # 1 => x8'[n - 1] = x8[n]
  BY <1>2, <1>3, <1>4
<1>6. x11' \in L /\ x12' \in BOOLEAN
  BY <1>2, <1>4, <1>5 DEF PingLoop!Seen
<1>7. PingLoop!TypeOK'
  BY <1>1, <1>2, <1>4, <1>5, <1>6, PingTypedNext
<1>8. PingLoop!Recent'
  BY <1>0, <1>4 DEF PingLoop!Recent
<1>9. /\ ~x7' => x8' = <<>>
      /\ x12' /\ x5' # 0 => x8' = <<>>
      /\ \A c \in PingLoop!Calls : ~x9'[c].old /\ x9'[c].answered => x9'[c].latencyMs = x5'
  BY <1>0, <1>4, <1>2 DEF PingLoop!Told
<1>10. ASSUME ~x12'
       PROVE  IF x8' = <<>> THEN x11' = x5' \/ x11' = (IF x5' \in x6' THEN 0 ELSE x5')
              ELSE x8'[Len(x8')] = x5'
  <2>1. ~x12 /\ x8[n] = x5 /\ (x8' = <<>> => x10)
    BY <1>0, <1>2, <1>3, <1>4, <1>10 DEF PingLoop!Told
  <2>2. CASE x8' = <<>>
    <3>1. x11' = PingLoop!Seen(x5)
      BY <1>4, <1>5, <2>1, <2>2
    <3> QED BY <1>4, <2>2, <3>1 DEF PingLoop!Seen
  <2>3. CASE x8' # <<>>
    BY <1>4, <1>5, <2>1, <2>3
  <2> QED BY <2>2, <2>3
<1>11. PingLoop!Told'
  BY <1>9, <1>10, ToldNext
<1> QED BY <1>7, <1>8, <1>11 DEF PingLoop!PingInv

LEMMA ListStep ==
    ASSUME PingLoop!PingInv, NEW c \in PingLoop!Calls,
           PingLoop!AnswerList(c) \/ PingLoop!FetchAgents(c) \/ PingLoop!FetchFails(c)
    PROVE  PingLoop!PingInv'
<1> USE DEF PingLoop!Null
<1>0. PingLoop!TypeOK /\ PingLoop!Recent /\ PingLoop!Told
  BY DEF PingLoop!PingInv
<1>1. PICK L : L = 0..x1
  OBVIOUS
<1>2. /\ x1 \in Nat /\ x1 \in 0..MaxTicks
      /\ x2 \in L /\ x5 \in L /\ x11 \in L /\ 0 \in L
      /\ x3 \subseteq 1..x1 /\ x4 \subseteq 1..x1 /\ x6 \subseteq 1..x1
      /\ x8 \in Seq(L) /\ x9 \in [PingLoop!Calls -> ListOf(L)]
      /\ x7 \in BOOLEAN /\ x10 \in BOOLEAN /\ x12 \in BOOLEAN
  BY <1>0, <1>1, PingTyped
<1>3. UNCHANGED <<x1, x2, x3, x4, x5, x6, x7, x8>>
  BY DEF PingLoop!AnswerList, PingLoop!FetchAgents, PingLoop!FetchFails, PingLoop!agentVars
<1>4. PICK l \in ListOf(L) :
        /\ x9' = [x9 EXCEPT ![c] = l]
        /\ ~l.old /\ l.answered => l.latencyMs = x5
  <2>1. CASE PingLoop!AnswerList(c)
    <3>1. PICK l : l = [answered |-> TRUE, latencyMs |-> x5, old |-> FALSE]
      OBVIOUS
    <3>2. l \in ListOf(L) /\ l.latencyMs = x5
      BY <1>2, <3>1 DEF ListOf
    <3> QED BY <2>1, <3>1, <3>2 DEF PingLoop!AnswerList
  <2>2. CASE PingLoop!FetchAgents(c) \/ PingLoop!FetchFails(c)
    <3>1. PICK l : l = [answered |-> FALSE, latencyMs |-> 0, old |-> FALSE]
      OBVIOUS
    <3>2. l \in ListOf(L) /\ ~l.answered
      BY <1>2, <3>1 DEF ListOf
    <3> QED BY <2>2, <3>1, <3>2 DEF PingLoop!FetchAgents, PingLoop!FetchFails, PingLoop!NoList
  <2> QED BY <2>1, <2>2
<1>5. x9' \in [PingLoop!Calls -> ListOf(L)]
  BY <1>2, <1>4
<1>6. /\ ~x7' => x8' = <<>>
      /\ \A d \in PingLoop!Calls : ~x9'[d].old /\ x9'[d].answered => x9'[d].latencyMs = x5'
  BY <1>0, <1>2, <1>3, <1>4 DEF PingLoop!Told
<1>7. PingLoop!Recent' /\ PingLoop!Seen(x5)' = PingLoop!Seen(x5)
  BY <1>0, <1>3 DEF PingLoop!Recent, PingLoop!Seen
<1>8. /\ x11' \in L /\ x10' \in BOOLEAN /\ x12' \in BOOLEAN
      /\ ~x12' => IF x8 = <<>> THEN x11' \in {x5, PingLoop!Seen(x5)} ELSE x8[Len(x8)] = x5
      /\ x12' /\ x5 # 0 => x8 = <<>>
  <2>0. /\ ~x12 => IF x8 = <<>> THEN x11 \in {x5, PingLoop!Seen(x5)} ELSE x8[Len(x8)] = x5
        /\ x12 /\ x5 # 0 => x8 = <<>>
        /\ ~x9[c].old /\ x9[c].answered => x9[c].latencyMs = x5
    BY <1>0 DEF PingLoop!Told
  <2>1. CASE PingLoop!AnswerList(c) \/ PingLoop!FetchFails(c)
    BY <1>2, <2>0, <2>1 DEF PingLoop!AnswerList, PingLoop!FetchFails
  <2>2. CASE PingLoop!FetchAgents(c)
    <3>1. PICK m, old : m = x9[c].latencyMs /\ old = x9[c].old /\ m \in L /\ old \in BOOLEAN
      BY <1>2 DEF ListOf
    <3>2. /\ x11' = (IF m # 0 THEN m ELSE x11) /\ x10' = TRUE /\ (~old => m = x5)
          /\ m = 0 => x12' = x12
          /\ m # 0 /\ old => x12' = (x12 \/ x8 = <<>>)
          /\ m # 0 /\ ~old => x12' = FALSE
      BY <2>0, <2>2, <3>1 DEF PingLoop!FetchAgents, PingLoop!Shown
    <3>3. CASE m = 0
      BY <1>2, <2>0, <3>2, <3>3
    <3>4. CASE m # 0
      BY <1>2, <2>0, <3>1, <3>2, <3>4
    <3> QED BY <3>3, <3>4
  <2> QED BY <2>1, <2>2
<1>9. PingLoop!Told'
  BY <1>3, <1>6, <1>7, <1>8 DEF PingLoop!Told, PingLoop!Seen
<1>10. PingLoop!TypeOK'
  BY <1>1, <1>2, <1>3, <1>5, <1>8, PingTypedNext
<1> QED BY <1>7, <1>9, <1>10 DEF PingLoop!PingInv

LEMMA PingNext ==
    ASSUME PingLoop!PingInv, [PingLoop!Next]_(PingLoop!vars)
    PROVE  PingLoop!PingInv'
<1>0. PingLoop!TypeOK /\ PingLoop!Recent /\ PingLoop!Told
  BY DEF PingLoop!PingInv
<1>1. PICK L : L = 0..x1
  OBVIOUS
<1>2. /\ x1 \in Nat /\ x1 \in 0..MaxTicks
      /\ x2 \in L /\ x5 \in L /\ x11 \in L /\ 0 \in L
      /\ x3 \subseteq 1..x1 /\ x4 \subseteq 1..x1 /\ x6 \subseteq 1..x1
      /\ x8 \in Seq(L) /\ x9 \in [PingLoop!Calls -> ListOf(L)]
      /\ x7 \in BOOLEAN /\ x10 \in BOOLEAN /\ x12 \in BOOLEAN
  BY <1>0, <1>1, PingTyped
<1>3. CASE PingLoop!AgentPongs
  <2>1. /\ UNCHANGED <<x1, x2, x5, x6, x7, x8, x9, x10, x11, x12>>
        /\ x3' \subseteq 1..x1 /\ x4' \subseteq 1..x1
    BY <1>2, <1>3 DEF PingLoop!AgentPongs
  <2>2. PingLoop!TypeOK'
    BY <1>1, <1>2, <2>1, PingTypedNext
  <2>3. PingLoop!Recent' /\ PingLoop!Told'
    BY <1>0, <2>1 DEF PingLoop!Recent, PingLoop!Told, PingLoop!Seen
  <2> QED BY <2>2, <2>3 DEF PingLoop!PingInv
<1>4. CASE PingLoop!BrowserConnection
  <2>1. /\ UNCHANGED <<x1, x2, x3, x4, x5, x6, x9, x10, x11>> /\ x7' = ~x7
        /\ x8' = <<>> /\ x12' = (x12 \/ x8 # <<>>)
    BY <1>4 DEF PingLoop!BrowserConnection, PingLoop!agentVars
  <2>2. x8' \in Seq(L) /\ x7' \in BOOLEAN /\ x12' \in BOOLEAN
    BY <1>2, <2>1
  <2>3. PingLoop!TypeOK'
    BY <1>1, <1>2, <2>1, <2>2, PingTypedNext
  <2>4. PingLoop!Recent' /\ PingLoop!Told'
    BY <1>0, <1>2, <2>1 DEF PingLoop!Recent, PingLoop!Told, PingLoop!Seen
  <2> QED BY <2>3, <2>4 DEF PingLoop!PingInv
<1>5. CASE UNCHANGED PingLoop!vars
  <2>1. UNCHANGED <<x1, x2, x3, x4, x5, x6, x7, x8, x9, x10, x11, x12>>
    BY <1>5 DEF PingLoop!vars
  <2>2. PingLoop!TypeOK'
    BY <1>1, <1>2, <2>1, PingTypedNext
  <2>3. PingLoop!Recent' /\ PingLoop!Told'
    BY <1>0, <2>1 DEF PingLoop!Recent, PingLoop!Told, PingLoop!Seen
  <2> QED BY <2>2, <2>3 DEF PingLoop!PingInv
<1> QED BY <1>3, <1>4, <1>5, TickStep, PongStep, NewConnectionStep, OnLatencyStep, ListStep
     DEF PingLoop!Next

LEMMA PingSafe == PingLoop!PingInv => PingLoop!LatencyIsFresh
<1> SUFFICES ASSUME PingLoop!PingInv PROVE PingLoop!LatencyIsFresh
  OBVIOUS
<1>1. x1 \in Nat /\ x12 \in BOOLEAN
  BY PingTyped DEF PingLoop!PingInv
<1>2. x5 # PingLoop!Null => x1 - x5 <= 1
  BY <1>1 DEF PingLoop!PingInv, PingLoop!Recent
<1>3. x8 = <<>> /\ ~x12 => x11 \in {x5, PingLoop!Seen(x5)}
  BY DEF PingLoop!PingInv, PingLoop!Told
<1> QED BY <1>2, <1>3 DEF PingLoop!LatencyIsFresh

-----------------------------------------------------------------------------
(***************************************************************************)
(* SocketHook: sockets, first, wsRef, mounted, timers, timerRef, pings and *)
(* connected are x1 to x8                                                  *)
(***************************************************************************)

LEMMA HookInit == SocketHook!Init => SocketHook!HookInv
<1> SUFFICES ASSUME SocketHook!Init PROVE SocketHook!HookInv
  OBVIOUS
<1>1. <<>> = [s \in 1..0 |-> <<>>[s]]
  OBVIOUS
<1>2. x3 = 0 /\ x1 = <<>>
  BY DEF SocketHook!Init
<1>3. x1 = [s \in 1..x3 |-> x1[s]]
  BY <1>1, <1>2
<1>4. x4 \in BOOLEAN /\ x8 \in BOOLEAN
  BY DEF SocketHook!Init
<1>5. SocketHook!Shapes
  BY <1>2, <1>3, <1>4 DEF SocketHook!Init, SocketHook!Shapes
<1>6. SocketHook!Older /\ SocketHook!Current
  BY DEF SocketHook!Init, SocketHook!Older, SocketHook!Current
<1> QED BY <1>5, <1>6 DEF SocketHook!HookInv

\* A socket is made when none is alive
LEMMA ConnectStep ==
    ASSUME SocketHook!Shapes, SocketHook!Connect, \A s \in 1..x3 : ~SocketHook!IsAlive(s)
    PROVE  /\ x3' \in Nat /\ x3' = x3 + 1
           /\ x1' = [s \in 1..x3' |-> x1'[s]]
           /\ x1'[x3'] = "CONNECTING"
           /\ \A s \in 1..x3 : x1'[s] = x1[s] /\ ~SocketHook!IsAlive(s)'
BY DEF SocketHook!Shapes, SocketHook!Connect, SocketHook!IsAlive

LEMMA HookNext == SocketHook!HookInv /\ [SocketHook!Next]_(SocketHook!vars) => SocketHook!HookInv'
<1> SUFFICES ASSUME SocketHook!HookInv, [SocketHook!Next]_(SocketHook!vars) PROVE SocketHook!HookInv'
  OBVIOUS
<1> USE DEF SocketHook!HookInv, SocketHook!Shapes
<1>1. DOMAIN x1 = 1..x3
  OBVIOUS
<1>2. CASE SocketHook!Mount
  <2>1. \A s \in 1..x3 : ~SocketHook!IsAlive(s)
    BY <1>2 DEF SocketHook!Mount, SocketHook!Older, SocketHook!Current
  <2>2. x5 = {}
    BY <1>2 DEF SocketHook!Mount, SocketHook!Current
  <2>3. /\ x3' = x3 + 1 /\ x1' = [s \in 1..x3' |-> x1'[s]]
        /\ x1'[x3'] = "CONNECTING"
        /\ \A s \in 1..x3 : ~SocketHook!IsAlive(s)'
    BY <1>2, <2>1, ConnectStep DEF SocketHook!Mount
  <2>4. /\ x4' = TRUE /\ x8' = FALSE /\ x2' = x3' /\ x5' = {}
        /\ x7' = {}
    BY <1>2, <2>2 DEF SocketHook!Mount, SocketHook!Current
  <2>5. SocketHook!Shapes'
    <3>1. x4' \in BOOLEAN /\ x8' \in BOOLEAN
      BY <2>4
    <3>2. x3' \in Nat /\ x2' \in 0..x3'
      BY <2>3, <2>4
    <3> QED BY <2>3, <3>1, <3>2
  <2>6. SocketHook!Older'
    BY <2>3, <2>4 DEF SocketHook!Older, SocketHook!IsAlive
  <2>7. SocketHook!Current'
    BY <2>3, <2>4 DEF SocketHook!Current, SocketHook!IsAlive
  <2> QED BY <2>5, <2>6, <2>7
<1>3. CASE SocketHook!Unmount
  <2>1. x5' = {}
    BY <1>3 DEF SocketHook!Unmount, SocketHook!ClearReconnect, SocketHook!Current
  <2>2. x3 \in 1..x3
    BY <1>3 DEF SocketHook!Unmount, SocketHook!Current
  <2>3. \A s \in 1..x3 :
          x1'[s] = IF s = x3 THEN (IF x1[s] = "CLOSED" THEN "CLOSED" ELSE "CLOSING")
                        ELSE x1[s]
    BY <1>1, <1>3 DEF SocketHook!Unmount
  <2>4. x1' = [s \in 1..x3 |-> x1'[s]]
    BY <1>1, <1>3 DEF SocketHook!Unmount
  <2>5. SocketHook!Older' /\ (~SocketHook!IsAlive(x3))'
    BY <1>3, <2>2, <2>3 DEF SocketHook!Unmount, SocketHook!Older, SocketHook!IsAlive
  <2> QED BY <1>3, <2>1, <2>4, <2>5 DEF SocketHook!Unmount, SocketHook!Current
<1>4. ASSUME NEW s \in DOMAIN x1, SocketHook!OnOpen(s) PROVE SocketHook!HookInv'
  <2>1. s = x3 /\ x4
    BY <1>1, <1>4 DEF SocketHook!OnOpen, SocketHook!Older, SocketHook!Current, SocketHook!IsAlive
  <2>2. \A t \in 1..x3 : x1'[t] = IF t = x3 THEN "OPEN" ELSE x1[t]
    BY <1>1, <1>4, <2>1 DEF SocketHook!OnOpen
  <2>3. x1' = [t \in 1..x3 |-> x1'[t]]
    BY <1>1, <1>4 DEF SocketHook!OnOpen
  <2> QED BY <1>1, <1>4, <2>1, <2>2, <2>3 DEF SocketHook!OnOpen, SocketHook!Older, SocketHook!Current, SocketHook!IsAlive
<1>5. ASSUME NEW s \in DOMAIN x1, SocketHook!OnClose(s) PROVE SocketHook!HookInv'
  <2>1. \A t \in 1..x3 : x1'[t] = IF t = s THEN "CLOSED" ELSE x1[t]
    BY <1>1, <1>5 DEF SocketHook!OnClose
  <2>2. x1' = [t \in 1..x3 |-> x1'[t]]
    BY <1>1, <1>5 DEF SocketHook!OnClose
  <2>3. SocketHook!Older'
    BY <1>1, <1>5, <2>1 DEF SocketHook!OnClose, SocketHook!Older, SocketHook!IsAlive
  <2>4. CASE SocketHook!OfThisApp(s)
    <3>1. s = x3 /\ x5 = {}
      BY <1>1, <1>5, <2>4 DEF SocketHook!OnClose, SocketHook!OfThisApp, SocketHook!Older, SocketHook!Current
    <3> QED BY <1>1, <1>5, <2>1, <2>2, <2>3, <2>4, <3>1 DEF SocketHook!OnClose, SocketHook!OfThisApp, SocketHook!Current
  <2>5. CASE ~SocketHook!OfThisApp(s)
    <3>1. ~x4 \/ s # x3
      BY <2>5 DEF SocketHook!OfThisApp
    <3> QED BY <1>1, <1>5, <2>1, <2>2, <2>3, <2>5, <3>1 DEF SocketHook!OnClose, SocketHook!Current, SocketHook!IsAlive
  <2> QED BY <2>4, <2>5
<1>6. ASSUME NEW s \in DOMAIN x1, SocketHook!Reconnect(s) PROVE SocketHook!HookInv'
  <2>1. x4 /\ s = x3 /\ x1[x3] = "CLOSED" /\ x5' = {}
    BY <1>6 DEF SocketHook!Reconnect, SocketHook!Current
  <2>2. \A t \in 1..x3 : ~SocketHook!IsAlive(t)
    BY <2>1 DEF SocketHook!Older, SocketHook!IsAlive
  <2>3. /\ x3' = x3 + 1 /\ x3' \in Nat /\ x1' = [t \in 1..x3' |-> x1'[t]]
        /\ x1'[x3'] = "CONNECTING"
        /\ \A t \in 1..x3 : x1'[t] = x1[t] /\ ~SocketHook!IsAlive(t)'
    BY <1>6, <2>2, ConnectStep DEF SocketHook!Reconnect
  <2>4. x2' = x2 /\ x4' = x4 /\ x7' = x7 /\ x8' = x8
    BY <1>6 DEF SocketHook!Reconnect
  <2>5. SocketHook!Shapes'
    BY <2>3, <2>4
  <2>6. SocketHook!Older'
    BY <2>1, <2>3, <2>4 DEF SocketHook!Older
  <2>7. SocketHook!Current'
    BY <2>1, <2>3, <2>4 DEF SocketHook!Current, SocketHook!IsAlive
  <2> QED BY <2>5, <2>6, <2>7
<1>7. CASE UNCHANGED SocketHook!vars
  BY <1>7 DEF SocketHook!vars, SocketHook!Older, SocketHook!Current, SocketHook!IsAlive
<1> QED BY <1>2, <1>3, <1>4, <1>5, <1>6, <1>7 DEF SocketHook!Next

LEMMA HookSafe == SocketHook!HookInv => SocketHook!OneSocket
<1> SUFFICES ASSUME SocketHook!HookInv PROVE SocketHook!OneSocket
  OBVIOUS
<1>1. Cardinality({}) = 0 /\ Cardinality({x3}) = 1
  BY FS_EmptySet, FS_Singleton
<1>2. DOMAIN x1 = 1..x3 /\ x3 \in Nat
  BY DEF SocketHook!HookInv, SocketHook!Shapes
<1>3. CASE x4
  <2>1. x3 \in 1..x3
    BY <1>2, <1>3 DEF SocketHook!HookInv, SocketHook!Shapes, SocketHook!Current
  <2>2. CASE SocketHook!IsAlive(x3) /\ x5 = {}
    <3>1. SocketHook!Alive = {x3}
      BY <1>2, <2>1, <2>2 DEF SocketHook!HookInv, SocketHook!Alive, SocketHook!Older, SocketHook!IsAlive
    <3> QED BY <1>1, <1>3, <2>2, <3>1 DEF SocketHook!HookInv, SocketHook!OneSocket,
                                          SocketHook!Current, Cardinality, SocketHook!Cardinality
  <2>3. CASE x1[x3] = "CLOSED" /\ x5 = {x3}
    <3>1. SocketHook!Alive = {}
      BY <1>2, <2>3 DEF SocketHook!HookInv, SocketHook!Alive, SocketHook!Older, SocketHook!IsAlive
    <3> QED BY <1>1, <1>3, <2>3, <3>1 DEF SocketHook!HookInv, SocketHook!OneSocket,
                                          SocketHook!Current, Cardinality, SocketHook!Cardinality
  <2> QED BY <1>3, <2>2, <2>3 DEF SocketHook!HookInv, SocketHook!Current
<1>4. CASE ~x4
  <2>1. SocketHook!Alive = {} /\ x5 = {}
    BY <1>2, <1>4 DEF SocketHook!HookInv, SocketHook!Alive, SocketHook!Older, SocketHook!Current, SocketHook!IsAlive
  <2> QED BY <1>1, <1>4, <2>1 DEF SocketHook!OneSocket, Cardinality, SocketHook!Cardinality
<1> QED BY <1>3, <1>4

-----------------------------------------------------------------------------
(***************************************************************************)
(* The types of the parts                                                  *)
(***************************************************************************)

LEMMA PageTypesInit == AgentsPage!Init => AgentsPage!TypeOK
<1>1. 0 \in 0..1 /\ 1 \in 0..MaxKeys /\ 0 \in 0..MaxKeys
  BY PartsConstants
<1>2. AgentsPage!NotAsked \in AgentsPage!Answer
  BY <1>1 DEF AgentsPage!NotAsked, AgentsPage!Answer
<1>3. AgentsPage!NoPoll \in [AgentsPage!Lists -> AgentsPage!Answer]
  BY <1>2 DEF AgentsPage!NoPoll
<1> QED BY <1>1, <1>3 DEF AgentsPage!Init, AgentsPage!TypeOK

PollsTyped == x6' \in [AgentsPage!Polls -> [AgentsPage!Lists -> AgentsPage!Answer]]

LEMMA PollsTypes ==
    ASSUME AgentsPage!TypeOK, NEW l \in AgentsPage!Lists
    PROVE  /\ AgentsPage!OldPolls(l) => PollsTyped
           /\ AgentsPage!OldNews(l) => x10' \in [AgentsPage!Lists -> BOOLEAN]
<1>1. \A n \in AgentsPage!Polls : [x6[n] EXCEPT ![l].new = (x6[n][l].state # "given") /\ @]
                                   \in [AgentsPage!Lists -> AgentsPage!Answer]
  <2> TAKE n \in AgentsPage!Polls
  <2>0. PICK p : p = x6[n]
    OBVIOUS
  <2>1. p \in [AgentsPage!Lists -> AgentsPage!Answer] /\ p[l] \in AgentsPage!Answer
    BY <2>0 DEF AgentsPage!TypeOK
  <2>2. [p[l] EXCEPT !.new = (p[l].state # "given") /\ @] \in AgentsPage!Answer
    BY <2>1 DEF AgentsPage!Answer
  <2>3. [p EXCEPT ![l].new = (p[l].state # "given") /\ @] \in [AgentsPage!Lists -> AgentsPage!Answer]
    BY <2>1, <2>2
  <2> QED BY <2>0, <2>3
<1>2. AgentsPage!OldPolls(l) => PollsTyped
  BY <1>1 DEF AgentsPage!OldPolls, PollsTyped
<1>3. AgentsPage!OldNews(l) => x10' \in [AgentsPage!Lists -> BOOLEAN]
  BY DEF AgentsPage!TypeOK, AgentsPage!OldNews
<1> QED BY <1>2, <1>3

LEMMA PageTypes ==
    ASSUME AgentsPage!TypeOK, [AgentsPage!Next]_(AgentsPage!vars)
    PROVE  AgentsPage!TypeOK'
<1> USE DEF AgentsPage!TypeOK, PollsTyped
<1>0. /\ "tokens" \in AgentsPage!Lists /\ "key" \in AgentsPage!Lists
      /\ 0..1 \subseteq 0..MaxKeys /\ 1..MaxKeys \subseteq 0..MaxKeys /\ MaxKeys \in Nat
  BY PartsConstants DEF AgentsPage!Lists
<1>1. CASE AgentsPage!TokensChange
  <2>1. x1' \in 0..1
    BY <1>1 DEF AgentsPage!TokensChange
  <2>2. PollsTyped /\ x10' \in [AgentsPage!Lists -> BOOLEAN]
    BY <1>0, <1>1, PollsTypes DEF AgentsPage!TokensChange, AgentsPage!OldNews
  <2> QED BY <1>1, <2>1, <2>2 DEF AgentsPage!TokensChange, AgentsPage!pageVars
<1>2. CASE AgentsPage!ResetKey
  <2>1. x5' \in 1..MaxKeys /\ x3' = x5' /\ x2' = x5' /\ x4' = x5'
    BY <1>0, <1>2 DEF AgentsPage!ResetKey
  <2>2. PollsTyped /\ x10' \in [AgentsPage!Lists -> BOOLEAN]
    BY <1>0, <1>2, PollsTypes DEF AgentsPage!ResetKey, AgentsPage!OldNews
  <2>3. x7' \subseteq [value : 1..MaxKeys, new : BOOLEAN]
    <3>1. [value |-> x5', new |-> TRUE] \in [value : 1..MaxKeys, new : BOOLEAN]
      BY <2>1
    <3>2. \A r \in x7 : [r EXCEPT !.new = FALSE] \in [value : 1..MaxKeys, new : BOOLEAN]
      BY Zenon
    <3> QED BY ZenonT(40), <1>2, <3>1, <3>2 DEF AgentsPage!ResetKey
  <2> QED BY <1>0, <1>2, <2>1, <2>2, <2>3 DEF AgentsPage!ResetKey, AgentsPage!pageVars
<1>3. CASE AgentsPage!ResetKeyFails
  <2>1. x5' \in 1..MaxKeys /\ x3' = x5' /\ x2' \in {x2, 0}
    BY <1>0, <1>3 DEF AgentsPage!ResetKeyFails
  <2> QED BY <1>0, <1>3, <2>1 DEF AgentsPage!ResetKeyFails, AgentsPage!pageVars
<1>4. CASE AgentsPage!Stop
  BY <1>0, <1>4 DEF AgentsPage!Stop, AgentsPage!pageVars
<1>5. CASE AgentsPage!Restart
  <2>1. PollsTyped /\ x10' \in [AgentsPage!Lists -> BOOLEAN]
    BY <1>0, <1>5, PollsTypes DEF AgentsPage!Restart, AgentsPage!OldNews
  <2> QED BY <1>0, <1>5, <2>1 DEF AgentsPage!Restart, AgentsPage!pageVars
<1>6. ASSUME NEW n \in AgentsPage!Polls,
             AgentsPage!FetchAll(n) \/ AgentsPage!PollRejects(n)
      PROVE  AgentsPage!TypeOK'
  <2>1. AgentsPage!Asked \in AgentsPage!Answer /\ AgentsPage!NotAsked \in AgentsPage!Answer
    BY <1>0 DEF AgentsPage!Asked, AgentsPage!NotAsked, AgentsPage!Answer
  <2>2. PICK q \in [AgentsPage!Lists -> AgentsPage!Answer] : x6' = [x6 EXCEPT ![n] = q]
    BY <1>6, <2>1 DEF AgentsPage!FetchAll, AgentsPage!PollRejects, AgentsPage!NoPoll
  <2>3. PollsTyped
    BY <2>2
  <2> QED BY <1>6, <2>3 DEF AgentsPage!FetchAll, AgentsPage!PollRejects, AgentsPage!relayVars,
              AgentsPage!pageVars
<1>7. ASSUME NEW n \in AgentsPage!Polls, NEW l \in AgentsPage!Lists, AgentsPage!AnswerList(n, l)
      PROVE  AgentsPage!TypeOK'
  <2>1. AgentsPage!ListAtRelay(l) \in 0..MaxKeys
    BY <1>0 DEF AgentsPage!ListAtRelay
  <2>2. /\ AgentsPage!Failed \in AgentsPage!Answer
        /\ [state |-> "given", value |-> AgentsPage!ListAtRelay(l), new |-> TRUE] \in AgentsPage!Answer
    BY <1>0, <2>1 DEF AgentsPage!Failed, AgentsPage!Answer
  <2>3. PICK a \in AgentsPage!Answer : x6' = [x6 EXCEPT ![n][l] = a]
    BY <1>7, <2>2 DEF AgentsPage!AnswerList
  <2>4. [x6[n] EXCEPT ![l] = a] \in [AgentsPage!Lists -> AgentsPage!Answer]
    OBVIOUS
  <2>5. PollsTyped
    BY <2>3, <2>4
  <2> QED BY <1>7, <2>5 DEF AgentsPage!AnswerList, AgentsPage!relayVars, AgentsPage!pageVars
<1>9. ASSUME NEW n \in AgentsPage!Polls, AgentsPage!PollApplied(n)
      PROVE  AgentsPage!TypeOK'
  <2>0. PICK p : p = x6[n] /\ p \in [AgentsPage!Lists -> AgentsPage!Answer]
    OBVIOUS
  <2>1. \A l \in AgentsPage!Lists : p[l].value \in 0..MaxKeys /\ p[l].new \in BOOLEAN
    BY <2>0 DEF AgentsPage!Answer
  <2>2. x8' \in [AgentsPage!Lists -> 0..MaxKeys \union {AgentsPage!Unknown}]
    BY <1>9, <2>0, <2>1 DEF AgentsPage!PollApplied
  <2>3. x9' \in [AgentsPage!Lists -> 0..MaxKeys \union {AgentsPage!Unknown}]
    BY <1>9, <2>0, <2>1 DEF AgentsPage!PollApplied, AgentsPage!HashAfter
  <2>4. x10' \in [AgentsPage!Lists -> BOOLEAN]
    BY <1>9, <2>0, <2>1 DEF AgentsPage!PollApplied
  <2>5. AgentsPage!NoPoll \in [AgentsPage!Lists -> AgentsPage!Answer]
    BY <1>0 DEF AgentsPage!NoPoll, AgentsPage!NotAsked, AgentsPage!Answer
  <2>6. PollsTyped
    BY <1>9, <2>5 DEF AgentsPage!PollApplied
  <2> QED BY <1>9, <2>2, <2>3, <2>4, <2>6 DEF AgentsPage!PollApplied, AgentsPage!relayVars
<1>10. ASSUME NEW r \in x7, AgentsPage!ResetApplied(r)
       PROVE  AgentsPage!TypeOK'
  <2>1. r.value \in 0..MaxKeys /\ r.new \in BOOLEAN
    BY <1>0
  <2>2. x8' \in [AgentsPage!Lists -> 0..MaxKeys \union {AgentsPage!Unknown}]
    BY <1>10, <2>1 DEF AgentsPage!ResetApplied
  <2> QED BY <1>10, <2>1, <2>2 DEF AgentsPage!ResetApplied, AgentsPage!relayVars
<1>11. CASE UNCHANGED AgentsPage!vars
  BY <1>11 DEF AgentsPage!vars
<1> QED BY <1>1, <1>2, <1>3, <1>4, <1>5, <1>6, <1>7, <1>9, <1>10, <1>11 DEF AgentsPage!Next

-----------------------------------------------------------------------------
LEMMA ShellInitTypes == AppShell!Init => AppShell!TypeOK
BY DEF AppShell!Init, AppShell!TypeOK, AppShell!Lists, AppShell!Views

LEMMA RenderTypes ==
    ASSUME AppShell!TypeOK, NEW list \in AppShell!Lists, NEW selected \in Names \union {Nothing},
           AppShell!Render(list, selected)
    PROVE  /\ x1' \in AppShell!Lists /\ x4' \in Names \union {Nothing}
           /\ x5' \subseteq Names /\ x6' \subseteq Names
<1>1. DOMAIN list \subseteq Names
  BY DEF AppShell!Lists
<1>2. AppShell!Online(list) \subseteq Names
  BY <1>1 DEF AppShell!Online
<1> QED BY <1>1, <1>2 DEF AppShell!Render, AppShell!Mounted, AppShell!TypeOK

LEMMA ShellTypes ==
    ASSUME AppShell!TypeOK, [AppShell!Next]_(AppShell!vars)
    PROVE  AppShell!TypeOK'
<1>0. x1 \in AppShell!Lists /\ x4 \in Names \union {Nothing} /\ DOMAIN x1 \subseteq Names
  BY DEF AppShell!TypeOK, AppShell!Lists
<1>1. CASE AppShell!ListChanges
  BY <1>0, <1>1, RenderTypes DEF AppShell!ListChanges, AppShell!TypeOK
<1>2. CASE AppShell!SocketChanges
  BY <1>0, <1>2, RenderTypes DEF AppShell!SocketChanges, AppShell!TypeOK
<1>3. CASE AppShell!Navigate
  BY <1>0, <1>3, RenderTypes DEF AppShell!Navigate, AppShell!TypeOK
<1>4. CASE AppShell!DeleteAgent
  <2>1. PICK n \in Names \union {Nothing} : AppShell!Render(x1, n)
    BY <1>0, <1>4 DEF AppShell!DeleteAgent, AppShell!Online
  <2> QED BY <1>0, <1>4, <2>1, RenderTypes DEF AppShell!DeleteAgent, AppShell!TypeOK
<1>5. CASE \E a \in Names : AppShell!OpenAgent(a)
  BY <1>0, <1>5, RenderTypes DEF AppShell!OpenAgent, AppShell!TypeOK, AppShell!Views
<1>6. CASE UNCHANGED AppShell!vars
  BY <1>6 DEF AppShell!vars, AppShell!TypeOK
<1> QED BY <1>1, <1>2, <1>3, <1>4, <1>5, <1>6 DEF AppShell!Next

-----------------------------------------------------------------------------
\* A list with every element once
Once(q) == \A i, j \in DOMAIN q : q[i] = q[j] => i = j

LEMMA OnceAtMost ==
    ASSUME NEW T, IsFiniteSet(T), NEW q \in Seq(T), Once(q)
    PROVE  Len(q) <= Cardinality(T)
<1>1. PICK n : n \in Nat /\ n = Len(q) /\ q \in [1..n -> T]
  BY LenProperties
<1>2. q \in Injection(1..n, T)
  BY <1>1 DEF Injection, IsInjective, Once
<1>3. Cardinality(1..n) <= Cardinality(T)
  BY <1>2, FS_Injection
<1>4. Cardinality(1..n) = n
  <2>1. 1 \in Int /\ n \in Int
    BY <1>1
  <2>2. Cardinality(1..n) = IF 1 > n THEN 0 ELSE n - 1 + 1
    BY <2>1, FS_Interval
  <2> QED BY <1>1, <2>2
<1> QED BY <1>1, <1>3, <1>4

LEMMA OnceFiltered ==
    ASSUME NEW T, NEW q \in Seq(T), Once(q), NEW S, NEW p, p = Only(q, S)
    PROVE  Once(p) /\ \A i \in DOMAIN p : p[i] \in S
<1>1. p \in Seq(T) /\ \E f : Picks(p, q, S, f)
  BY Filtered
<1>2. PICK f : Picks(p, q, S, f)
  BY <1>1
<1>3. \A n \in DOMAIN p : f[n] \in DOMAIN q /\ p[n] = q[f[n]] /\ p[n] \in S
  BY <1>2 DEF Picks
<1>4. ASSUME NEW n \in DOMAIN p, NEW m \in DOMAIN p, p[n] = p[m]
      PROVE  n = m
  <2>1. f[n] = f[m]
    BY <1>3, <1>4 DEF Once
  <2>2. n \in Nat /\ m \in Nat /\ f[n] \in Nat
    BY <1>1, <1>3
  <2>3. ~(n < m) /\ ~(m < n)
    BY <1>2, <2>1, <2>2 DEF Picks
  <2> QED BY <2>2, <2>3
<1> QED BY <1>3, <1>4 DEF Once

LEMMA OnceConcat ==
    ASSUME NEW T, NEW a \in Seq(T), NEW b \in Seq(T), Once(a), Once(b),
           \A i \in DOMAIN a, j \in DOMAIN b : a[i] # b[j]
    PROVE  Once(a \o b)
<1>1. PICK n, m : n \in Nat /\ m \in Nat /\ n = Len(a) /\ m = Len(b)
  BY LenProperties
<1>2. PICK q : q = a \o b
  OBVIOUS
<1>3. DOMAIN q = 1..(n + m) /\ \A i \in 1..(n + m) : q[i] = IF i <= n THEN a[i] ELSE b[i - n]
  BY <1>1, <1>2
<1>4. \A i \in 1..(n + m) : i <= n => i \in DOMAIN a
  BY <1>1
<1>5. \A i \in 1..(n + m) : ~(i <= n) => i - n \in DOMAIN b
  BY <1>1
<1>6. ASSUME NEW i \in DOMAIN q, NEW j \in DOMAIN q, q[i] = q[j]
      PROVE  i = j
  <2>1. CASE i <= n /\ j <= n
    BY <1>3, <1>4, <1>6, <2>1 DEF Once
  <2>2. CASE ~(i <= n) /\ ~(j <= n)
    <3>1. i - n = j - n
      BY <1>3, <1>5, <1>6, <2>2 DEF Once
    <3> QED BY <1>1, <1>3, <3>1
  <2>3. CASE i <= n /\ ~(j <= n)
    BY <1>3, <1>4, <1>5, <1>6, <2>3
  <2>4. CASE ~(i <= n) /\ j <= n
    BY <1>3, <1>4, <1>5, <1>6, <2>4
  <2> QED BY <2>1, <2>2, <2>3, <2>4
<1> QED BY <1>2, <1>6 DEF Once

LEMMA SetListedOnce ==
    ASSUME NEW S, IsFiniteSet(S)
    PROVE  Once(CommandPalette!SetToSeq(S))
<1>1. PICK n \in Nat : ExistsBijection(1..n, S)
  BY FS_NatBijection
<1>2. Cardinality(S) = n
  BY <1>1, FS_CountingElements
<1>3. PICK f : f \in [1..n -> S] /\ CommandPalette!IsInjective(f)
  BY <1>1 DEF ExistsBijection, Bijection, Injection, IsInjective, CommandPalette!IsInjective
<1>4. CommandPalette!IsInjective(CommandPalette!SetToSeq(S))
  BY <1>2, <1>3 DEF CommandPalette!SetToSeq, Cardinality, CommandPalette!Cardinality
<1> QED BY <1>4 DEF CommandPalette!IsInjective, Once

LEMMA ItemsOnce ==
    ASSUME DOMAIN x1 \subseteq Machines
    PROVE  Once(CommandPalette!AllItems)
<1>1. PICK a, b : a = CommandPalette!SetToSeq(DOMAIN x1) /\ b = CommandPalette!SetToSeq(Pages)
  OBVIOUS
<1>2. IsFiniteSet(DOMAIN x1) /\ IsFiniteSet(Pages)
  BY PartsConstants, FS_Subset
<1>3. a \in Seq(DOMAIN x1) /\ Once(a)
  BY <1>1, <1>2, SetListed, SetListedOnce
<1>4. b \in Seq(Pages) /\ Once(b)
  BY <1>1, <1>2, SetListed, SetListedOnce
<1>5. a \in Seq(CommandPalette!Items)
  BY <1>3, SeqOfMore DEF CommandPalette!Items
<1>6. b \in Seq(CommandPalette!Items)
  BY <1>4, SeqOfMore DEF CommandPalette!Items
<1>7. \A i \in DOMAIN a : a[i] \in Machines
  BY <1>3
<1>8. \A j \in DOMAIN b : b[j] \in Pages
  BY <1>4
<1>9. \A i \in DOMAIN a, j \in DOMAIN b : a[i] # b[j]
  BY <1>7, <1>8, PartsConstants
<1>10. Once(a \o b)
  BY <1>3, <1>4, <1>5, <1>6, <1>9, OnceConcat
<1> QED BY <1>1, <1>10 DEF CommandPalette!AllItems

LEMMA FilteredOnce ==
    ASSUME DOMAIN x1 \subseteq Machines
    PROVE  Once(CommandPalette!filtered)
<1>1. PICK A, T : A = CommandPalette!AllItems /\ T = CommandPalette!Items
  OBVIOUS
<1>2. A \in Seq(T) /\ Once(A)
  BY <1>1, PartsConstants, ItemsListed, ItemsOnce
<1>3. PICK a, b, c : /\ a = Only(A, {i \in T : x3[i] = 3})
                     /\ b = Only(A, {i \in T : x3[i] = 2})
                     /\ c = Only(A, {i \in T : x3[i] = 1})
  OBVIOUS
<1>4. CommandPalette!filtered = (a \o b) \o c
  BY <1>1, <1>3, FilterOfPalette DEF CommandPalette!filtered
<1>5. a \in Seq(T) /\ Once(a) /\ \A i \in DOMAIN a : a[i] \in {k \in T : x3[k] = 3}
  BY <1>2, <1>3, Filtered, OnceFiltered
<1>6. b \in Seq(T) /\ Once(b) /\ \A i \in DOMAIN b : b[i] \in {k \in T : x3[k] = 2}
  BY <1>2, <1>3, Filtered, OnceFiltered
<1>7. c \in Seq(T) /\ Once(c) /\ \A i \in DOMAIN c : c[i] \in {k \in T : x3[k] = 1}
  BY <1>2, <1>3, Filtered, OnceFiltered
<1>8. \A i \in DOMAIN a, j \in DOMAIN b : a[i] # b[j]
  BY <1>5, <1>6
<1>9. PICK d : d = a \o b
  OBVIOUS
<1>10. d \in Seq(T) /\ Once(d)
  BY <1>5, <1>6, <1>8, <1>9, OnceConcat
<1>11. \A i \in DOMAIN d : x3[d[i]] # 1
  <2>1. PICK n, m : n \in Nat /\ m \in Nat /\ n = Len(a) /\ m = Len(b)
    BY <1>5, <1>6, LenProperties
  <2>2. DOMAIN d = 1..(n + m) /\ \A i \in 1..(n + m) : d[i] = IF i <= n THEN a[i] ELSE b[i - n]
    BY <1>5, <1>6, <1>9, <2>1
  <2>3. \A i \in 1..(n + m) : IF i <= n THEN i \in DOMAIN a ELSE i - n \in DOMAIN b
    BY <1>5, <1>6, <2>1
  <2> QED BY <1>5, <1>6, <2>2, <2>3
<1>12. \A i \in DOMAIN d, j \in DOMAIN c : d[i] # c[j]
  BY <1>7, <1>11
<1>13. Once(d \o c)
  BY <1>7, <1>10, <1>12, OnceConcat
<1> QED BY <1>4, <1>9, <1>13

LEMMA RowsOnce ==
    ASSUME DOMAIN x1 \subseteq Machines
    PROVE  CommandPalette!rows \in Seq(CommandPalette!Items) /\ Once(CommandPalette!rows)
<1>1. PICK q, T : q = CommandPalette!filtered /\ T = CommandPalette!Items /\ q \in Seq(T) /\ Once(q)
  BY PartsConstants, FilteredFacts, FilteredOnce
<1>2. PICK F : F = IF q # <<>> /\ Head(q) \in Machines THEN Machines ELSE Pages
  OBVIOUS
<1>3. PICK a, b : a = Only(q, F) /\ b = Only(q, T \ F) /\ CommandPalette!rows = a \o b
  BY <1>1, <1>2, FilterOfPalette DEF CommandPalette!rows
<1>4. a \in Seq(T) /\ Once(a) /\ \A i \in DOMAIN a : a[i] \in F
  BY <1>1, <1>3, Filtered, OnceFiltered
<1>5. b \in Seq(T) /\ Once(b) /\ \A i \in DOMAIN b : b[i] \in T \ F
  BY <1>1, <1>3, Filtered, OnceFiltered
<1>6. \A i \in DOMAIN a, j \in DOMAIN b : a[i] # b[j]
  BY <1>4, <1>5
<1>7. Once(a \o b) /\ a \o b \in Seq(T)
  BY <1>4, <1>5, <1>6, OnceConcat
<1> QED BY <1>1, <1>3, <1>7

LEMMA PaletteTypesInit == CommandPalette!Init => CommandPalette!TypeOK
<1> SUFFICES ASSUME CommandPalette!Init
             PROVE  CommandPalette!TypeOK
  OBVIOUS
<1>1. PICK N : N = Cardinality(CommandPalette!Items) /\ N \in Nat /\ N > 0
  <2>1. IsFiniteSet(CommandPalette!Items) /\ CommandPalette!Items # {}
    BY PartsConstants, FS_Union DEF CommandPalette!Items
  <2>2. Cardinality(CommandPalette!Items) \in Nat /\ Cardinality(CommandPalette!Items) # 0
    BY <2>1, FS_CardinalityType, FS_EmptySet
  <2> QED BY <2>2
<1>2. \A S : CommandPalette!Cardinality(S) = Cardinality(S)
  BY DEF CommandPalette!Cardinality, Cardinality
<1>3. DOMAIN x1 = {} /\ x2 = FALSE /\ x5 = TRUE /\ x3 = CommandPalette!NoQuery /\ x4 = 0
  BY DEF CommandPalette!Init
<1>4. x4 \in -1..(N - 1)
  BY <1>1, <1>3
<1> QED BY <1>1, <1>2, <1>3, <1>4 DEF CommandPalette!TypeOK

LEMMA PaletteTypes ==
    ASSUME CommandPalette!TypeOK, [CommandPalette!Next]_(CommandPalette!vars)
    PROVE  CommandPalette!TypeOK'
<1>1. PICK N : N = Cardinality(CommandPalette!Items) /\ N \in Nat /\ N > 0
  <2>1. IsFiniteSet(CommandPalette!Items) /\ CommandPalette!Items # {}
    BY PartsConstants, FS_Union DEF CommandPalette!Items
  <2>2. Cardinality(CommandPalette!Items) \in Nat /\ Cardinality(CommandPalette!Items) # 0
    BY <2>1, FS_CardinalityType, FS_EmptySet
  <2> QED BY <2>2
<1>2. \A S : CommandPalette!Cardinality(S) = Cardinality(S)
  BY DEF CommandPalette!Cardinality, Cardinality
<1> DEFINE Listed == DOMAIN x1 \subseteq Machines /\ \A a \in DOMAIN x1 : x1[a] \in BOOLEAN
           Asked == x3 \in CommandPalette!Queries \union {CommandPalette!NoQuery}
<1>3. Listed /\ Asked /\ x2 \in BOOLEAN /\ x5 \in BOOLEAN /\ x4 \in -1..(N - 1)
  BY <1>1, <1>2 DEF CommandPalette!TypeOK
<1>4. SUFFICES Listed' /\ Asked' /\ x2' \in BOOLEAN /\ x5' \in BOOLEAN /\ x4' \in -1..(N - 1)
  BY <1>1, <1>2 DEF CommandPalette!TypeOK
<1>5. PICK l : l = Len(CommandPalette!filtered) /\ l \in Nat /\ l <= N
  <2>1. CommandPalette!filtered \in Seq(CommandPalette!Items) /\ Once(CommandPalette!filtered)
    BY <1>3, PartsConstants, FilteredFacts, FilteredOnce
  <2>2. IsFiniteSet(CommandPalette!Items)
    BY PartsConstants, FS_Union DEF CommandPalette!Items
  <2> QED BY <1>1, <2>1, <2>2, OnceAtMost, LenProperties
<1>6. \A i \in DOMAIN CommandPalette!rows : i \in 1..N
  <2>1. PICK r : r = CommandPalette!rows /\ r \in Seq(CommandPalette!Items) /\ Once(r)
    BY <1>3, RowsOnce
  <2>2. IsFiniteSet(CommandPalette!Items)
    BY PartsConstants, FS_Union DEF CommandPalette!Items
  <2>3. PICK k : k = Len(r) /\ k \in Nat /\ k <= N /\ DOMAIN r = 1..k
    BY <1>1, <2>1, <2>2, OnceAtMost, LenProperties
  <2> QED BY <1>1, <2>1, <2>3
<1>7. CASE CommandPalette!AgentsChange
  <2>1. UNCHANGED <<x2, x3, x4>> /\ x5' = FALSE /\ Listed'
    BY <1>7 DEF CommandPalette!AgentsChange, CommandPalette!Rendered
  <2> QED BY <1>3, <2>1
<1>8. CASE CommandPalette!Toggle
  <2>1. x5' = FALSE /\ x1' = x1 /\ x2' = ~x2
    BY <1>8 DEF CommandPalette!Toggle, CommandPalette!Rendered
  <2>2. (x3' = CommandPalette!NoQuery /\ x4' = 0) \/ (x3' = x3 /\ x4' = x4)
    BY Zenon, <1>8 DEF CommandPalette!Toggle
  <2>3. Asked' /\ x4' \in -1..(N - 1)
    BY <1>1, <1>3, <2>2
  <2> QED BY <1>3, <2>1, <2>3
<1>9. CASE CommandPalette!Type
  <2>1. x5' = FALSE /\ UNCHANGED <<x1, x2>> /\ x4' = 0 /\ Asked'
    BY <1>9 DEF CommandPalette!Type, CommandPalette!Rendered
  <2>2. x4' \in -1..(N - 1)
    BY <1>1, <2>1
  <2> QED BY <1>3, <2>1, <2>2
<1>10. CASE CommandPalette!Effects
  <2>1. x5' = TRUE /\ UNCHANGED <<x1, x2, x3>> /\ x4' = CommandPalette!Clamped
    BY <1>10 DEF CommandPalette!Effects
  <2>2. CommandPalette!Clamped = IF x4 < l THEN x4 ELSE IF CommandPalette!filtered = <<>> THEN 0 ELSE l - 1
    BY <1>5 DEF CommandPalette!Clamped
  <2>3. x4' \in -1..(N - 1)
    BY <1>1, <1>3, <1>5, <2>1, <2>2
  <2> QED BY <1>3, <2>1, <2>3
<1>11. CASE CommandPalette!Move
  <2>1. x5' = FALSE /\ UNCHANGED <<x1, x2, x3>>
    BY <1>11 DEF CommandPalette!Move, CommandPalette!Rendered
  <2>2. x4' \in -1..(N - 1)
    <3>1. CASE CommandPalette!ArrowDown
      BY <1>1, <1>3, <1>5, <3>1 DEF CommandPalette!ArrowDown, CommandPalette!Least
    <3>2. CASE CommandPalette!ArrowUp
      BY <1>1, <1>3, <3>2 DEF CommandPalette!ArrowUp
    <3>3. CASE CommandPalette!MouseEnter
      BY <1>1, <1>6, <3>3 DEF CommandPalette!MouseEnter
    <3> QED BY <1>11, <3>1, <3>2, <3>3 DEF CommandPalette!Move
  <2> QED BY <1>3, <2>1, <2>2
<1>12. CASE CommandPalette!Enter \/ CommandPalette!Click
  <2>1. x5' = FALSE /\ x2' = FALSE /\ UNCHANGED <<x1, x3, x4>>
    BY <1>12 DEF CommandPalette!Enter, CommandPalette!Click, CommandPalette!Run, CommandPalette!Rendered
  <2> QED BY <1>3, <2>1
<1>13. CASE UNCHANGED CommandPalette!vars
  BY <1>3, <1>13 DEF CommandPalette!vars
<1> QED BY <1>7, <1>8, <1>9, <1>10, <1>11, <1>12, <1>13 DEF CommandPalette!Next

-----------------------------------------------------------------------------
LEMMA KnownInit == KnownAgents!Init => KnownAgents!TypeOK
BY DEF KnownAgents!Init, KnownAgents!TypeOK, KnownAgents!Stores, KnownAgents!Pairs

LEMMA StoreWith ==
    ASSUME NEW a \in Names, NEW k \in Tabs, NEW loaded \in KnownAgents!Stores
    PROVE  KnownAgents!With(loaded, a, k) \in KnownAgents!Stores
<1>1. PICK as \in SUBSET Names : loaded \in [as -> Tabs]
  BY DEF KnownAgents!Stores
<1>2. KnownAgents!With(loaded, a, k) \in [as \union {a} -> Tabs]
  BY <1>1 DEF KnownAgents!With
<1> QED BY <1>2 DEF KnownAgents!Stores

LEMMA KnownTypes ==
    ASSUME KnownAgents!TypeOK, [KnownAgents!Next]_(KnownAgents!vars)
    PROVE  KnownAgents!TypeOK'
<1> USE DEF KnownAgents!TypeOK
<1>1. CASE \E a \in Names, k \in Tabs : KnownAgents!AgentOnline(a, k)
  <2>1. PICK a \in Names, k \in Tabs : KnownAgents!AgentOnline(a, k)
    BY <1>1
  <2>2. x4' \subseteq [pair : x3', loaded : KnownAgents!Stores]
    BY <2>1 DEF KnownAgents!AgentOnline, KnownAgents!Pairs
  <2> QED BY <2>1, <2>2 DEF KnownAgents!AgentOnline, KnownAgents!Pairs
<1>2. CASE KnownAgents!LoadApp
  BY <1>2 DEF KnownAgents!LoadApp
<1>7. CASE KnownAgents!LeaveApp
  <2>1. x4' \subseteq [pair : x3', loaded : KnownAgents!Stores]
    BY <1>7 DEF KnownAgents!LeaveApp
  <2> QED BY <1>7, <2>1 DEF KnownAgents!LeaveApp
<1>3. CASE \E c \in x4 : KnownAgents!CheckEnds(c)
  <2>1. PICK c \in x4 : KnownAgents!CheckEnds(c)
    BY <1>3
  <2>2. c.pair \in KnownAgents!Pairs /\ c.loaded \in KnownAgents!Stores
    OBVIOUS
  <2>3. KnownAgents!With(c.loaded, c.pair[1], c.pair[2]) \in KnownAgents!Stores
    BY <2>2, StoreWith DEF KnownAgents!Pairs
  <2>4. c.pair # Nothing
    BY <2>2, PartsConstants
  <2> QED BY <2>1, <2>2, <2>3, <2>4 DEF KnownAgents!CheckEnds
<1>4. CASE KnownAgents!TrustNewIdentity \/ KnownAgents!RejectFingerprint
  BY <1>4 DEF KnownAgents!TrustNewIdentity, KnownAgents!RejectFingerprint
<1>5. CASE KnownAgents!AcceptNewIdentity
  BY <1>5, StoreWith DEF KnownAgents!AcceptNewIdentity, KnownAgents!Pairs
<1>6. CASE UNCHANGED KnownAgents!vars
  BY <1>6 DEF KnownAgents!vars
<1> QED BY <1>1, <1>2, <1>3, <1>4, <1>5, <1>6, <1>7 DEF KnownAgents!Next

-----------------------------------------------------------------------------
LEMMA PreferencesTypesInit == Preferences!Init => Preferences!TypeOK
<1>1. MaxPuts \in Nat
  BY PartsConstants
<1>2. SUFFICES ASSUME Preferences!Init
               PROVE  Preferences!TypeOK
  OBVIOUS
<1>3. x1 \in Preferences!Prefs /\ x8 \in Preferences!Prefs
  BY <1>2 DEF Preferences!Init, Preferences!Default, Preferences!Prefs, Preferences!Values
<1>4. DOMAIN x3 \subseteq Preferences!Fields /\ \A f \in DOMAIN x3 : x3[f] \in Preferences!Values
  BY <1>2 DEF Preferences!Init, Preferences!Fields
<1>5. x4 = <<>> /\ x5 = 0 /\ x6 = 0 /\ x2 = FALSE /\ x7 = FALSE
  BY <1>2 DEF Preferences!Init
<1>6. DOMAIN x4 = {}
  BY <1>5
<1>7. DOMAIN x4 \subseteq 1..x5 /\ \A n \in DOMAIN x4 : x4[n] \in Preferences!Prefs
  BY <1>6
<1>8. x5 \in 0..MaxPuts /\ x6 \in 0..x5
  BY <1>1, <1>5
<1>9. x2 \in BOOLEAN /\ x7 \in BOOLEAN
  BY <1>5
<1> QED BY <1>3, <1>4, <1>7, <1>8, <1>9 DEF Preferences!TypeOK

LEMMA PutTypes ==
    ASSUME Preferences!TypeOK, NEW ps \in Seq(Preferences!Prefs), Preferences!Put(ps)
    PROVE  /\ x5' \in 0..MaxPuts /\ 0..x5 \subseteq 0..x5'
           /\ DOMAIN x4' \subseteq 1..x5' /\ \A n \in DOMAIN x4' : x4'[n] \in Preferences!Prefs
<1>0. MaxPuts \in Nat /\ x5 \in 0..MaxPuts /\ DOMAIN x4 \subseteq 1..x5
  BY PartsConstants DEF Preferences!TypeOK
<1>1. PICK l \in Nat : l = Len(ps) /\ DOMAIN ps = 1..l
  OBVIOUS
<1>2. PICK m \in Nat : m = x5' /\ m = x5 + l /\ m <= MaxPuts
  BY <1>0, <1>1 DEF Preferences!Put
<1>3. x4' = [n \in DOMAIN x4 \union (x5 + 1)..m |-> IF n > x5 THEN ps[n - x5] ELSE x4[n]]
  BY <1>2 DEF Preferences!Put
<1>4. \A n \in (x5 + 1)..m : n - x5 \in 1..l
  BY <1>0, <1>1, <1>2
<1>5. \A n \in DOMAIN x4 : ~(n > x5) /\ n \in 1..m
  BY <1>0, <1>2
<1>6. \A n \in (x5 + 1)..m : n > x5 /\ n \in 1..m
  BY <1>0, <1>2
<1>7. \A n \in DOMAIN x4 : x4[n] \in Preferences!Prefs
  BY DEF Preferences!TypeOK
<1>8. \A i \in 1..l : ps[i] \in Preferences!Prefs
  BY <1>1
<1>9. DOMAIN x4' = DOMAIN x4 \union (x5 + 1)..m
  BY <1>3
<1>10. \A n \in DOMAIN x4' : x4'[n] \in Preferences!Prefs
  <2> SUFFICES ASSUME NEW n \in DOMAIN x4'
               PROVE  x4'[n] \in Preferences!Prefs
    OBVIOUS
  <2>1. CASE n \in DOMAIN x4
    <3>1. x4'[n] = x4[n]
      BY <2>1, <1>3, <1>5, <1>9
    <3> QED BY <2>1, <3>1, <1>7
  <2>2. CASE n \in (x5 + 1)..m
    <3>1. x4'[n] = ps[n - x5]
      BY <2>2, <1>3, <1>6, <1>9
    <3> QED BY <2>2, <3>1, <1>4, <1>8
  <2> QED BY <2>1, <2>2, <1>9
<1>11. DOMAIN x4' \subseteq 1..m
  BY <1>5, <1>6, <1>9
<1>12. m \in 0..MaxPuts /\ 0..x5 \subseteq 0..m
  BY <1>0, <1>2
<1> QED BY <1>2, <1>10, <1>11, <1>12

LEMMA PreferencesTypes ==
    ASSUME Preferences!TypeOK, [Preferences!Next]_(Preferences!vars)
    PROVE  Preferences!TypeOK'
<1> USE DEF Preferences!TypeOK
<1>0. 0 \in Preferences!Values /\ {"terminalTheme", "fontSize", "fontFamily"} \subseteq Preferences!Fields
  BY DEF Preferences!Values, Preferences!Fields
<1>1. CASE Preferences!Offer
  BY <1>1 DEF Preferences!Offer, Preferences!Prefs
<1>2. CASE Preferences!ResetFont
  <2>1. \A v \in Preferences!Values, f \in Preferences!Fields : [x1 EXCEPT ![f] = v] \in Preferences!Prefs
    BY DEF Preferences!Prefs
  <2>2. <<Preferences!AllPrefs("fontSize", 0), Preferences!AllPrefs("fontFamily", 0)>>
           \in Seq(Preferences!Prefs)
    <3>1. /\ Preferences!AllPrefs("fontSize", 0) \in Preferences!Prefs
          /\ Preferences!AllPrefs("fontFamily", 0) \in Preferences!Prefs
      BY <1>0, <2>1 DEF Preferences!AllPrefs
    <3> QED BY <3>1
  <2>3. x1' \in Preferences!Prefs
    BY <1>0, <1>2 DEF Preferences!ResetFont, Preferences!Prefs
  <2> QED BY <1>2, <2>2, <2>3, PutTypes DEF Preferences!ResetFont
<1>3. CASE Preferences!Login
  BY <1>0, <1>3 DEF Preferences!Login, Preferences!Default, Preferences!Prefs
<1>4. ASSUME NEW f \in Preferences!Fields, NEW v \in Preferences!Values, Preferences!Choose(f, v)
      PROVE  Preferences!TypeOK'
  <2>1. [x1 EXCEPT ![f] = v] \in Preferences!Prefs
    BY DEF Preferences!Prefs
  <2>2. <<Preferences!AllPrefs(f, v)>> \in Seq(Preferences!Prefs)
    BY <2>1 DEF Preferences!AllPrefs
  <2> QED BY <1>4, <2>1, <2>2, PutTypes DEF Preferences!Choose
<1>5. ASSUME NEW n \in DOMAIN x4, Preferences!Handle(n)
      PROVE  Preferences!TypeOK'
  <2>1. \A f \in Preferences!Fields : x4[n][f] \in Preferences!Values
    BY DEF Preferences!Prefs
  <2>2. n \in 0..x5
    OBVIOUS
  <2> QED BY <1>5, <2>1, <2>2 DEF Preferences!Handle, Preferences!Kept
<1>6. ASSUME NEW n \in DOMAIN x4, Preferences!PutLost(n)
      PROVE  Preferences!TypeOK'
  BY <1>6 DEF Preferences!PutLost
<1>7. CASE UNCHANGED Preferences!vars
  BY <1>7 DEF Preferences!vars
<1> QED BY <1>1, <1>2, <1>3, <1>4, <1>5, <1>6, <1>7 DEF Preferences!Next

-----------------------------------------------------------------------------
LEMMA LimitTypesInit == RateLimit!Init => RateLimit!TypeOK
<1>1. MaxNow \in Nat /\ MaxStoreSize \in Nat
  BY PartsConstants
<1>2. SUFFICES ASSUME RateLimit!Init
               PROVE  RateLimit!TypeOK
  OBVIOUS
<1>3. x1 = 0 /\ x3 = 0 /\ DOMAIN x2 = {} /\ x2 \in [DOMAIN x2 -> RateLimit!Entry]
  BY <1>2 DEF RateLimit!Init, RateLimit!NoEntries
<1>4. x4 \in [Names -> Seq(0..x1)]
  BY <1>2 DEF RateLimit!Init
<1>5. RateLimit!Cardinality(DOMAIN x2) <= MaxStoreSize
  <2>1. Cardinality({}) = 0
    BY FS_EmptySet
  <2>2. \A S : RateLimit!Cardinality(S) = Cardinality(S)
    BY DEF RateLimit!Cardinality, Cardinality
  <2> QED BY <1>1, <1>3, <2>1, <2>2
<1>6. x1 \in 0..MaxNow /\ x3 \in 0..x1
  BY <1>1, <1>3
<1> QED BY <1>3, <1>4, <1>5, <1>6 DEF RateLimit!TypeOK

LEMMA LimitTypes ==
    ASSUME RateLimit!TypeOK, [RateLimit!Next]_(RateLimit!vars)
    PROVE  RateLimit!TypeOK'
<1>0. /\ MaxNow \in Nat /\ MaxStoreSize \in Nat /\ WindowMs \in Nat /\ MaxRequests \in Nat
      /\ IsFiniteSet(Names)
  BY PartsConstants
<1>1. /\ x1 \in 0..MaxNow /\ x3 \in 0..x1 /\ x1 \in Nat /\ x1 \in 0..x1
      /\ DOMAIN x2 \subseteq Names /\ x2 \in [DOMAIN x2 -> RateLimit!Entry]
      /\ RateLimit!Cardinality(DOMAIN x2) <= MaxStoreSize
      /\ x4 \in [Names -> Seq(0..x1)]
  BY DEF RateLimit!TypeOK
<1>2. \A S : RateLimit!Cardinality(S) = Cardinality(S)
  BY DEF RateLimit!Cardinality, Cardinality
<1>3. CASE RateLimit!Interval
  <2>1. x1' = x1 /\ x3' = x1 /\ x4' = x4 /\ RateLimit!Sweep
    BY <1>3 DEF RateLimit!Interval
  <2>2. PICK kept : kept = {k \in DOMAIN x2 : ~RateLimit!Expired(x2[k])}
    OBVIOUS
  <2>3. x2' = [k \in kept |-> x2[k]]
    BY <2>1, <2>2 DEF RateLimit!Sweep, RateLimit!Restrict
  <2>4. DOMAIN x2' \subseteq DOMAIN x2 /\ x2' \in [DOMAIN x2' -> RateLimit!Entry]
    BY <1>1, <2>2, <2>3
  <2>5. IsFiniteSet(DOMAIN x2)
    BY <1>0, <1>1, FS_Subset
  <2>6. PICK a, b \in Nat : /\ a = Cardinality(DOMAIN x2') /\ b = Cardinality(DOMAIN x2) /\ a <= b
    BY <2>4, <2>5, FS_Subset, FS_CardinalityType
  <2>7. b <= MaxStoreSize
    BY <1>1, <1>2, <2>6
  <2>8. RateLimit!Cardinality(DOMAIN x2') <= MaxStoreSize
    BY <1>0, <1>2, <2>6, <2>7
  <2>9. x3' \in 0..x1' /\ x4' \in [Names -> Seq(0..x1')]
    BY <1>1, <2>1
  <2> QED BY <1>1, <2>1, <2>4, <2>8, <2>9 DEF RateLimit!TypeOK
<1>4. CASE RateLimit!Tick
  <2>1. x1 < MaxNow /\ x1' = x1 + 1 /\ x2' = x2 /\ x3' = x3 /\ x4' = x4
    BY <1>4 DEF RateLimit!Tick
  <2>2. x1' \in 0..MaxNow /\ x3' \in 0..x1' /\ 0..x1 \subseteq 0..x1'
    BY <1>0, <1>1, <2>1
  <2>3. \A k \in Names : x4[k] \in Seq(0..x1')
    BY <1>1, <2>2, SeqOfMore
  <2>4. x4' \in [Names -> Seq(0..x1')]
    BY <1>1, <2>1, <2>3
  <2> QED BY <1>1, <2>1, <2>2, <2>4 DEF RateLimit!TypeOK
<1>5. ASSUME NEW k \in Names, RateLimit!Check(k)
      PROVE  RateLimit!TypeOK'
  <2>1. x1' = x1 /\ x3' = x3
    BY <1>5 DEF RateLimit!Check
  <2>2. x4' \in {x4, [x4 EXCEPT ![k] = Append(@, x1)]}
    BY <1>5 DEF RateLimit!Check
  <2>3. [x4 EXCEPT ![k] = Append(@, x1)] \in [Names -> Seq(0..x1)]
    <3>1. Append(x4[k], x1) \in Seq(0..x1)
      BY <1>1
    <3> QED BY <1>1, <3>1
  <2>4. x4' \in [Names -> Seq(0..x1')]
    BY <1>1, <2>1, <2>2, <2>3
  <2>5. /\ DOMAIN x2' \subseteq Names /\ x2' \in [DOMAIN x2' -> RateLimit!Entry]
        /\ RateLimit!Cardinality(DOMAIN x2') <= MaxStoreSize
    <3>1. CASE x2' = x2
      BY <1>1, <3>1
    <3>2. CASE x2' = RateLimit!Opened(k) /\ RateLimit!HasRoom
      <4>1. x1 + WindowMs \in Nat
        BY <1>0, <1>1
      <4>2. DOMAIN x2' = DOMAIN x2 \union {k} /\ x2' \in [DOMAIN x2' -> RateLimit!Entry]
        BY <1>1, <3>2, <4>1 DEF RateLimit!Opened, RateLimit!Entry
      <4>3. PICK n \in Nat : n = Cardinality(DOMAIN x2) /\ n + 1 <= MaxStoreSize
        <5>1. IsFiniteSet(DOMAIN x2)
          BY <1>0, <1>1, FS_Subset
        <5>2. PICK n \in Nat : n = Cardinality(DOMAIN x2)
          BY <5>1, FS_CardinalityType
        <5>3. n < MaxStoreSize
          BY <1>2, <3>2, <5>2 DEF RateLimit!HasRoom
        <5> QED BY <1>0, <5>2, <5>3
      <4>4. Cardinality(DOMAIN x2 \union {k}) \in {n, n + 1}
        BY <1>0, <1>1, <4>3, FS_Subset, FS_AddElement
      <4>5. Cardinality(DOMAIN x2 \union {k}) <= MaxStoreSize
        BY <1>0, <4>3, <4>4
      <4> QED BY <1>1, <1>2, <4>2, <4>5
    <3>3. CASE k \in DOMAIN x2 /\ x2' = [x2 EXCEPT ![k] = RateLimit!CountedUp(@)]
      <4>1. RateLimit!CountedUp(x2[k]) \in RateLimit!Entry
        <5>1. PICK e \in RateLimit!Entry : e = x2[k]
          BY <1>1, <3>3
        <5> QED BY <5>1 DEF RateLimit!CountedUp, RateLimit!Entry
      <4> QED BY <1>1, <3>3, <4>1
    <3> QED BY <1>5, <3>1, <3>2, <3>3 DEF RateLimit!Check
  <2> QED BY <1>1, <2>1, <2>4, <2>5 DEF RateLimit!TypeOK
<1>6. CASE UNCHANGED RateLimit!vars
  BY <1>1, <1>6 DEF RateLimit!vars, RateLimit!TypeOK
<1> QED BY <1>3, <1>4, <1>5, <1>6 DEF RateLimit!Next

-----------------------------------------------------------------------------
LEMMA HookTypesInit == SocketHook!Init => SocketHook!TypeOK
<1>1. MaxSockets \in Nat
  BY PartsConstants
<1>2. <<>> \in [1..0 -> SocketHook!States]
  OBVIOUS
<1>3. SUFFICES ASSUME SocketHook!Init
               PROVE  SocketHook!TypeOK
  OBVIOUS
<1>4. x3 = 0 /\ x2 = 0 /\ x6 = 0 /\ x5 = {} /\ x7 = {} /\ x4 = FALSE /\ x8 = FALSE /\ x1 = <<>>
  BY <1>3 DEF SocketHook!Init
<1>5. x1 \in [1..x3 -> SocketHook!States]
  BY <1>2, <1>4
<1>6. x3 \in 0..MaxSockets /\ x2 \in 0..x3 /\ x6 \in 0..x3
  BY <1>1, <1>4
<1> QED BY <1>4, <1>5, <1>6 DEF SocketHook!TypeOK

LEMMA ConnectTypes ==
    ASSUME SocketHook!TypeOK, SocketHook!Connect
    PROVE  /\ x3 \in Nat /\ x3' = x3 + 1 /\ x3' \in 0..MaxSockets
           /\ x1' \in [1..x3' -> SocketHook!States]
<1> USE DEF SocketHook!TypeOK
<1>1. MaxSockets \in Nat /\ x3 \in 0..MaxSockets
  BY PartsConstants
<1>2. x3' = x3 + 1 /\ x3' \in 0..MaxSockets /\ x3 \in Nat
  BY <1>1 DEF SocketHook!Connect
<1>3. \A s \in 1..x3' : s # x3' => x1[s] \in SocketHook!States
  <2>1. \A s \in 1..x3' : s # x3' => s \in 1..x3
    BY <1>1, <1>2
  <2> QED BY <2>1
<1>4. x1' = [s \in 1..x3' |-> IF s = x3' THEN "CONNECTING" ELSE x1[s]]
  BY DEF SocketHook!Connect
<1> QED BY <1>2, <1>3, <1>4 DEF SocketHook!States

LEMMA HookTypes ==
    ASSUME SocketHook!TypeOK, [SocketHook!Next]_(SocketHook!vars)
    PROVE  SocketHook!TypeOK'
<1> USE DEF SocketHook!TypeOK
<1>0. x3 \in Nat /\ DOMAIN x1 = 1..x3 /\ x3 \in 0..MaxSockets
  OBVIOUS
<1>1. CASE SocketHook!Mount
  <2>1. SocketHook!Connect /\ x2' = x3' /\ x6' = 0 /\ x4' = TRUE /\ x8' = FALSE /\ x5' = x5 /\ x7' = x7
    BY <1>1 DEF SocketHook!Mount
  <2>2. x3' = x3 + 1 /\ x3' \in 0..MaxSockets /\ x1' \in [1..x3' -> SocketHook!States]
    BY <2>1, ConnectTypes
  <2>3. 1..x3 \subseteq 1..x3' /\ x3' \in 0..x3' /\ 0 \in 0..x3'
    BY <1>0, <2>2
  <2> QED BY <2>1, <2>2, <2>3
<1>2. CASE SocketHook!Unmount
  BY <1>0, <1>2 DEF SocketHook!Unmount, SocketHook!ClearReconnect, SocketHook!States
<1>3. ASSUME NEW s \in DOMAIN x1, SocketHook!OnOpen(s)
      PROVE  SocketHook!TypeOK'
  BY <1>0, <1>3 DEF SocketHook!OnOpen, SocketHook!States
<1>4. ASSUME NEW s \in DOMAIN x1, SocketHook!OnClose(s)
      PROVE  SocketHook!TypeOK'
  <2>1. /\ x2' = x2 /\ x3' = x3 /\ x4' = x4 /\ x1' \in [1..x3 -> SocketHook!States]
    BY <1>0, <1>4 DEF SocketHook!OnClose, SocketHook!States
  <2>2. \/ x8' = FALSE /\ x7' = {} /\ x5' = x5 \union {s} /\ x6' = s
        \/ x8' = x8 /\ x7' = x7 /\ x5' = x5 /\ x6' = x6
    BY <1>4 DEF SocketHook!OnClose
  <2>3. s \in 1..x3 /\ s \in 0..x3
    BY <1>0
  <2> QED BY <2>1, <2>2, <2>3
<1>5. ASSUME NEW s \in DOMAIN x1, SocketHook!Reconnect(s)
      PROVE  SocketHook!TypeOK'
  <2>1. /\ SocketHook!Connect /\ x5' = x5 \ {s} /\ x2' = x2 /\ x4' = x4 /\ x6' = x6 /\ x7' = x7
        /\ x8' = x8
    BY <1>5 DEF SocketHook!Reconnect
  <2>2. x3' = x3 + 1 /\ x3' \in 0..MaxSockets /\ x1' \in [1..x3' -> SocketHook!States]
    BY <2>1, ConnectTypes
  <2>3. 1..x3 \subseteq 1..x3' /\ 0..x3 \subseteq 0..x3'
    BY <1>0, <2>2
  <2> QED BY <2>1, <2>2, <2>3
<1>6. CASE UNCHANGED SocketHook!vars
  BY <1>6 DEF SocketHook!vars
<1> QED BY <1>1, <1>2, <1>3, <1>4, <1>5, <1>6 DEF SocketHook!Next

-----------------------------------------------------------------------------
LEMMA LayoutTyped ==
    TabLayout!LayoutInv /\ x4 \in TabLayout!Pane /\ x7 \in BOOLEAN
      /\ x5 \subseteq [sid : Sessions, wasActive : BOOLEAN] => TabLayout!TypeOK
<1> SUFFICES ASSUME TabLayout!LayoutInv, x4 \in TabLayout!Pane, x7 \in BOOLEAN,
                    x5 \subseteq [sid : Sessions, wasActive : BOOLEAN]
             PROVE  TabLayout!TypeOK
  OBVIOUS
<1>1. PICK n \in Nat : x1 \in [1..n -> x6]
  BY DEF TabLayout!LayoutInv
<1>2. x6 \subseteq Sessions /\ TabLayout!IsInjective(x1) /\ x2 \in Sessions \union {Nothing}
  BY DEF TabLayout!LayoutInv
<1>3. x1 \in Seq(Sessions)
  BY <1>1, <1>2
<1>4. TabLayout!Range(x1) \subseteq x6
  BY <1>1 DEF TabLayout!Range
<1>5. x3 \in TabLayout!Split \union {Nothing}
  BY <1>2 DEF TabLayout!LayoutInv, TabLayout!Split
<1> QED BY <1>2, <1>3, <1>4, <1>5 DEF TabLayout!TypeOK

LEMMA LayoutTypesInit ==
    ASSUME TabLayout!Init, TabLayout!LayoutInv
    PROVE  TabLayout!TypeOK
BY LayoutTyped DEF TabLayout!Init, TabLayout!Pane

LEMMA LayoutTypes ==
    ASSUME TabLayout!TypeOK, TabLayout!LayoutInv', [TabLayout!Next]_(TabLayout!vars)
    PROVE  TabLayout!TypeOK'
<1>1. x4 \in TabLayout!Pane /\ x7 \in BOOLEAN /\ x5 \subseteq [sid : Sessions, wasActive : BOOLEAN]
  BY DEF TabLayout!TypeOK
<1>2. x4' \in TabLayout!Pane
  BY <1>1 DEF TabLayout!Next, TabLayout!vars, TabLayout!Created, TabLayout!CloseNow, TabLayout!CloseBegins,
              TabLayout!Activate, TabLayout!Listed, TabLayout!CloseContinues, TabLayout!Focus,
              TabLayout!HandleSplit, TabLayout!Pane
<1>3. x7' = x7 \/ \E s \in Sessions : x7' = (x7 \/ s \in x6)
  BY DEF TabLayout!Next, TabLayout!vars, TabLayout!Created, TabLayout!CloseNow, TabLayout!CloseBegins,
         TabLayout!Activate, TabLayout!Listed, TabLayout!CloseContinues, TabLayout!Focus,
         TabLayout!HandleSplit
<1>4. x5' = x5 \/ (\E c \in x5 : x5' = x5 \ {c})
        \/ \E s \in Sessions : x5' = x5 \union {[sid |-> s, wasActive |-> x2 = s]}
  BY DEF TabLayout!Next, TabLayout!vars, TabLayout!Created, TabLayout!CloseNow, TabLayout!CloseBegins,
         TabLayout!Activate, TabLayout!Listed, TabLayout!CloseContinues, TabLayout!Focus,
         TabLayout!HandleSplit
<1>5. \A s \in Sessions : [sid |-> s, wasActive |-> x2 = s] \in [sid : Sessions, wasActive : BOOLEAN]
  OBVIOUS
<1>6. x7' \in BOOLEAN
  BY <1>1, <1>3
<1>7. x5' \subseteq [sid : Sessions, wasActive : BOOLEAN]
  <2> DEFINE begun(s) == [sid |-> s, wasActive |-> x2 = s]
             All == [sid : Sessions, wasActive : BOOLEAN]
  <2>1. \A s \in Sessions : begun(s) \in All
    BY <1>5
  <2>2. x5' = x5 \/ (\E c \in x5 : x5' = x5 \ {c}) \/ \E s \in Sessions : x5' = x5 \union {begun(s)}
    BY <1>4
  <2>3. x5 \subseteq All
    BY <1>1
  <2> HIDE DEF begun, All
  <2>4. x5' \subseteq All
    BY <2>1, <2>2, <2>3
  <2> QED BY <2>4 DEF All
<1>8. (TabLayout!LayoutInv /\ x4 \in TabLayout!Pane /\ x7 \in BOOLEAN
         /\ x5 \subseteq [sid : Sessions, wasActive : BOOLEAN])'
  BY <1>2, <1>6, <1>7
<1> QED BY <1>8, LayoutTyped, PTL

-----------------------------------------------------------------------------
LEMMA UploadTypesInit == UploadOverlay!Init => UploadOverlay!TypeOK /\ UploadOverlay!OnlyBegun
<1>1. MaxUploads \in Nat
  BY PartsConstants
<1>2. SUFFICES ASSUME UploadOverlay!Init
               PROVE  UploadOverlay!TypeOK /\ UploadOverlay!OnlyBegun
  OBVIOUS
<1>3. /\ x2 = 0 /\ x3 = 0 /\ x4 = <<>> /\ x5 = <<>> /\ x6 = <<>> /\ x7 = 0 /\ x8 = FALSE
      /\ x9 = {} /\ x10 = {}
  BY <1>2 DEF UploadOverlay!Init
<1>4. x1 \in [id : 0..MaxUploads, status : UploadOverlay!Statuses, chunksSent : BOOLEAN]
  BY <1>1, <1>2 DEF UploadOverlay!Init, UploadOverlay!None, UploadOverlay!Statuses
<1>5. x2 \in 0..MaxUploads /\ x3 \in 0..MaxUploads /\ x7 \in 0..x3 /\ x2 + x3 <= MaxUploads
  BY <1>1, <1>3
<1>6. {x4, x5, x6} \subseteq UploadOverlay!Messages
  BY <1>3 DEF UploadOverlay!Messages
<1>7. {x4, x5, x6} \subseteq Seq([kind : UploadOverlay!Kinds, id : 1..x3])
  BY <1>3
<1> QED BY <1>3, <1>4, <1>5, <1>6, <1>7 DEF UploadOverlay!TypeOK, UploadOverlay!OnlyBegun

LEMMA AgentTypes ==
    ASSUME UploadOverlay!TypeOK, UploadOverlay!OnlyBegun, UploadOverlay!AgentReceives
    PROVE  /\ x7' \in 0..x3 /\ x8' \in BOOLEAN
           /\ {x5', x6'} \subseteq Seq([kind : UploadOverlay!Kinds, id : 1..x3])
           /\ x9' \union x10' \subseteq 1..x3
<1> DEFINE m == Head(x5)
           All == [kind : UploadOverlay!Kinds, id : 1..x3]
<1>0. x5 \in Seq(All) /\ x6 \in Seq(All) /\ x9 \union x10 \subseteq 1..x3 /\ x7 \in 0..x3 /\ x8 \in BOOLEAN
  BY DEF UploadOverlay!TypeOK, UploadOverlay!OnlyBegun
<1>1. x5 # <<>> /\ x5' = Tail(x5)
  BY DEF UploadOverlay!AgentReceives
<1>2. m \in All /\ x5' \in Seq(All)
  <2> HIDE DEF All
  <2> QED BY <1>0, <1>1
<1>3. m.id \in 1..x3 /\ m.id \in 0..x3 /\ 0 \in 0..x3
  BY <1>2 DEF UploadOverlay!TypeOK
<1>4. x7' \in {0, x7, m.id} /\ x8' \in BOOLEAN
  BY <1>0 DEF UploadOverlay!AgentReceives
<1>5. x9' \subseteq x9 \union {m.id} /\ x10' \subseteq x10 \union {m.id}
  BY DEF UploadOverlay!AgentReceives
<1>6. x6' \in {x6, Append(x6, UploadOverlay!Msg("refused", m.id)),
               Append(x6, UploadOverlay!Msg("complete", m.id))}
  BY DEF UploadOverlay!AgentReceives
<1>7. UploadOverlay!Msg("refused", m.id) \in All /\ UploadOverlay!Msg("complete", m.id) \in All
  BY <1>3 DEF UploadOverlay!Msg, UploadOverlay!Kinds
<1>8. x6' \in Seq(All)
  <2> DEFINE add(e) == Append(x6, e)
  <2>1. x6' \in {x6, add(UploadOverlay!Msg("refused", m.id)), add(UploadOverlay!Msg("complete", m.id))}
    BY <1>6
  <2>2. \A e \in All : add(e) \in Seq(All)
    <3> HIDE DEF All
    <3> QED BY <1>0
  <2>3. x6 \in Seq(All)
    BY <1>0
  <2> HIDE DEF All, m, add
  <2> QED BY <1>7, <2>1, <2>2, <2>3
<1> QED BY <1>0, <1>2, <1>3, <1>4, <1>5, <1>8

LEMMA UploadTypes ==
    ASSUME UploadOverlay!TypeOK, UploadOverlay!OnlyBegun, [UploadOverlay!Next]_(UploadOverlay!vars)
    PROVE  (UploadOverlay!TypeOK /\ UploadOverlay!OnlyBegun)'
<1> DEFINE All(n) == [kind : UploadOverlay!Kinds, id : 1..n]
           State(n) == [id : 0..n, status : UploadOverlay!Statuses, chunksSent : BOOLEAN]
<1>0. /\ MaxUploads \in Nat /\ x2 \in 0..MaxUploads /\ x3 \in 0..MaxUploads /\ x7 \in 0..x3
      /\ x2 + x3 <= MaxUploads
      /\ x9 \union x10 \subseteq 1..x3 /\ x8 \in BOOLEAN
  BY PartsConstants DEF UploadOverlay!TypeOK, UploadOverlay!OnlyBegun
<1>1. x4 \in Seq(All(x3)) /\ x5 \in Seq(All(x3)) /\ x6 \in Seq(All(x3)) /\ x1 \in State(MaxUploads)
  BY DEF UploadOverlay!TypeOK, UploadOverlay!OnlyBegun
<1>2. SUFFICES /\ x2' \in 0..MaxUploads /\ x3' \in 0..MaxUploads /\ x7' \in 0..x3'
               /\ x2' + x3' <= MaxUploads
               /\ x9' \union x10' \subseteq 1..x3' /\ x8' \in BOOLEAN
               /\ x4' \in Seq(All(x3')) /\ x5' \in Seq(All(x3')) /\ x6' \in Seq(All(x3'))
               /\ x1' \in State(MaxUploads)
  <2>1. ASSUME x3' \in 0..MaxUploads
        PROVE  All(x3') \subseteq [kind : UploadOverlay!Kinds, id : UploadOverlay!Ids]
               /\ 1..x3' \subseteq UploadOverlay!Ids
    BY <1>0, <2>1 DEF UploadOverlay!Ids
  <2>2. {x4', x5', x6'} \subseteq Seq([kind : UploadOverlay!Kinds, id : UploadOverlay!Ids])
    <3> DEFINE Every == [kind : UploadOverlay!Kinds, id : UploadOverlay!Ids]
    <3>1. All(x3') \subseteq Every
      BY <1>2, <2>1
    <3>2. x4' \in Seq(All(x3')) /\ x5' \in Seq(All(x3')) /\ x6' \in Seq(All(x3'))
      BY <1>2
    <3> HIDE DEF All, Every
    <3>3. {x4', x5', x6'} \subseteq Seq(Every)
      BY <3>1, <3>2, SeqOfMore
    <3> QED BY <3>3 DEF Every
  <2>3. UploadOverlay!TypeOK'
    BY <1>2, <2>1, <2>2 DEF UploadOverlay!TypeOK, UploadOverlay!Messages
  <2> QED BY <1>2, <2>3 DEF UploadOverlay!OnlyBegun
<1>3. \A t \in Nat, status \in UploadOverlay!Statuses :
        UploadOverlay!SetStatus(t, status) => x1' \in State(MaxUploads)
  BY <1>1 DEF UploadOverlay!SetStatus
<1>4. CASE UploadOverlay!Start
  <2>1. x1' \in State(MaxUploads)
    <3>1. x1' = x1 \/ x1' = [UploadOverlay!None EXCEPT !.status = "error"]
      BY <1>4 DEF UploadOverlay!Start, UploadOverlay!Paste, UploadOverlay!Drop,
         UploadOverlay!Begin, UploadOverlay!TooLarge
    <3>2. [UploadOverlay!None EXCEPT !.status = "error"] \in State(MaxUploads)
      <4>1. UploadOverlay!None \in State(MaxUploads)
        BY <1>0 DEF UploadOverlay!None, UploadOverlay!Statuses
      <4>2. \A u \in State(MaxUploads) : [u EXCEPT !.status = "error"] \in State(MaxUploads)
        BY DEF UploadOverlay!Statuses
      <4> QED BY <4>1, <4>2
    <3> QED BY <1>1, <3>1, <3>2
  <2>2. x2' = x2 \/ (x2' = x2 + 1 /\ x2 + x3 < MaxUploads)
    BY <1>4 DEF UploadOverlay!Start, UploadOverlay!Paste, UploadOverlay!Drop,
       UploadOverlay!Begin, UploadOverlay!TooLarge
  <2>3. UNCHANGED <<x3, x4, x5, x6, x7, x8, x9, x10>>
    BY <1>4 DEF UploadOverlay!Start, UploadOverlay!agentVars
  <2>4. x2' \in 0..MaxUploads /\ x2' + x3' <= MaxUploads
    BY <1>0, <2>2, <2>3
  <2> QED BY <1>0, <1>1, <2>1, <2>3, <2>4
<1>5. CASE UploadOverlay!ImageRead
  <2>1. /\ x2 > 0 /\ x2' = x2 - 1 /\ x3' = x3 + 1
        /\ x1' = [id |-> x3', status |-> "sending", chunksSent |-> FALSE]
        /\ x4' = x4 \o UploadOverlay!Transfer(x3') /\ UNCHANGED <<x5, x6, x7, x8, x9, x10>>
    BY <1>5 DEF UploadOverlay!ImageRead, UploadOverlay!agentVars
  <2>2. /\ x2' \in 0..MaxUploads /\ x3' \in 0..MaxUploads /\ x2' + x3' <= MaxUploads
        /\ x3' \in 1..x3' /\ 1..x3 \subseteq 1..x3' /\ 0..x3 \subseteq 0..x3'
    BY <1>0, <2>1
  <2>3. x1' \in State(MaxUploads)
    BY <2>1, <2>2 DEF UploadOverlay!Statuses
  <2>4. All(x3) \subseteq All(x3')
    BY <2>2
  <2>5. UploadOverlay!Transfer(x3') \in Seq(All(x3'))
    <3>1. \A k \in UploadOverlay!Kinds : UploadOverlay!Msg(k, x3') \in All(x3')
      BY <2>2 DEF UploadOverlay!Msg
    <3>2. {"start", "chunk", "end", "mark"} \subseteq UploadOverlay!Kinds
      BY DEF UploadOverlay!Kinds
    <3> HIDE DEF All
    <3> QED BY <3>1, <3>2 DEF UploadOverlay!Transfer
  <2>6. x4 \in Seq(All(x3')) /\ x5 \in Seq(All(x3')) /\ x6 \in Seq(All(x3'))
    <3> HIDE DEF All
    <3> QED BY <1>1, <2>4, SeqOfMore
  <2>7. x4' \in Seq(All(x3'))
    <3> HIDE DEF All
    <3> QED BY <2>1, <2>5, <2>6
  <2>8. x7' \in 0..x3' /\ x9' \union x10' \subseteq 1..x3' /\ x8' \in BOOLEAN
    BY <1>0, <2>1, <2>2
  <2>9. x5' \in Seq(All(x3')) /\ x6' \in Seq(All(x3'))
    BY <2>1, <2>6
  <2> QED BY <2>2, <2>3, <2>7, <2>8, <2>9
<1>6. CASE UploadOverlay!SendNext
  <2>1. x4 # <<>> /\ x4' = Tail(x4) /\ UNCHANGED <<x2, x3, x6, x7, x8, x9, x10>>
    BY <1>6 DEF UploadOverlay!SendNext, UploadOverlay!agentVars
  <2>2. Head(x4) \in All(x3) /\ x4' \in Seq(All(x3))
    <3> HIDE DEF All
    <3> QED BY <1>1, <2>1
  <2>3. Head(x4).id \in 1..x3 /\ Head(x4).id \in Nat
    BY <1>0, <2>2
  <2>4. UploadOverlay!Msg("lost", Head(x4).id) \in All(x3)
    BY <2>3 DEF UploadOverlay!Msg, UploadOverlay!Kinds
  <2>5. x5' \in {x5, Append(x5, Head(x4)), Append(x5, UploadOverlay!Msg("lost", Head(x4).id))}
    BY <1>6 DEF UploadOverlay!SendNext
  <2>6. x5' \in Seq(All(x3))
    <3> DEFINE add(e) == Append(x5, e)
    <3>1. x5' \in {x5, add(Head(x4)), add(UploadOverlay!Msg("lost", Head(x4).id))}
      BY <2>5
    <3>2. \A e \in All(x3) : add(e) \in Seq(All(x3))
      <4> HIDE DEF All
      <4> QED BY <1>1
    <3>3. x5 \in Seq(All(x3)) /\ Head(x4) \in All(x3)
      BY <1>1, <2>2
    <3> HIDE DEF All, add
    <3> QED BY <2>4, <3>1, <3>2, <3>3
  <2>7. x1' \in State(MaxUploads)
    BY <1>1, <1>3, <1>6, <2>3 DEF UploadOverlay!SendNext, UploadOverlay!Statuses
  <2> QED BY <1>0, <1>1, <2>1, <2>2, <2>6, <2>7
<1>7. CASE UploadOverlay!AgentReceives
  <2>1. UNCHANGED <<x1, x2, x3, x4>>
    BY <1>7 DEF UploadOverlay!AgentReceives
  <2> QED BY <1>0, <1>1, <1>7, <2>1, AgentTypes
<1>8. CASE UploadOverlay!Lost
  <2>1. x5' = <<>> /\ x6' = <<>> /\ x8' = TRUE /\ UNCHANGED <<x1, x2, x3, x4, x7, x9, x10>>
    BY <1>8 DEF UploadOverlay!Lost
  <2> QED BY <1>0, <1>1, <2>1
<1>9. CASE UploadOverlay!Answered
  <2>1. x6 # <<>> /\ x6' = Tail(x6) /\ UNCHANGED <<x2, x3, x4, x5, x7, x8, x9, x10>>
    BY <1>9 DEF UploadOverlay!Answered, UploadOverlay!agentVars
  <2>2. Head(x6) \in All(x3) /\ x6' \in Seq(All(x3))
    <3> HIDE DEF All
    <3> QED BY <1>1, <2>1
  <2>3. Head(x6).id \in Nat
    BY <1>0, <2>2
  <2>4. x1' \in State(MaxUploads)
    BY <1>3, <1>9, <2>3 DEF UploadOverlay!Answered, UploadOverlay!Statuses
  <2> QED BY <1>0, <1>1, <2>1, <2>2, <2>4
<1>10. CASE UploadOverlay!Dismiss
  <2>1. x1' = UploadOverlay!None /\ UNCHANGED <<x2, x3, x4, x5, x6, x7, x8, x9, x10>>
    BY <1>10 DEF UploadOverlay!Dismiss, UploadOverlay!agentVars
  <2>2. x1' \in State(MaxUploads)
    BY <1>0, <2>1 DEF UploadOverlay!None, UploadOverlay!Statuses
  <2> QED BY <1>0, <1>1, <2>1, <2>2
<1>11. CASE UNCHANGED UploadOverlay!vars
  BY <1>0, <1>1, <1>11 DEF UploadOverlay!vars
<1> QED BY <1>4, <1>5, <1>6, <1>7, <1>8, <1>9, <1>10, <1>11 DEF UploadOverlay!Next

-----------------------------------------------------------------------------
(***************************************************************************)
(* A step of the whole is a step of the part it is about                   *)
(***************************************************************************)

LEMMA PartStep ==
    ASSUME [Next]_vars
    PROVE  /\ part' = part
           /\ part = "Accounts" => [Accounts!Next]_(Accounts!vars)
           /\ part = "AgentsPage" => [AgentsPage!Next]_(AgentsPage!vars)
           /\ part = "AppShell" => [AppShell!Next]_(AppShell!vars)
           /\ part = "AuditLog" => [AuditLog!Next]_(AuditLog!vars)
           /\ part = "CommandPalette" => [CommandPalette!Next]_(CommandPalette!vars)
           /\ part = "KnownAgents" => [KnownAgents!Next]_(KnownAgents!vars)
           /\ part = "PingLoop" => [PingLoop!Next]_(PingLoop!vars)
           /\ part = "Preferences" => [Preferences!Next]_(Preferences!vars)
           /\ part = "ProgressBar" => [ProgressBar!Next]_(ProgressBar!vars)
           /\ part = "RateLimit" => [RateLimit!Next]_(RateLimit!vars)
           /\ part = "SocketHook" => [SocketHook!Next]_(SocketHook!vars)
           /\ part = "TabLayout" => [TabLayout!Next]_(TabLayout!vars)
           /\ part = "UploadOverlay" => [UploadOverlay!Next]_(UploadOverlay!vars)
<1>1. CASE UNCHANGED vars
  BY <1>1 DEF vars, Accounts!vars, AgentsPage!vars, AppShell!vars, AuditLog!vars,
     AuditLog!page, CommandPalette!vars,
     KnownAgents!vars, PingLoop!vars, Preferences!vars, ProgressBar!vars, RateLimit!vars,
     SocketHook!vars, TabLayout!vars, UploadOverlay!vars
<1>2. CASE Next
  BY <1>2 DEF Next
<1> QED BY <1>1, <1>2

-----------------------------------------------------------------------------
(***************************************************************************)
(* The invariant: that of the part                                         *)
(***************************************************************************)

PartsInv ==
    /\ part = "Accounts" => Accounts!AccountsInv
    /\ part = "AgentsPage" => AgentsPage!PageInv
    /\ part = "AppShell" => AppShell!AppShellInv
    /\ part = "AuditLog" => AuditLog!LogInv
    /\ part = "CommandPalette" => CommandPalette!PaletteInv
    /\ part = "PingLoop" => PingLoop!PingInv
    /\ part = "Preferences" => Preferences!PreferencesInv
    /\ part = "ProgressBar" => ProgressBar!ProgressInv
    /\ part = "RateLimit" => RateLimit!LimitInv
    /\ part = "SocketHook" => SocketHook!HookInv
    /\ part = "TabLayout" => TabLayout!LayoutInv
    /\ part = "UploadOverlay" => UploadOverlay!UploadInv

LEMMA PartsInit == Init => PartsInv
BY Accounts!AccountsInit, PageInit, AppShellInit, AuditLog!LogInit, PingInit, PreferencesInit,
   ProgressBar!ProgressInit,
   LimitInit, HookInit, LayoutInit, UploadInit, PaletteInit, PartsConstants
   DEF Init, PartsInv, AuditLog!AuditConstants

LEMMA PartsNext == PartsInv /\ [Next]_vars => PartsInv'
<1> SUFFICES ASSUME PartsInv, [Next]_vars PROVE PartsInv'
  OBVIOUS
<1>1. part' = "Accounts" => Accounts!AccountsInv'
  BY PartStep, Accounts!AccountsNext DEF PartsInv
<1>2. part' = "AppShell" => AppShell!AppShellInv'
  BY PartStep, AppShellNext DEF PartsInv
<1>3. part' = "PingLoop" => PingLoop!PingInv'
  BY PartStep, PingNext DEF PartsInv
<1>4. part' = "Preferences" => Preferences!PreferencesInv'
  BY PartStep, PreferencesNext DEF PartsInv
<1>5. part' = "SocketHook" => SocketHook!HookInv'
  BY PartStep, HookNext DEF PartsInv
<1>6. part' = "AgentsPage" => AgentsPage!PageInv'
  BY PartStep, PageNext DEF PartsInv
<1>7. part' = "UploadOverlay" => UploadOverlay!UploadInv'
  BY PartStep, UploadNext DEF PartsInv
<1>8. part' = "RateLimit" => RateLimit!LimitInv'
  BY PartStep, LimitNext DEF PartsInv
<1>9. part' = "TabLayout" => TabLayout!LayoutInv'
  BY PartStep, LayoutNext DEF PartsInv
<1>10. part' = "AuditLog" => AuditLog!LogInv'
  BY PartStep, AuditLog!LogNext, PartsConstants DEF AuditLog!AuditConstants, PartsInv
<1>11. part' = "CommandPalette" => CommandPalette!PaletteInv'
  BY PartStep, PaletteNext, PartsConstants DEF PartsInv
<1>12. part' = "ProgressBar" => ProgressBar!ProgressInv'
  BY PartStep, ProgressBar!ProgressNext, PartsConstants DEF PartsInv
<1> QED BY <1>1, <1>2, <1>3, <1>4, <1>5, <1>6, <1>7, <1>8, <1>9, <1>10, <1>11, <1>12 DEF PartsInv

\* The types of the part, and what else they take, unless its invariant holds them
PartsTyped ==
    /\ part = "Accounts" => Accounts!AccountsTyped
    /\ part = "AgentsPage" => AgentsPage!TypeOK
    /\ part = "AppShell" => AppShell!TypeOK
    /\ part = "AuditLog" => AuditLog!LogBounded
    /\ part = "CommandPalette" => CommandPalette!TypeOK
    /\ part = "KnownAgents" => KnownAgents!TypeOK
    /\ part = "Preferences" => Preferences!TypeOK
    /\ part = "RateLimit" => RateLimit!TypeOK
    /\ part = "SocketHook" => SocketHook!TypeOK
    /\ part = "TabLayout" => TabLayout!TypeOK
    /\ part = "UploadOverlay" => UploadOverlay!TypeOK /\ UploadOverlay!OnlyBegun

LEMMA TypesConstants == Accounts!AccountsConstants /\ AuditLog!AuditConstants
<1>1. PICK n : n = Cardinality(Names)
  OBVIOUS
<1>2. n \in Nat /\ n <= MaxAccounts /\ MaxAccounts \in Nat
  BY <1>1, PartsConstants, FS_CardinalityType
<1>3. Accounts!Cardinality(Names) = n
  BY <1>1 DEF Accounts!Cardinality, Cardinality
<1>4. n \in 0..MaxAccounts
  BY <1>2
<1>5. Accounts!AccountsConstants
  BY <1>3, <1>4, PartsConstants DEF Accounts!AccountsConstants
<1> QED BY <1>5, PartsConstants DEF AuditLog!AuditConstants

LEMMA PartsTypesInit == Init => PartsTyped
<1> SUFFICES ASSUME Init PROVE PartsTyped
  OBVIOUS
<1>1. part = "Accounts" => Accounts!AccountsTyped
  BY TypesConstants, Accounts!AccountsTypesInit DEF Init
<1>2. part = "AuditLog" => AuditLog!LogBounded
  BY TypesConstants, AuditLog!LogTypesInit DEF Init
<1>3. part = "TabLayout" => TabLayout!TypeOK
  BY LayoutInit, LayoutTypesInit DEF Init
<1>4. part = "UploadOverlay" => UploadOverlay!TypeOK /\ UploadOverlay!OnlyBegun
  BY UploadTypesInit DEF Init
<1>5. /\ part = "AgentsPage" => AgentsPage!TypeOK
      /\ part = "AppShell" => AppShell!TypeOK
      /\ part = "CommandPalette" => CommandPalette!TypeOK
      /\ part = "KnownAgents" => KnownAgents!TypeOK
  BY PageTypesInit, ShellInitTypes, PaletteTypesInit, KnownInit DEF Init
<1>6. /\ part = "Preferences" => Preferences!TypeOK
      /\ part = "RateLimit" => RateLimit!TypeOK
      /\ part = "SocketHook" => SocketHook!TypeOK
  BY PreferencesTypesInit, LimitTypesInit, HookTypesInit DEF Init
<1> QED BY <1>1, <1>2, <1>3, <1>4, <1>5, <1>6 DEF PartsTyped

LEMMA PartsTypesNext == PartsInv /\ PartsTyped /\ [Next]_vars => PartsTyped'
<1> SUFFICES ASSUME PartsInv, PartsTyped, [Next]_vars PROVE PartsTyped'
  OBVIOUS
<1>1. part' = "Accounts" => Accounts!AccountsTyped'
  BY PartStep, TypesConstants, Accounts!AccountsTypes DEF PartsTyped
<1>2. part' = "AgentsPage" => AgentsPage!TypeOK'
  BY PartStep, PageTypes DEF PartsTyped
<1>3. part' = "AppShell" => AppShell!TypeOK'
  BY PartStep, ShellTypes DEF PartsTyped
<1>4. part' = "AuditLog" => AuditLog!LogBounded'
  BY PartStep, TypesConstants, AuditLog!LogTypes DEF PartsTyped
<1>5. part' = "CommandPalette" => CommandPalette!TypeOK'
  BY PartStep, PaletteTypes DEF PartsTyped
<1>6. part' = "KnownAgents" => KnownAgents!TypeOK'
  BY PartStep, KnownTypes DEF PartsTyped
<1>8. part' = "Preferences" => Preferences!TypeOK'
  BY PartStep, PreferencesTypes DEF PartsTyped
<1>9. part' = "RateLimit" => RateLimit!TypeOK'
  BY PartStep, LimitTypes DEF PartsTyped
<1>10. part' = "SocketHook" => SocketHook!TypeOK'
  BY PartStep, HookTypes DEF PartsTyped
<1>11. part' = "TabLayout" => TabLayout!TypeOK'
  <2> SUFFICES ASSUME part' = "TabLayout" PROVE TabLayout!TypeOK'
    OBVIOUS
  <2>1. PartsInv'
    BY PartsNext
  <2>2. TabLayout!LayoutInv'
    BY <2>1 DEF PartsInv
  <2>3. TabLayout!TypeOK /\ [TabLayout!Next]_(TabLayout!vars)
    BY PartStep DEF PartsTyped
  <2> QED BY <2>2, <2>3, LayoutTypes
<1>12. part' = "UploadOverlay" => UploadOverlay!TypeOK' /\ UploadOverlay!OnlyBegun'
  BY PartStep, UploadTypes DEF PartsTyped
<1> QED BY <1>1, <1>2, <1>3, <1>4, <1>5, <1>6, <1>8, <1>9, <1>10, <1>11, <1>12 DEF PartsTyped

-----------------------------------------------------------------------------
(***************************************************************************)
(* The properties of the parts                                             *)
(***************************************************************************)

\* Every part keeps its types, and the bounds of its counters: the rows, calls,
\* messages and lists that its handlers make are those that they take.
THEOREM PartsTypeCorrect == Spec => []TypeOK
<1>1. PartsInv /\ PartsTyped => TypeOK
  BY DEF PartsInv, PartsTyped, TypeOK, Accounts!AccountsTyped, AuditLog!LogBounded,
     ProgressBar!ProgressInv, PingLoop!PingInv
<1> QED BY <1>1, PartsInit, PartsNext, PartsTypesInit, PartsTypesNext, PTL DEF Spec

\* There is an admin from the setup on, and there is one setup: two admins cannot
\* delete each other, and no two browsers set the relay up.
THEOREM PartsAdmin == Spec => []AdminSinceSetup
<1>1. PartsInv => AdminSinceSetup
  BY DEF PartsInv, Accounts!AccountsInv, AdminSinceSetup
<1> QED BY <1>1, PartsInit, PartsNext, PTL DEF Spec

\* A row of users is changed by a call of an account that is an admin when the
\* relay serves it, whatever became of that account and its name meanwhile.
THEOREM PartsChanges == Spec => OnlyAdminsChangeUsers
<1>1. PartsInv /\ [Next]_vars => [part = "Accounts" => Accounts!UsersChangedByAdmin]_vars
  <2> SUFFICES ASSUME PartsInv, [Next]_vars, vars' # vars, part = "Accounts"
               PROVE  Accounts!UsersChangedByAdmin
    OBVIOUS
  <2>1. [Accounts!UsersChangedByAdmin]_(Accounts!vars)
    BY PartStep, PartsConstants, Accounts!ChangeStep DEF PartsInv
  <2>2. UNCHANGED Accounts!vars => vars' = vars
    BY DEF Next, vars, Accounts!vars, After6, After7, After8, After10
  <2> QED BY <2>1, <2>2
<1> QED BY <1>1, PartsInit, PartsNext, PTL DEF Spec, OnlyAdminsChangeUsers

\* The latency that the relay knows is that of the ping of this tick or of the one
\* before.  A browser with no message to come shows it and no other, one that has
\* ended included, unless it was not told of the last change or has put an older
\* list over it (useAgentStore.ts:54).
THEOREM PartsLatency == Spec => []LatencyIsFresh
<1>1. PartsInv => LatencyIsFresh
  BY PingSafe DEF PartsInv, LatencyIsFresh
<1> QED BY <1>1, PartsInit, PartsNext, PTL DEF Spec

\* The progress that is shown is that of the last well-formed sequence of what was
\* read (parseOsc9_4.ts), however long the output and its numbers, and a bar that is
\* shown will hide.
THEOREM PartsProgress == Spec => []ProgressIsTrue
<1>1. PartsInv => ProgressIsTrue
  BY ProgressBar!ProgressSafe, PartsConstants DEF PartsInv, ProgressIsTrue
<1> QED BY <1>1, PartsInit, PartsNext, PTL DEF Spec

\* While the app is shown there is one socket alive or one to come, and none
\* otherwise; what the app is told, and the ping loop, are those of that socket.
THEOREM PartsSocket == Spec => []OneSocket
<1>1. PartsInv => OneSocket
  BY HookSafe DEF PartsInv, OneSocket
<1> QED BY <1>1, PartsInit, PartsNext, PTL DEF Spec

\* The relay holds what the user saw after the last choice, unless its request was
\* lost or overtaken or the font was reset last.
THEOREM PartsChoices == Spec => []ChoicesAreKept
<1>1. PartsInv => ChoicesAreKept
  BY DEF PartsInv, Preferences!PreferencesInv, ChoicesAreKept
<1> QED BY <1>1, PartsInit, PartsNext, PTL DEF Spec

\* A pinned key changes only when the user accepts another for that agent, or when
\* a check writes back a store that it loaded before the last change.
THEOREM PartsPins == Spec => KeysAreKept
<1>1. [Next]_vars => [part = "KnownAgents" => KnownAgents!PinsChangeForCause]_vars
  BY PartStep, PinsStep
<1> QED BY <1>1, PTL DEF Spec, KeysAreKept

\* A split view shows no terminal on both sides and has its tabs apart, whatever is
\* created, listed, closed and activated, unless pty.created comes late.
THEOREM PartsPanes == Spec => []PanesApart
<1>1. PartsInv => PanesApart
  BY DEF PartsInv, TabLayout!LayoutInv, PanesApart
<1> QED BY <1>1, PartsInit, PartsNext, PTL DEF Spec

\* One page, notice or terminal fills the window, whatever machines come and go
\* and whichever is selected.
THEOREM PartsContent == Spec => []OneContentShown
<1>1. PartsInv => OneContentShown
  BY AppShellSafe DEF PartsInv, OneContentShown
<1> QED BY <1>1, PartsInit, PartsNext, PTL DEF Spec

\* What the overlay says of an image is what became of it, whatever is pasted,
\* dropped, refused or lost meanwhile.
THEOREM PartsOverlay == Spec => []OverlayIsTrue
<1>1. PartsInv => OverlayIsTrue
  BY UploadSafe DEF PartsInv, OverlayIsTrue
<1> QED BY <1>1, PartsInit, PartsNext, PTL DEF Spec

\* What the page shows last is what the relay has, and the key shown is the one
\* that signs, in whatever order polls and resets are answered.
THEOREM PartsFresh == Spec => []ShownIsFresh
<1>1. PartsInv => ShownIsFresh
  BY PageSafe DEF PartsInv, ShownIsFresh
<1> QED BY <1>1, PartsInit, PartsNext, PTL DEF Spec

\* No span of a window's length lets more than two windows' requests of a client
\* through, however its requests, the clock and the sweep are ordered.
THEOREM PartsRate == Spec => []RateIsLimited
<1>1. PartsInv => RateIsLimited
  BY LimitSafe DEF PartsInv, RateIsLimited
<1> QED BY <1>1, PartsInit, PartsNext, PTL DEF Spec

\* A page of the audit log has no row missing and none of somebody else, whatever
\* page is asked for and however the log grows meanwhile.
THEOREM PartsAudit == Spec => []ShownRowsAreConsecutive
<1>1. PartsInv => ShownRowsAreConsecutive
  BY DEF PartsInv, ShownRowsAreConsecutive, AuditLog!LogInv, AuditLog!ShownRowsAreConsecutive
<1> QED BY <1>1, PartsInit, PartsNext, PTL DEF Spec

\* Enter runs the row that is highlighted (CommandPalette.tsx:80-121): whichever group
\* leads, the rows are then the very list that Enter counts through.
THEOREM PartsPalette == Spec => []EnterRunsHighlighted
<1>1. PartsInv => EnterRunsHighlighted
  BY PaletteSafe, PartsConstants DEF PartsInv, EnterRunsHighlighted
<1> QED BY <1>1, PartsInit, PartsNext, PTL DEF Spec
=============================================================================
