--------------------------- MODULE TerminalsProofs ---------------------------
(***************************************************************************)
(* Proofs about Terminals, for any number of requests, fetches and faults. *)
(***************************************************************************)
EXTENDS Terminals, SequenceTheorems, FiniteSetTheorems, WellFoundedInduction, TLAPS

\* A message that tells of a session names the request the session was made for
Types == {"pty.created", "pty.exited", "pty.create.error", "agent.online", "agent.offline"}
TrueMessage ==
    {m \in [type : Types, sid : Nat \union {Nothing}, req : Nat \union {Nothing}] :
        m.type = "pty.created" => m.sid \in DOMAIN made /\ m.req = made[m.sid]}

RelayPart ==
    /\ made \in Seq(Nat) /\ up \in Seq(Nat) /\ asked \in Seq(DOMAIN made)
    /\ live \subseteq Nat
    /\ down \in Seq(TrueMessage)
BrowserPart ==
    /\ requested \in Nat
    /\ DOMAIN paired \subseteq DOMAIN made
    /\ KeysMatch
TerminalsInv == RelayPart /\ BrowserPart

LEMMA TerminalsInit == Init => TerminalsInv
<1> SUFFICES ASSUME Init PROVE TerminalsInv
  OBVIOUS
<1>1. RelayPart
  BY DEF Init, RelayPart
<1>2. BrowserPart
  BY DEF Init, BrowserPart, KeysMatch
<1> QED BY <1>1, <1>2 DEF TerminalsInv

LEMMA SeqOfMore ==
    ASSUME NEW S, NEW T, S \subseteq T, NEW q \in Seq(S)
    PROVE  q \in Seq(T)
<1>1. q \in [1..Len(q) -> S] /\ Len(q) \in Nat
  OBVIOUS
<1>2. q \in [1..Len(q) -> T]
  BY <1>1
<1> QED BY <1>1, <1>2

-----------------------------------------------------------------------------
\* The queues: what is told, taken or lost leaves them true

LEMMA TellStep ==
    ASSUME RelayPart, UNCHANGED made, NEW type \in Types,
           NEW sid \in Nat \union {Nothing}, NEW req \in Nat \union {Nothing},
           type = "pty.created" => sid \in DOMAIN made /\ req = made[sid],
           Tell(type, sid, req)
    PROVE  (down \in Seq(TrueMessage))'
<1>1. PICK m : m = [type |-> type, sid |-> sid, req |-> req]
  OBVIOUS
<1>2. m \in TrueMessage
  BY <1>1 DEF TrueMessage
<1>3. down' = Append(down, m) \/ down' = down
  BY <1>1 DEF Tell
<1>4. TrueMessage' = TrueMessage
  BY DEF TrueMessage
<1>5. PICK M : M = TrueMessage
  OBVIOUS
<1>6. m \in M /\ down \in Seq(M)
  BY <1>2, <1>5 DEF RelayPart
<1>7. down' \in Seq(M)
  BY <1>3, <1>6
<1> QED BY <1>4, <1>5, <1>7

\* A session is numbered: what was true of the ones before stays so
LEMMA MadeStep ==
    ASSUME RelayPart, NEW r \in Nat, made' = Append(made, r)
    PROVE  /\ made' \in Seq(Nat) /\ Len(made') \in DOMAIN made'
           /\ DOMAIN made \subseteq DOMAIN made'
           /\ \A s \in DOMAIN made : made'[s] = made[s]
           /\ asked \in Seq(DOMAIN made')
           /\ down \in Seq(TrueMessage')
<1>1. /\ made' \in Seq(Nat) /\ Len(made') \in DOMAIN made'
      /\ DOMAIN made \subseteq DOMAIN made'
      /\ \A s \in DOMAIN made : made'[s] = made[s]
  BY DEF RelayPart
<1>2. TrueMessage \subseteq TrueMessage'
  BY <1>1 DEF TrueMessage
<1>3. asked \in Seq(DOMAIN made') /\ down \in Seq(TrueMessage')
  BY <1>1, <1>2, SeqOfMore DEF RelayPart
<1> QED BY <1>1, <1>3

LEMMA RelayStep ==
    ASSUME TerminalsInv, Relay
    PROVE  TerminalsInv'
<1> USE DEF TerminalsInv
<1>0. UNCHANGED <<requested, paired>>
  BY DEF Relay, RelayCreates, AgentAnswers, AgentExits, AgentComesOnline, AgentGoesOffline,
         AgentDeleted, ConnectionDrops, Connect, ServeList, FetchFails, browser
<1>1. CASE RelayCreates
  <2>1. up' = Tail(up) /\ up' \in Seq(Nat) /\ Head(up) \in Nat
    BY <1>1 DEF RelayCreates, RelayPart
  <2>2. CASE /\ made' = Append(made, Head(up)) /\ asked' = Append(asked, Len(made'))
             /\ live' = live \union {Len(made')} /\ UNCHANGED down
    <3>1. /\ made' \in Seq(Nat) /\ Len(made') \in DOMAIN made'
          /\ DOMAIN made \subseteq DOMAIN made'
          /\ \A s \in DOMAIN made : made'[s] = made[s]
          /\ asked \in Seq(DOMAIN made') /\ down \in Seq(TrueMessage')
      BY <2>1, <2>2, MadeStep
    <3>2. asked' \in Seq(DOMAIN made')
      <4>1. PICK D, n : D = DOMAIN made' /\ n = Len(made')
        OBVIOUS
      <4>2. n \in D /\ asked \in Seq(D) /\ asked' = Append(asked, n)
        BY <2>2, <3>1, <4>1
      <4>3. asked' \in Seq(D)
        BY <4>2
      <4> QED BY <4>1, <4>3
    <3>3. live' \subseteq Nat
      <4>1. PICK n : n = Len(made')
        OBVIOUS
      <4>2. n \in Nat /\ live' = live \union {n}
        BY <2>2, <3>1, <4>1
      <4> QED BY <4>2 DEF RelayPart
    <3>4. RelayPart'
      BY <2>1, <2>2, <3>1, <3>2, <3>3 DEF RelayPart
    <3>5. BrowserPart'
      BY <1>0, <3>1 DEF BrowserPart, KeysMatch
    <3> QED BY <3>4, <3>5
  <2>3. CASE Tell("pty.create.error", Nothing, Head(up)) /\ UNCHANGED <<made, asked, live>>
    <3>1. (down \in Seq(TrueMessage))'
      BY <2>1, <2>3, TellStep DEF Types
    <3> QED BY <1>0, <2>1, <2>3, <3>1 DEF RelayPart, BrowserPart, KeysMatch
  <2> QED BY <1>1, <2>2, <2>3 DEF RelayCreates
<1>2. CASE AgentAnswers
  <2>1. PICK s : s = Head(asked)
    OBVIOUS
  <2>2. s \in DOMAIN made /\ s \in Nat /\ made[s] \in Nat /\ asked' = Tail(asked)
    BY <1>2, <2>1 DEF AgentAnswers, RelayPart
  <2>3. UNCHANGED <<made, up>> /\ asked' \in Seq(DOMAIN made)
    BY <1>2, <2>2 DEF AgentAnswers, RelayPart
  <2>4. live' \subseteq Nat
    BY <1>2 DEF AgentAnswers, RelayPart
  <2>5. Tell("pty.created", s, made[s]) \/ Tell("pty.create.error", Nothing, made[s])
    BY <1>2, <2>1 DEF AgentAnswers
  <2>6. (down \in Seq(TrueMessage))'
    BY <2>2, <2>3, <2>5, TellStep DEF Types
  <2> QED BY <1>0, <2>3, <2>6, <2>4 DEF RelayPart, BrowserPart, KeysMatch
<1>3. ASSUME NEW s \in live, AgentExits(s) PROVE TerminalsInv'
  <2>1. /\ UNCHANGED <<made, up, asked>> /\ live' \subseteq Nat
        /\ s \in Nat /\ Tell("pty.exited", s, Nothing)
    BY <1>3 DEF AgentExits, RelayPart
  <2>2. (down \in Seq(TrueMessage))'
    BY <2>1, TellStep DEF Types
  <2> QED BY <1>0, <2>1, <2>2 DEF RelayPart, BrowserPart, KeysMatch
<1>4. CASE AgentComesOnline \/ AgentGoesOffline
  <2>1. /\ UNCHANGED <<made, up>> /\ live' \subseteq Nat
        /\ asked' = asked \/ asked' = <<>>
        /\ \/ Tell("agent.online", Nothing, Nothing)
           \/ Tell("agent.offline", Nothing, Nothing)
    BY <1>4 DEF AgentComesOnline, AgentGoesOffline, SessionsGone, RelayPart
  <2>2. (down \in Seq(TrueMessage))'
    BY <2>1, TellStep DEF Types
  <2>3. asked' \in Seq(DOMAIN made)
    <3>1. asked \in Seq(DOMAIN made)
      BY DEF RelayPart
    <3>2. <<>> \in Seq(DOMAIN made)
      OBVIOUS
    <3> QED BY <2>1, <3>1, <3>2
  <2> QED BY <1>0, <2>1, <2>2, <2>3 DEF RelayPart, BrowserPart, KeysMatch
<1>5. CASE AgentDeleted \/ Connect \/ \E f \in Fetches : ServeList(f) \/ FetchFails(f)
  <2>1. UNCHANGED <<made, up, asked, live, down>>
    BY <1>5 DEF AgentDeleted, Connect, ServeList, FetchFails, relay
  <2>2. (TrueMessage)' = TrueMessage
    BY <2>1 DEF TrueMessage
  <2> QED BY <1>0, <2>1, <2>2 DEF RelayPart, BrowserPart, KeysMatch
<1>6. CASE ConnectionDrops
  <2>1. made' = made /\ up' = <<>> /\ down' = <<>> /\ live' = {} /\ asked' = <<>>
    BY <1>6 DEF ConnectionDrops, SessionsGone
  <2> QED BY <1>0, <2>1 DEF RelayPart, BrowserPart, KeysMatch
<1> QED BY <1>1, <1>2, <1>3, <1>4, <1>5, <1>6 DEF Relay

-----------------------------------------------------------------------------
\* The browser takes messages and makes requests

LEMMA Taken ==
    ASSUME RelayPart, NEW type, Next1(type), UNCHANGED made
    PROVE  /\ (down \in Seq(TrueMessage))'
           /\ Head(down) \in TrueMessage /\ Head(down).type = type
<1>1. TrueMessage' = TrueMessage
  BY DEF TrueMessage
<1>2. PICK M : M = TrueMessage
  OBVIOUS
<1>3. down \in Seq(M) /\ down # <<>> /\ down' = Tail(down)
  BY <1>2 DEF RelayPart, Next1
<1>4. down' \in Seq(M) /\ Head(down) \in M
  BY <1>3
<1> QED BY <1>1, <1>2, <1>4 DEF Next1

\* A step that makes at most requests and loses at most key pairs
LEMMA BrowserKeeps ==
    ASSUME TerminalsInv, UNCHANGED relay, down' = down \/ \E type : Next1(type),
           UNCHANGED <<requested, up>> \/ CreateSession,
           DOMAIN paired' \subseteq DOMAIN paired,
           \A s \in DOMAIN paired' : paired'[s] = paired[s]
    PROVE  TerminalsInv'
<1> USE DEF TerminalsInv
<1>1. UNCHANGED <<made, asked, live>>
  BY DEF relay
<1>2. (down \in Seq(TrueMessage))'
  <2>1. CASE down' = down
    <3>1. TrueMessage' = TrueMessage
      BY <1>1 DEF TrueMessage
    <3> QED BY <2>1, <3>1 DEF RelayPart
  <2>2. CASE \E type : Next1(type)
    BY <1>1, <2>2, Taken
  <2> QED BY <2>1, <2>2
<1>3. requested' \in Nat /\ up' \in Seq(Nat)
  <2>1. CASE UNCHANGED <<requested, up>>
    BY <2>1 DEF RelayPart, BrowserPart
  <2>2. CASE CreateSession
    <3>1. PICK n : n = requested + 1
      OBVIOUS
    <3>2. n \in Nat /\ requested' = n /\ (up' = Append(up, n) \/ up' = up)
      BY <2>2, <3>1 DEF CreateSession, BrowserPart
    <3>3. up \in Seq(Nat)
      BY DEF RelayPart
    <3>4. up' \in Seq(Nat)
      BY <3>2, <3>3
    <3> QED BY <3>2, <3>4
  <2> QED BY <2>1, <2>2
<1>4. RelayPart'
  BY <1>1, <1>2, <1>3 DEF RelayPart
<1>5. BrowserPart'
  BY <1>1, <1>3 DEF BrowserPart, KeysMatch
<1> QED BY <1>4, <1>5

\* The pair that is taken for a session is the one of its request
LEMMA CreatedStep ==
    ASSUME TerminalsInv, OnCreated
    PROVE  TerminalsInv'
<1> USE DEF TerminalsInv
<1>1. UNCHANGED relay /\ UNCHANGED <<requested, up>> /\ Next1("pty.created")
  BY DEF OnCreated
<1>2. UNCHANGED <<made, asked, live>>
  BY <1>1 DEF relay
<1>3. PICK s, r : s = Head(down).sid /\ r = Head(down).req
  OBVIOUS
<1>4. s \in DOMAIN made /\ r = made[s]
  BY <1>1, <1>2, <1>3, Taken DEF TrueMessage
<1>5. CASE mounted = "yes"
  <2>1. PICK pair : pair = PairOf(r)
    OBVIOUS
  <2>2. paired' = [x \in DOMAIN paired \union {s : p \in pair} |->
                     IF x = s /\ pair # {} THEN CHOOSE p \in pair : TRUE ELSE paired[x]]
    BY <1>3, <1>5, <2>1 DEF OnCreated
  <2>3. \A p \in pair : p = made[s]
    BY <1>4, <2>1 DEF PairOf
  <2>4. pair # {} => (CHOOSE p \in pair : TRUE) = made[s]
    BY <2>3
  <2>5. DOMAIN paired' = DOMAIN paired \union {s : p \in pair}
    BY <2>2
  <2>6. \A x \in DOMAIN paired' : paired'[x] = made[x]
    <3>1. ASSUME NEW x \in DOMAIN paired' PROVE paired'[x] = made[x]
      <4>1. CASE x = s /\ pair # {}
        BY <2>2, <2>4, <2>5, <4>1
      <4>2. CASE ~(x = s /\ pair # {})
        <5>1. x \in DOMAIN paired
          BY <2>5, <4>2
        <5> QED BY <2>2, <2>5, <4>2, <5>1 DEF BrowserPart, KeysMatch
      <4> QED BY <4>1, <4>2
    <3> QED BY <3>1
  <2>7. DOMAIN paired' \subseteq DOMAIN made
    BY <1>4, <2>5 DEF BrowserPart
  <2>8. BrowserPart'
    BY <1>1, <1>2, <2>6, <2>7 DEF BrowserPart, KeysMatch
  <2> QED BY <1>1, <1>2, <2>8, Taken DEF RelayPart
<1>6. CASE mounted # "yes"
  <2>1. paired' = paired
    BY <1>6 DEF OnCreated
  <2> QED BY <1>1, <2>1, BrowserKeeps
<1> QED BY <1>5, <1>6

LEMMA BrowserStep ==
    ASSUME TerminalsInv, Browser
    PROVE  TerminalsInv'
<1>1. CASE OnCreated
  BY <1>1, CreatedStep
<1>2. CASE \/ MountTabs \/ NewTerminal \/ \E r \in pending : KeyPairDropped(r)
           \/ OnExited \/ OnCreateError \/ OnOnline \/ OnOffline
           \/ \E f \in Fetches : PollAgents(f)
  <2>1. UNCHANGED relay /\ paired' = paired
    BY <1>2 DEF MountTabs, NewTerminal, KeyPairDropped, OnExited, OnCreateError, OnOnline,
                OnOffline, PollAgents, browser
  <2>2. UNCHANGED <<requested, up>> \/ CreateSession
    BY <1>2 DEF MountTabs, NewTerminal, KeyPairDropped, OnExited, OnCreateError, OnOnline,
                OnOffline, PollAgents, browser
  <2>3. down' = down \/ \E type : Next1(type)
    BY <1>2 DEF MountTabs, NewTerminal, KeyPairDropped, OnExited, OnCreateError, OnOnline,
                OnOffline, PollAgents
  <2> QED BY <2>1, <2>2, <2>3, BrowserKeeps
<1>3. ASSUME NEW f \in Fetches, ListArrives(f) PROVE TerminalsInv'
  <2>1. UNCHANGED <<relay, requested, up, down>>
    BY <1>3 DEF ListArrives, AgentsChange
  <2>2. paired' = paired \/ paired' = [s \in {} |-> s]
    BY <1>3 DEF ListArrives, AgentsChange
  <2>3. DOMAIN paired' \subseteq DOMAIN paired /\ \A s \in DOMAIN paired' : paired'[s] = paired[s]
    BY <2>2
  <2> QED BY <2>1, <2>3, BrowserKeeps
<1>4. ASSUME NEW i \in DOMAIN tabs, CloseTab(i) PROVE TerminalsInv'
  <2>1. UNCHANGED <<relay, requested, up, down>>
    BY <1>4 DEF CloseTab
  <2>2. DOMAIN paired' \subseteq DOMAIN paired /\ \A s \in DOMAIN paired' : paired'[s] = paired[s]
    BY <1>4 DEF CloseTab, Restrict
  <2> QED BY <2>1, <2>2, BrowserKeeps
<1> QED BY <1>1, <1>2, <1>3, <1>4 DEF Browser

LEMMA StutterStep ==
    ASSUME TerminalsInv, UNCHANGED vars
    PROVE  TerminalsInv'
BY BrowserKeeps DEF vars, relay, browser

\* A session is opened with the key pair that its own request was made with.
THEOREM KeysCorrect == Spec => []KeysMatch
<1>1. TerminalsInv /\ [Next]_vars => TerminalsInv'
  BY RelayStep, BrowserStep, StutterStep DEF Next
<1>2. TerminalsInv => KeysMatch
  BY DEF TerminalsInv, BrowserPart
<1> QED BY <1>1, <1>2, TerminalsInit, PTL DEF Spec

-----------------------------------------------------------------------------
(***************************************************************************)
(* Types, and one tab for each session                                     *)
(***************************************************************************)

USE TerminalsConstants

\* The sessions of a list in the order of their numbers: the order exists,
\* by removing the least of them from a least set that has none

Ordered(S, q) == q \in [1..Cardinality(S) -> S] /\ \A i, j \in DOMAIN q : i < j => q[i] < q[j]

LEMMA LeastNumber ==
    ASSUME NEW T, T \subseteq Nat, T # {}
    PROVE  \E k \in T : \A j \in T : ~(j < k)
<1>1. \E k \in T : \A j \in T : <<j, k>> \notin OpToRel(<, Nat)
  BY WFMin, NatLessThanWellFounded
<1> QED BY <1>1 DEF OpToRel

LEMMA OrderExists ==
    ASSUME NEW S, S \subseteq Nat, IsFiniteSet(S)
    PROVE  \E q : Ordered(S, q)
<1> DEFINE Bad(n) == \E R \in SUBSET Nat : IsFiniteSet(R) /\ Cardinality(R) = n /\ ~\E q : Ordered(R, q)
           T == {n \in Nat : Bad(n)}
<1> SUFFICES ASSUME ~\E q : Ordered(S, q) PROVE FALSE
  OBVIOUS
<1>1. T \subseteq Nat /\ T # {}
  BY FS_CardinalityType
<1>2. PICK n \in T : \A m \in T : ~(m < n)
  <2> HIDE DEF T
  <2> QED BY <1>1, LeastNumber
<1>3. PICK R \in SUBSET Nat : IsFiniteSet(R) /\ Cardinality(R) = n /\ ~\E q : Ordered(R, q)
  BY <1>2
<1>4. R # {}
  <2>1. SUFFICES ASSUME R = {} PROVE FALSE
    OBVIOUS
  <2>2. Cardinality(R) = 0
    BY <2>1, FS_EmptySet
  <2>3. PICK q : q = [i \in 1..0 |-> 0]
    OBVIOUS
  <2>4. q \in [1..0 -> R] /\ DOMAIN q = {}
    BY <2>3
  <2> QED BY <1>3, <2>2, <2>4 DEF Ordered
<1>5. PICK k \in R : \A j \in R : ~(j < k)
  BY <1>4, LeastNumber
<1>6. IsFiniteSet(R \ {k}) /\ Cardinality(R \ {k}) = n - 1
  BY <1>3, <1>5, FS_RemoveElement
<1>7. PICK m : m = n - 1 /\ m \in Nat /\ n = m + 1 /\ m < n
  <2>1. n - 1 \in Nat
    BY <1>6, FS_CardinalityType
  <2> QED BY <1>2, <2>1
<1>8. PICK r : Ordered(R \ {k}, r)
  BY <1>2, <1>6, <1>7
<1>9. r \in [1..m -> R \ {k}] /\ \A i, j \in 1..m : i < j => r[i] < r[j]
  BY <1>6, <1>7, <1>8 DEF Ordered
<1>10. PICK q : q = [i \in 1..n |-> IF i = 1 THEN k ELSE r[i - 1]]
  OBVIOUS
<1>11. \A i \in 1..n : i # 1 => i - 1 \in 1..m /\ q[i] = r[i - 1]
  BY <1>7, <1>10
<1>12. \A i \in 1..n : q[i] \in R /\ (i # 1 => k < q[i]) /\ (i = 1 => q[i] = k)
  <2>1. \A x \in R \ {k} : k < x
    BY <1>5
  <2> QED BY <1>5, <1>9, <1>10, <1>11, <2>1
<1>13. ASSUME NEW i \in 1..n, NEW j \in 1..n, i < j PROVE q[i] < q[j]
  <2>1. j # 1
    BY <1>13
  <2>2. CASE i = 1
    BY <1>12, <2>1, <2>2
  <2>3. CASE i # 1
    <3>1. i - 1 < j - 1
      BY <1>13
    <3> QED BY <1>9, <1>11, <2>1, <2>3, <3>1
  <2> QED BY <2>2, <2>3
<1>14. q \in [1..n -> R] /\ DOMAIN q = 1..n
  BY <1>10, <1>12
<1> QED BY <1>3, <1>13, <1>14 DEF Ordered

LEMMA InOrderFacts ==
    ASSUME NEW S, S \subseteq Nat, IsFiniteSet(S)
    PROVE  InOrder(S) \in Seq(S) /\ IsInjective(InOrder(S))
<1>1. PICK q : q = InOrder(S)
  OBVIOUS
<1>2. Ordered(S, q)
  <2>1. \E p \in [1..Cardinality(S) -> S] : \A i, j \in DOMAIN p : i < j => p[i] < p[j]
    BY OrderExists DEF Ordered
  <2> QED BY <1>1, <2>1 DEF InOrder, Ordered
<1>3. PICK n \in Nat : n = Cardinality(S)
  BY FS_CardinalityType
<1>4. q \in [1..n -> S] /\ \A i, j \in 1..n : i < j => q[i] < q[j]
  BY <1>2, <1>3 DEF Ordered
<1>5. q \in Seq(S)
  BY <1>4
<1>6. ASSUME NEW i \in 1..n, NEW j \in 1..n, q[i] = q[j] PROVE i = j
  <2>1. q[i] \in Nat /\ q[j] \in Nat
    BY <1>4
  <2>2. ~(q[i] < q[j]) /\ ~(q[j] < q[i])
    BY <1>6, <2>1
  <2> QED BY <1>4, <2>2
<1>7. DOMAIN q = 1..n
  BY <1>4
<1> QED BY <1>1, <1>5, <1>6, <1>7 DEF IsInjective


-----------------------------------------------------------------------------
\* What is done to the tabs leaves each session at most one

Apart(q) == \A i, j \in DOMAIN q : q[i].sessionId = q[j].sessionId => i = j

LEMMA TabsApart == OneTabEach <=> Apart(tabs)
BY DEF OneTabEach, Apart, IsInjective

LEMMA ConcatApart ==
    ASSUME NEW T, NEW q \in Seq(T), NEW r \in Seq(T), Apart(q), Apart(r),
           \A i \in DOMAIN q, j \in DOMAIN r : q[i].sessionId # r[j].sessionId
    PROVE  q \o r \in Seq(T) /\ Apart(q \o r)
<1>1. PICK m, n : m = Len(q) /\ n = Len(r) /\ m \in Nat /\ n \in Nat
  OBVIOUS
<1>2. PICK c : c = q \o r
  OBVIOUS
<1>3. c \in Seq(T) /\ DOMAIN c = 1..(m + n)
  BY <1>1, <1>2
<1>4. \A i \in DOMAIN c : \/ i \in DOMAIN q /\ c[i] = q[i]
                          \/ i - m \in DOMAIN r /\ c[i] = r[i - m]
  BY <1>1, <1>2
<1>5. ASSUME NEW i \in DOMAIN c, NEW j \in DOMAIN c, c[i].sessionId = c[j].sessionId
      PROVE  i = j
  <2>1. CASE i \in DOMAIN q /\ c[i] = q[i] /\ j \in DOMAIN q /\ c[j] = q[j]
    BY <1>5, <2>1 DEF Apart
  <2>2. CASE i - m \in DOMAIN r /\ c[i] = r[i - m] /\ j - m \in DOMAIN r /\ c[j] = r[j - m]
    <3>1. i - m = j - m
      BY <1>5, <2>2 DEF Apart
    <3> QED BY <1>1, <1>3, <3>1
  <2> QED BY <1>4, <1>5, <2>1, <2>2
<1> QED BY <1>2, <1>3, <1>5 DEF Apart

LEMMA RemoveApart ==
    ASSUME NEW T, NEW q \in Seq(T), NEW i \in DOMAIN q, Apart(q)
    PROVE  RemoveAt(q, i) \in Seq(T) /\ Apart(RemoveAt(q, i))
<1>1. PICK n : n = Len(q) /\ n \in Nat /\ i \in 1..n
  OBVIOUS
<1>2. PICK a, b : a = SubSeq(q, 1, i - 1) /\ b = SubSeq(q, i + 1, n)
  OBVIOUS
<1>3. /\ a \in Seq(T) /\ Len(a) = i - 1 /\ \A k \in 1..(i - 1) : a[k] = q[k]
      /\ b \in Seq(T) /\ Len(b) = n - i /\ \A k \in 1..(n - i) : b[k] = q[i + k]
  <2>1. \A k \in 1..n : q[k] \in T
    BY <1>1, LenProperties
  <2>2. /\ a \in Seq(T) /\ Len(a) = i - 1 /\ \A k \in 1..(i - 1) : a[k] = q[k]
    <3>1. \A k \in 1..(i - 1) : q[k] \in T
      BY <1>1, <2>1
    <3>2. PICK m : m = i - 1 /\ m \in Nat
      BY <1>1
    <3> QED BY <1>2, <3>1, <3>2, SubSeqProperties
  <2>3. /\ b \in Seq(T) /\ Len(b) = n - i /\ \A k \in 1..(n - i) : b[k] = q[i + k]
    <3>1. PICK m : m = i + 1 /\ m \in Int /\ \A k \in m..n : q[k] \in T
      BY <1>1, <2>1
    <3>2. /\ b \in Seq(T) /\ Len(b) = IF m <= n THEN n - m + 1 ELSE 0
          /\ \A k \in 1..(n - m + 1) : b[k] = q[m + k - 1]
      BY <1>1, <1>2, <3>1, SubSeqProperties
    <3>3. Len(b) = n - i
      BY <1>1, <3>1, <3>2
    <3>4. ASSUME NEW k \in 1..(n - i) PROVE b[k] = q[i + k]
      <4>1. k \in 1..(n - m + 1) /\ m + k - 1 = i + k
        BY <1>1, <3>1
      <4> QED BY <3>2, <4>1
    <3> QED BY <3>2, <3>3, <3>4
  <2> QED BY <2>2, <2>3
<1>4. PICK c : c = a \o b
  OBVIOUS
<1>5. c = RemoveAt(q, i)
  BY <1>1, <1>2, <1>4 DEF RemoveAt
<1>6. c \in Seq(T) /\ DOMAIN c = 1..(n - 1)
  BY <1>1, <1>3, <1>4
<1>7. \A k \in DOMAIN c : c[k] = q[IF k < i THEN k ELSE k + 1]
  <2> SUFFICES ASSUME NEW k \in DOMAIN c PROVE c[k] = q[IF k < i THEN k ELSE k + 1]
    OBVIOUS
  <2>1. CASE k < i
    BY <1>1, <1>3, <1>4, <1>6, <2>1
  <2>2. CASE ~(k < i)
    <3>1. k - (i - 1) \in 1..(n - i) /\ i + (k - (i - 1)) = k + 1
      BY <1>1, <1>6, <2>2
    <3>2. c[k] = b[k - (i - 1)]
      BY SMTT(20), <1>1, <1>3, <1>4, <1>6, <2>2
    <3> QED BY <1>3, <2>2, <3>1, <3>2
  <2> QED BY <2>1, <2>2
<1>8. ASSUME NEW j \in DOMAIN c, NEW k \in DOMAIN c, c[j].sessionId = c[k].sessionId
      PROVE  j = k
  <2>1. PICK x, y : /\ x = (IF j < i THEN j ELSE j + 1) /\ y = (IF k < i THEN k ELSE k + 1)
                    /\ c[j] = q[x] /\ c[k] = q[y]
    BY <1>7
  <2>2. x \in 1..n /\ y \in 1..n /\ j \in Nat /\ k \in Nat
    BY <1>1, <1>6, <2>1
  <2>3. x = y
    BY <1>1, <1>8, <2>1, <2>2 DEF Apart
  <2> QED BY <1>1, <2>1, <2>2, <2>3
<1> QED BY <1>5, <1>6, <1>8 DEF Apart

LEMMA ReqsAreNumbers == Cardinality(Reqs) \in Nat /\ Reqs \subseteq Nat /\ 0 \notin Reqs
<1>1. PICK n \in Nat : n = Cardinality(Reqs)
  BY FS_CardinalityType
<1>2. Reqs = 1..n
  BY <1>1
<1> QED BY <1>1, <1>2

LEMMA NewTabIsTab ==
    ASSUME NEW s \in Sids, NEW existing \in BOOLEAN
    PROVE  NewTab(s, existing) \in Tab /\ NewTab(s, existing).sessionId = s
<1>1. NewTab(s, existing).sessionId = s
  BY DEF NewTab
<1>2. NewTab(s, existing) \in Tab
  BY DEF NewTab, Tab
<1> QED BY <1>1, <1>2

LEMMA NewTabs ==
    ASSUME NEW ss, ss \subseteq Sids, tabs \in Seq(Tab), OneTabEach
    PROVE  /\ tabs \o ShowExisting(ss) \in Seq(Tab) /\ Apart(tabs \o ShowExisting(ss))
           /\ ShowExisting(ss) \in Seq(Tab) /\ Apart(ShowExisting(ss))
<1>1. PICK U : U = {s \in ss : ~HasTab(s)}
  OBVIOUS
<1>2. U \subseteq Sids /\ U \subseteq Nat /\ IsFiniteSet(U) /\ \A s \in U : ~HasTab(s)
  <2>1. U \subseteq Sids /\ \A s \in U : ~HasTab(s)
    BY <1>1
  <2>2. U \subseteq Nat
    BY <2>1, ReqsAreNumbers DEF Sids
  <2>3. IsFiniteSet(U)
    BY <2>1, FS_Subset DEF Sids
  <2> QED BY <2>1, <2>2, <2>3
<1>3. PICK u : u = Unshown(ss) /\ u \in Seq(U) /\ IsInjective(u)
  BY <1>1, <1>2, InOrderFacts DEF Unshown
<1>4. PICK e : e = ShowExisting(ss)
  OBVIOUS
<1>5. e = [i \in DOMAIN u |-> NewTab(u[i], TRUE)]
  BY <1>3, <1>4 DEF ShowExisting
<1>6. \A i \in DOMAIN u : e[i] \in Tab /\ e[i].sessionId = u[i] /\ u[i] \in U
  <2>1. ASSUME NEW i \in DOMAIN u
        PROVE  e[i] \in Tab /\ e[i].sessionId = u[i] /\ u[i] \in U
    <3>1. u[i] \in U
      BY <1>3
    <3>2. u[i] \in Sids /\ e[i] = NewTab(u[i], TRUE)
      BY <1>2, <1>5, <3>1
    <3> QED BY <3>1, <3>2, NewTabIsTab
  <2> QED BY <2>1
<1>7. e \in Seq(Tab) /\ DOMAIN e = DOMAIN u
  <2>1. PICK n \in Nat : DOMAIN u = 1..n
    BY <1>3
  <2>2. PICK T : T = Tab
    OBVIOUS
  <2>3. e \in [1..n -> T]
    BY <1>5, <1>6, <2>1, <2>2
  <2>4. e \in Seq(T)
    BY <2>1, <2>3
  <2> QED BY <1>5, <2>2, <2>4
<1>8. Apart(e)
  BY <1>3, <1>6, <1>7 DEF Apart, IsInjective
<1>9. \A i \in DOMAIN tabs, j \in DOMAIN e : tabs[i].sessionId # e[j].sessionId
  BY <1>2, <1>6, <1>7 DEF HasTab
<1> QED BY <1>4, <1>7, <1>8, <1>9, TabsApart, ConcatApart

LEMMA OneMoreTab ==
    ASSUME NEW s \in Sids, NEW existing \in BOOLEAN, tabs \in Seq(Tab), OneTabEach, ~HasTab(s)
    PROVE  /\ Append(tabs, NewTab(s, existing)) \in Seq(Tab)
           /\ Apart(Append(tabs, NewTab(s, existing)))
<1>1. PICK t, T : t = NewTab(s, existing) /\ T = Tab /\ t \in T /\ t.sessionId = s
  BY NewTabIsTab
<1>2. PICK a, n : a = Append(tabs, t) /\ n = Len(tabs) + 1
  OBVIOUS
<1>3. /\ a \in Seq(T) /\ DOMAIN a = DOMAIN tabs \union {n} /\ n \notin DOMAIN tabs
      /\ a[n] = t /\ \A i \in DOMAIN tabs : a[i] = tabs[i]
  BY <1>1, <1>2
<1>4. Apart(a)
  BY <1>1, <1>3, TabsApart DEF Apart, HasTab
<1> QED BY <1>1, <1>2, <1>3, <1>4


-----------------------------------------------------------------------------
\* The invariant: a session is asked for once, and no more sessions are made
\* than requests, so that the numbers do not run out

OnceAsked == IsInjective(asked)
RelayTypes ==
    /\ status \in {"absent", "offline", "online"} /\ live \subseteq DOMAIN made
    /\ made \in Seq(Reqs) /\ asked \in Seq(live) /\ OnceAsked
WireTypes ==
    /\ conn \in BOOLEAN /\ up \in Seq(Reqs) /\ down \in Seq(Message)
    /\ fetches \in [Fetches -> Listing \union {Idle, Asked}]
    /\ Len(made) + Len(up) <= requested
ViewTypes ==
    /\ store \in Listing /\ mounted \in {"no", "next", "yes"}
    /\ tabs \in Seq(Tab) /\ OneTabEach
    /\ requested \in 0..Cardinality(Reqs) /\ pending \subseteq 1..requested
    /\ DOMAIN paired \subseteq Sids /\ paired \in [DOMAIN paired -> Reqs]
TabsInv == RelayTypes /\ WireTypes /\ ViewTypes

LEMMA TabsInit == Init => TabsInv
<1> SUFFICES ASSUME Init PROVE TabsInv
  OBVIOUS
<1>1. RelayTypes
  BY DEF Init, RelayTypes, OnceAsked, IsInjective
<1>2. WireTypes
  <2>1. /\ up \in Seq(Reqs) /\ down \in Seq(Message) /\ conn \in BOOLEAN
        /\ Len(made) + Len(up) <= requested
    <3>1. made = <<>> /\ up = <<>> /\ down = <<>> /\ conn = FALSE /\ requested = 0
      BY DEF Init
    <3>2. Len(made) = 0 /\ Len(up) = 0
      BY <3>1
    <3>3. up \in Seq(Reqs) /\ down \in Seq(Message)
      BY <3>1
    <3>4. Len(made) + Len(up) <= requested
      BY <3>1, <3>2
    <3> QED BY <3>1, <3>3, <3>4
  <2>2. fetches \in [Fetches -> Listing \union {Idle, Asked}]
    BY DEF Init
  <2> QED BY <2>1, <2>2 DEF Init, WireTypes
<1>3. ViewTypes
  BY ReqsAreNumbers DEF Init, ViewTypes, Unlisted, Listing, OneTabEach, IsInjective
<1> QED BY <1>1, <1>2, <1>3 DEF TabsInv

LEMMA Counts ==
    TabsInv => /\ Len(made) \in Nat /\ Len(up) \in Nat /\ requested \in Nat
               /\ Len(made) + Len(up) <= requested /\ requested <= Cardinality(Reqs)
               /\ DOMAIN made = 1..Len(made)
<1> SUFFICES ASSUME TabsInv
             PROVE  /\ Len(made) \in Nat /\ Len(up) \in Nat /\ requested \in Nat
                    /\ requested <= Cardinality(Reqs) /\ DOMAIN made = 1..Len(made)
  BY DEF TabsInv, WireTypes
<1>1. made \in Seq(Reqs) /\ up \in Seq(Reqs) /\ requested \in 0..Cardinality(Reqs)
  BY DEF TabsInv, RelayTypes, WireTypes, ViewTypes
<1>2. Len(made) \in Nat /\ Len(up) \in Nat /\ DOMAIN made = 1..Len(made)
  BY <1>1
<1>3. requested \in Nat /\ requested <= Cardinality(Reqs)
  BY <1>1, ReqsAreNumbers
<1> QED BY <1>2, <1>3

LEMMA SessionsAreNumbered == TabsInv => live \subseteq Sids /\ DOMAIN made \subseteq Sids
<1> SUFFICES ASSUME TabsInv PROVE DOMAIN made \subseteq Sids
  BY DEF TabsInv, RelayTypes
<1>1. PICK n, m, k : n = Cardinality(Reqs) /\ m = Len(made) /\ k = Len(up)
  OBVIOUS
<1>2. DOMAIN made = 1..m /\ Reqs = 1..n /\ m \in Nat /\ k \in Nat /\ n \in Nat /\ m <= n
  BY <1>1, Counts, ReqsAreNumbers
<1>3. 1..m \subseteq 1..n
  BY <1>2
<1> QED BY <1>2, <1>3 DEF Sids

LEMMA SeqWithin ==
    ASSUME NEW S, NEW T, NEW q \in Seq(S), \A i \in DOMAIN q : q[i] \in T
    PROVE  q \in Seq(T)
<1>1. PICK n \in Nat : q \in [1..n -> S] /\ DOMAIN q = 1..n
  OBVIOUS
<1>2. q \in [1..n -> T]
  BY <1>1
<1> QED BY <1>2

LEMMA TellTyped ==
    ASSUME WireTypes, NEW type \in Types, NEW sid \in Sids \union {Nothing},
           NEW req \in Reqs \union {Nothing}, Tell(type, sid, req)
    PROVE  down' \in Seq(Message)
<1>1. PICK m, M : m = [type |-> type, sid |-> sid, req |-> req] /\ M = Message /\ m \in M
  <2>1. [type |-> type, sid |-> sid, req |-> req] \in Message
    BY DEF Message, Types
  <2> QED BY <2>1
<1>2. down \in Seq(M) /\ (down' = Append(down, m) \/ down' = down)
  BY <1>1 DEF Tell, WireTypes
<1>3. down' \in Seq(M)
  BY <1>1, <1>2
<1> QED BY <1>1, <1>3

LEMMA TakenTyped ==
    ASSUME WireTypes, NEW type, Next1(type)
    PROVE  down' \in Seq(Message) /\ Head(down) \in Message
<1>1. PICK M : M = Message
  OBVIOUS
<1>2. down \in Seq(M) /\ down # <<>> /\ down' = Tail(down)
  BY <1>1 DEF Next1, WireTypes
<1>3. down' \in Seq(M) /\ Head(down) \in M
  BY <1>2
<1> QED BY <1>1, <1>3

-----------------------------------------------------------------------------
\* The relay and the agent

LEMMA CreatesTyped == TabsInv /\ RelayCreates => RelayTypes' /\ WireTypes'
<1> SUFFICES ASSUME TabsInv, RelayCreates PROVE RelayTypes' /\ WireTypes'
  OBVIOUS
<1>1. PICK r, m, k, q :
        /\ r = Head(up) /\ m = Len(made) /\ k = Len(up) /\ q = requested
        /\ m \in Nat /\ k \in Nat /\ q \in Nat /\ m + k <= q /\ DOMAIN made = 1..m
  BY Counts
<1>2. r \in Reqs /\ up' \in Seq(Reqs) /\ Len(up') = k - 1
  BY <1>1 DEF RelayCreates, TabsInv, WireTypes
<1>3. UNCHANGED <<status, conn, fetches, requested>>
  BY DEF RelayCreates, browser
<1>4. CASE /\ made' = Append(made, r) /\ live' = live \union {Len(made')}
           /\ asked' = Append(asked, Len(made')) /\ UNCHANGED down
  <2>1. PICK n : n = m + 1
    OBVIOUS
  <2>2. /\ made' \in Seq(Reqs) /\ Len(made') = n /\ DOMAIN made' = 1..n /\ n \notin DOMAIN made
        /\ DOMAIN made \subseteq DOMAIN made' /\ n \in DOMAIN made'
    BY <1>1, <1>2, <1>4, <2>1 DEF TabsInv, RelayTypes
  <2>3. live' = live \union {n} /\ asked' = Append(asked, n) /\ n \notin live
    BY <1>4, <2>2 DEF TabsInv, RelayTypes
  <2>4. PICK L, a : L = live' /\ a = asked' /\ asked \in Seq(L) /\ n \in L /\ a = Append(asked, n)
    BY <2>3, SeqOfMore DEF TabsInv, RelayTypes
  <2>5. PICK l : l = Len(asked) + 1
    OBVIOUS
  <2>6. /\ a \in Seq(L) /\ DOMAIN a = DOMAIN asked \union {l} /\ l \notin DOMAIN asked
        /\ a[l] = n /\ \A i \in DOMAIN asked : a[i] = asked[i]
    BY <2>4, <2>5
  <2>7. \A i \in DOMAIN asked : asked[i] \in live
    BY DEF TabsInv, RelayTypes
  <2>8. IsInjective(a)
    BY <2>3, <2>6, <2>7 DEF TabsInv, RelayTypes, OnceAsked, IsInjective
  <2>9. live' \subseteq DOMAIN made'
    BY <2>2, <2>3 DEF TabsInv, RelayTypes
  <2>10. RelayTypes'
    BY <1>3, <2>2, <2>4, <2>6, <2>8, <2>9 DEF TabsInv, RelayTypes, OnceAsked
  <2>11. Len(made') + Len(up') <= requested'
    BY <1>1, <1>2, <1>3, <2>1, <2>2
  <2> QED BY <1>2, <1>3, <1>4, <2>10, <2>11 DEF TabsInv, WireTypes
<1>5. CASE Tell("pty.create.error", Nothing, r) /\ UNCHANGED <<made, live, asked>>
  <2>1. down' \in Seq(Message)
    BY <1>2, <1>5, TellTyped DEF TabsInv, Types
  <2>2. Len(made') + Len(up') <= requested'
    BY <1>1, <1>2, <1>3, <1>5
  <2> QED BY <1>2, <1>3, <1>5, <2>1, <2>2 DEF TabsInv, RelayTypes, WireTypes, OnceAsked
<1> QED BY <1>1, <1>4, <1>5 DEF RelayCreates

LEMMA AnswersTyped == TabsInv /\ AgentAnswers => RelayTypes' /\ WireTypes'
<1> SUFFICES ASSUME TabsInv, AgentAnswers PROVE RelayTypes' /\ WireTypes'
  OBVIOUS
<1>1. PICK s : s = Head(asked)
  OBVIOUS
<1>2. PICK a : a = asked'
  OBVIOUS
<1>3. /\ a \in Seq(live) /\ s \in live /\ 1 \in DOMAIN asked /\ asked[1] = s
      /\ \A i \in DOMAIN a : i + 1 \in DOMAIN asked /\ i + 1 # 1 /\ a[i] = asked[i + 1] /\ i \in Nat
  BY <1>1, <1>2 DEF AgentAnswers, TabsInv, RelayTypes
<1>4. IsInjective(a) /\ \A i \in DOMAIN a : a[i] \in live \ {s}
  <2>1. \A i \in DOMAIN a : a[i] \in live /\ a[i] # s
    BY <1>3 DEF TabsInv, RelayTypes, OnceAsked, IsInjective
  <2>2. ASSUME NEW i \in DOMAIN a, NEW j \in DOMAIN a, a[i] = a[j] PROVE i = j
    <3>1. i + 1 = j + 1
      BY <1>3, <2>2 DEF TabsInv, RelayTypes, OnceAsked, IsInjective
    <3> QED BY <1>3, <3>1
  <2> QED BY <2>1, <2>2 DEF IsInjective
<1>5. a \in Seq(live \ {s})
  BY <1>3, <1>4, SeqWithin
<1>6. s \in Sids /\ made[s] \in Reqs
  BY <1>3, SessionsAreNumbered DEF TabsInv, RelayTypes
<1>7. /\ Tell("pty.created", s, made[s]) \/ Tell("pty.create.error", Nothing, made[s])
      /\ live' \in {live, live \ {s}} /\ UNCHANGED <<status, made, conn, up, fetches, requested>>
  BY <1>1 DEF AgentAnswers, browser
<1>8. down' \in Seq(Message)
  BY <1>6, <1>7, TellTyped DEF TabsInv, Types
<1>9. asked' \in Seq(live') /\ live' \subseteq DOMAIN made'
  BY <1>2, <1>3, <1>5, <1>7 DEF TabsInv, RelayTypes
<1> QED BY <1>2, <1>4, <1>7, <1>8, <1>9 DEF TabsInv, RelayTypes, WireTypes, OnceAsked

LEMMA RelayTyped == TabsInv /\ Relay => TabsInv'
<1> SUFFICES ASSUME TabsInv, Relay PROVE TabsInv'
  OBVIOUS
<1>1. UNCHANGED browser
  BY DEF Relay, RelayCreates, AgentAnswers, AgentExits, AgentComesOnline, AgentGoesOffline,
         AgentDeleted, ConnectionDrops, Connect, ServeList, FetchFails
<1>2. ViewTypes' /\ requested' = requested
  BY <1>1 DEF TabsInv, ViewTypes, OneTabEach, browser
<1>3. CASE RelayCreates \/ AgentAnswers
  BY <1>2, <1>3, CreatesTyped, AnswersTyped DEF TabsInv
<1>4. ASSUME NEW s \in live, AgentExits(s) PROVE RelayTypes' /\ WireTypes'
  <2>1. /\ Tell("pty.exited", s, Nothing) /\ live' = live \ {s}
        /\ UNCHANGED <<status, made, asked, conn, up, fetches>>
        /\ \A i \in DOMAIN asked : asked[i] # s
    BY <1>4 DEF AgentExits, ToSet
  <2>2. down' \in Seq(Message)
    BY <2>1, SessionsAreNumbered, TellTyped DEF TabsInv, Types
  <2>3. asked \in Seq(live \ {s})
    <3>1. \A i \in DOMAIN asked : asked[i] \in live \ {s}
      BY <2>1 DEF TabsInv, RelayTypes
    <3> QED BY <3>1, SeqWithin DEF TabsInv, RelayTypes
  <2> QED BY <1>2, <2>1, <2>2, <2>3 DEF TabsInv, RelayTypes, WireTypes, OnceAsked
<1>5. CASE AgentComesOnline \/ AgentGoesOffline \/ AgentDeleted \/ Connect
  <2>1. /\ status' \in {"absent", "offline", "online"} /\ conn' \in BOOLEAN
        /\ UNCHANGED <<made, up, fetches>>
    BY <1>5 DEF AgentComesOnline, AgentGoesOffline, AgentDeleted, Connect, relay,
                TabsInv, RelayTypes, WireTypes
  <2>2. down' \in Seq(Message)
    <3>1. CASE AgentComesOnline \/ AgentGoesOffline
      <4>1. \/ Tell("agent.online", Nothing, Nothing)
            \/ Tell("agent.offline", Nothing, Nothing)
        BY <3>1 DEF AgentComesOnline, AgentGoesOffline
      <4> QED BY <4>1, TellTyped DEF TabsInv, Types
    <3>2. CASE AgentDeleted \/ Connect
      BY <3>2 DEF AgentDeleted, Connect, TabsInv, WireTypes
    <3> QED BY <1>5, <3>1, <3>2
  <2>3. /\ asked' \in Seq(live') /\ IsInjective(asked') /\ live' \subseteq DOMAIN made'
    <3>1. CASE UNCHANGED <<live, asked>>
      BY <2>1, <3>1 DEF TabsInv, RelayTypes, OnceAsked
    <3>2. CASE AgentGoesOffline
      <4>1. live' = {} /\ asked' = <<>>
        BY <3>2 DEF AgentGoesOffline, SessionsGone
      <4> QED BY <4>1 DEF IsInjective
    <3> QED BY <1>5, <3>1, <3>2 DEF AgentComesOnline, AgentDeleted, Connect, relay
  <2> QED BY <1>2, <2>1, <2>2, <2>3 DEF TabsInv, RelayTypes, WireTypes, OnceAsked
<1>6. CASE ConnectionDrops
  <2>1. /\ conn' = FALSE /\ up' = <<>> /\ down' = <<>> /\ live' = {} /\ asked' = <<>>
        /\ UNCHANGED <<status, made, fetches>>
    BY <1>6 DEF ConnectionDrops, SessionsGone
  <2>2. RelayTypes'
    BY <2>1 DEF TabsInv, RelayTypes, OnceAsked, IsInjective
  <2>3. PICK m, k, q : /\ m = Len(made) /\ k = Len(up) /\ q = requested
                       /\ m \in Nat /\ k \in Nat /\ q \in Nat /\ m + k <= q
    BY Counts
  <2>4. Len(made') + Len(up') <= requested'
    <3>1. Len(made') = m /\ Len(up') = 0 /\ requested' = q
      BY <1>2, <2>1, <2>3
    <3> QED BY <2>3, <3>1
  <2>5. up' \in Seq(Reqs) /\ down' \in Seq(Message)
    BY <2>1
  <2> QED BY <1>2, <2>1, <2>2, <2>4, <2>5 DEF TabsInv, WireTypes
<1>7. ASSUME NEW f \in Fetches, ServeList(f) \/ FetchFails(f) PROVE RelayTypes' /\ WireTypes'
  <2>1. [status |-> status, sessions |-> live] \in Listing
    BY SessionsAreNumbered DEF TabsInv, RelayTypes, Listing
  <2>2. /\ UNCHANGED <<relay, conn, up, down>>
        /\ \E x \in Listing \union {Idle, Asked} : fetches' = [fetches EXCEPT ![f] = x]
    BY <1>7, <2>1 DEF ServeList, FetchFails
  <2>3. fetches' \in [Fetches -> Listing \union {Idle, Asked}]
    BY <2>2 DEF TabsInv, WireTypes
  <2> QED BY <1>2, <2>2, <2>3 DEF TabsInv, RelayTypes, WireTypes, OnceAsked, relay
<1> QED BY <1>2, <1>3, <1>4, <1>5, <1>6, <1>7 DEF Relay, TabsInv


-----------------------------------------------------------------------------
\* The browser

\* What a step of the browser does to what it does not keep itself
LEMMA WireKept ==
    ASSUME TabsInv, UNCHANGED <<relay, conn>>,
           down' = down \/ \E type : Next1(type),
           UNCHANGED <<requested, up>> \/ CreateSession,
           fetches' \in [Fetches -> Listing \union {Idle, Asked}]
    PROVE  RelayTypes' /\ WireTypes'
<1>1. RelayTypes'
  BY DEF TabsInv, RelayTypes, OnceAsked, relay
<1>2. down' \in Seq(Message)
  BY TakenTyped DEF TabsInv, WireTypes
<1>3. up' \in Seq(Reqs) /\ Len(made') + Len(up') <= requested'
  <2>1. PICK m, k, q, n : /\ m = Len(made) /\ k = Len(up) /\ q = requested /\ n = Cardinality(Reqs)
                          /\ m \in Nat /\ k \in Nat /\ q \in Nat /\ m + k <= q
    BY Counts
  <2>2. made' = made
    BY DEF relay
  <2>3. CASE up' = up /\ requested' = requested
    BY <2>1, <2>2, <2>3 DEF TabsInv, WireTypes
  <2>4. CASE CreateSession
    <3>1. PICK r : r = q + 1
      OBVIOUS
    <3>2. q < n /\ requested' = r /\ (up' = Append(up, r) \/ up' = up)
      BY <2>1, <2>4, <3>1 DEF CreateSession
    <3>3. n \in Nat /\ Reqs = 1..n /\ r \in 1..n
      BY <2>1, <3>1, <3>2, ReqsAreNumbers
    <3>4. up' \in Seq(Reqs) /\ (Len(up') = k \/ Len(up') = k + 1)
      <4>1. up \in Seq(Reqs) /\ r \in Reqs
        BY <3>3 DEF TabsInv, WireTypes
      <4> QED BY <2>1, <3>2, <4>1
    <3> QED BY <2>1, <2>2, <3>1, <3>2, <3>4
  <2> QED BY <2>3, <2>4
<1> QED BY <1>1, <1>2, <1>3 DEF TabsInv, WireTypes

LEMMA RequestTyped ==
    ASSUME TabsInv, UNCHANGED <<requested, pending>> \/ CreateSession
    PROVE  requested' \in 0..Cardinality(Reqs) /\ pending' \subseteq 1..requested'
<1>1. CASE UNCHANGED <<requested, pending>>
  BY <1>1 DEF TabsInv, ViewTypes
<1>2. CASE CreateSession
  <2>1. PICK q, n : q = requested /\ n = Cardinality(Reqs) /\ q \in Nat /\ n \in Nat
    BY Counts, ReqsAreNumbers
  <2>2. q < n /\ requested' = q + 1 /\ pending' = pending \union {q + 1} /\ pending \subseteq 1..q
    BY <1>2, <2>1 DEF CreateSession, TabsInv, ViewTypes
  <2> QED BY <2>1, <2>2
<1> QED BY <1>1, <1>2

LEMMA FetchTyped ==
    ASSUME TabsInv, NEW f \in Fetches,
           fetches' = [fetches EXCEPT ![f] = Idle] \/ fetches' = [fetches EXCEPT ![f] = Asked]
    PROVE  fetches' \in [Fetches -> Listing \union {Idle, Asked}]
BY DEF TabsInv, WireTypes

LEMMA MarkedTabs ==
    ASSUME TabsInv, NEW ss, MarkExited(ss)
    PROVE  tabs' \in Seq(Tab) /\ OneTabEach'
<1>1. tabs' = [i \in DOMAIN tabs |-> [tabs[i] EXCEPT !.exited = @ \/ tabs[i].sessionId \in ss]]
  BY DEF MarkExited
<1>2. PICK n \in Nat : DOMAIN tabs = 1..n
  BY DEF TabsInv, ViewTypes
<1>3. \A i \in DOMAIN tabs : tabs[i] \in Tab
  BY DEF TabsInv, ViewTypes
<1>4. ASSUME NEW i \in DOMAIN tabs
      PROVE  tabs'[i] \in Tab /\ tabs'[i].sessionId = tabs[i].sessionId
  <2>1. PICK b, t : b = (tabs[i].exited \/ tabs[i].sessionId \in ss) /\ t = tabs[i] /\ t \in Tab
    BY <1>3
  <2>2. b \in BOOLEAN
    BY <1>3, <2>1 DEF Tab
  <2>3. tabs'[i] = [t EXCEPT !.exited = b]
    BY <1>1, <2>1
  <2> QED BY <2>1, <2>2, <2>3 DEF Tab
<1>5. DOMAIN tabs' = 1..n
  BY <1>1, <1>2
<1>6. tabs' \in Seq(Tab)
  <2>1. PICK T, u : T = Tab /\ u = tabs'
    OBVIOUS
  <2>2. u \in [1..n -> T]
    BY <1>1, <1>2, <1>4, <2>1
  <2>3. u \in Seq(T)
    BY <2>2
  <2> QED BY <2>1, <2>3
<1>7. OneTabEach'
  <2>1. Apart(tabs)
    BY TabsApart DEF TabsInv, ViewTypes
  <2>2. \A i, j \in DOMAIN tabs' : tabs'[i].sessionId = tabs'[j].sessionId => i = j
    BY <1>2, <1>4, <1>5, <2>1 DEF Apart
  <2> QED BY <2>2 DEF OneTabEach, IsInjective
<1> QED BY <1>6, <1>7

\* A list or a message of a machine that comes or goes
LEMMA ListTyped ==
    ASSUME TabsInv, NEW f \in Fetches, ListArrives(f)
    PROVE  TabsInv'
<1>1. PICK l : l = fetches[f] /\ l \in Listing /\ AgentsChange(l)
  BY DEF ListArrives, TabsInv, WireTypes
<1>2. /\ UNCHANGED <<relay, conn, up, down, requested>> /\ store' \in Listing
      /\ mounted' \in {"no", "next", "yes"}
  BY <1>1 DEF ListArrives, AgentsChange, TabsInv, ViewTypes
<1>3. RelayTypes' /\ WireTypes'
  BY <1>2, WireKept, FetchTyped DEF ListArrives
<1>4. /\ \/ pending' = {} /\ paired' = [s \in {} |-> s]
         \/ UNCHANGED <<pending, paired>>
      /\ \/ tabs' = <<>> \/ tabs' = tabs \/ tabs' = tabs \o ShowExisting(l.sessions)
  BY <1>1 DEF AgentsChange
<1>5. pending' \subseteq 1..requested' /\ DOMAIN paired' \subseteq Sids
      /\ paired' \in [DOMAIN paired' -> Reqs]
  BY <1>2, <1>4 DEF TabsInv, ViewTypes
<1>6. tabs' \in Seq(Tab) /\ OneTabEach'
  <2>1. CASE tabs' = <<>>
    BY <2>1 DEF OneTabEach, IsInjective
  <2>2. CASE tabs' = tabs
    BY <2>2 DEF TabsInv, ViewTypes, OneTabEach
  <2>3. CASE tabs' = tabs \o ShowExisting(l.sessions)
    <3>1. l.sessions \subseteq Sids
      BY <1>1 DEF Listing
    <3>2. tabs' \in Seq(Tab) /\ Apart(tabs')
      BY <2>3, <3>1, NewTabs DEF TabsInv, ViewTypes
    <3> QED BY <3>2 DEF Apart, OneTabEach, IsInjective
  <2> QED BY <1>4, <2>1, <2>2, <2>3
<1>7. ViewTypes'
  BY <1>2, <1>5, <1>6 DEF TabsInv, ViewTypes
<1> QED BY <1>3, <1>7 DEF TabsInv

LEMMA MountTyped == TabsInv /\ MountTabs => TabsInv'
<1> SUFFICES ASSUME TabsInv, MountTabs PROVE TabsInv'
  OBVIOUS
<1>1. /\ UNCHANGED <<relay, conn, down, fetches, store, paired>> /\ mounted' = "yes"
      /\ UNCHANGED <<requested, pending, up>> \/ CreateSession
      /\ tabs' = ShowExisting(store.sessions) \/ tabs' = tabs
  BY DEF MountTabs
<1>2. RelayTypes' /\ WireTypes'
  BY <1>1, WireKept DEF TabsInv, WireTypes
<1>3. tabs' \in Seq(Tab) /\ OneTabEach'
  <2>1. CASE tabs' = tabs
    BY <2>1 DEF TabsInv, ViewTypes, OneTabEach
  <2>2. CASE tabs' = ShowExisting(store.sessions)
    <3>1. store.sessions \subseteq Sids
      BY DEF TabsInv, ViewTypes, Listing
    <3>2. tabs' \in Seq(Tab) /\ Apart(tabs')
      BY <2>2, <3>1, NewTabs DEF TabsInv, ViewTypes
    <3> QED BY <3>2 DEF Apart, OneTabEach, IsInjective
  <2> QED BY <1>1, <2>1, <2>2
<1>4. requested' \in 0..Cardinality(Reqs) /\ pending' \subseteq 1..requested'
  BY <1>1, RequestTyped
<1>5. ViewTypes'
  BY <1>1, <1>3, <1>4 DEF TabsInv, ViewTypes
<1> QED BY <1>2, <1>5 DEF TabsInv


\* pty.created: the key pair asked for is taken, if there still is one
LEMMA CreatedTyped == TerminalsInv /\ TabsInv /\ OnCreated => TabsInv'
<1> SUFFICES ASSUME TerminalsInv, TabsInv, OnCreated PROVE TabsInv'
  OBVIOUS
<1>1. /\ UNCHANGED <<relay, conn, up, fetches, store, mounted, requested>>
      /\ Next1("pty.created")
  BY DEF OnCreated
<1>2. RelayTypes' /\ WireTypes'
  BY <1>1, WireKept DEF TabsInv, WireTypes
<1>3. PICK s, pair : s = Head(down).sid /\ pair = PairOf(Head(down).req)
  OBVIOUS
<1>4. pending' \subseteq pending
  BY DEF OnCreated
<1>5. CASE mounted = "yes"
  <2>1. /\ paired' = [x \in DOMAIN paired \union {s : p \in pair} |->
                        IF x = s /\ pair # {} THEN CHOOSE p \in pair : TRUE ELSE paired[x]]
        /\ tabs' = IF HasTab(s) THEN tabs ELSE Append(tabs, NewTab(s, FALSE))
    BY <1>3, <1>5 DEF OnCreated
  <2>2. PICK q, n : q = requested /\ n = Cardinality(Reqs) /\ q \in Nat /\ n \in Nat /\ q <= n
    BY Counts, ReqsAreNumbers
  <2>3. pair \subseteq Reqs
    <3>1. 1..q \subseteq 1..n /\ pending \subseteq 1..q /\ Reqs = 1..n
      BY <2>2 DEF TabsInv, ViewTypes
    <3> QED BY <1>3, <3>1 DEF PairOf
  <2>4. s \in Sids
    <3>1. s \in DOMAIN made
      BY <1>1, <1>3, Taken DEF TerminalsInv, TrueMessage, relay
    <3> QED BY <3>1, SessionsAreNumbered
  <2>5. DOMAIN paired' \subseteq Sids /\ paired' \in [DOMAIN paired' -> Reqs]
    <3>1. PICK D, v : /\ D = DOMAIN paired \union {s : p \in pair} /\ v = CHOOSE p \in pair : TRUE
                      /\ (pair # {} => v \in pair)
      OBVIOUS
    <3>2. paired' = [x \in D |-> IF x = s /\ pair # {} THEN v ELSE paired[x]]
      BY <2>1, <3>1
    <3>3. \A x \in D : x \in DOMAIN paired \/ (x = s /\ pair # {})
      BY <3>1
    <3>4. D \subseteq Sids
      BY <2>4, <3>1 DEF TabsInv, ViewTypes
    <3>5. \A x \in DOMAIN paired : paired[x] \in Reqs
      BY DEF TabsInv, ViewTypes
    <3> QED BY <2>3, <3>1, <3>2, <3>3, <3>4, <3>5
  <2>6. tabs' \in Seq(Tab) /\ OneTabEach'
    <3>1. CASE tabs' = tabs
      BY <3>1 DEF TabsInv, ViewTypes, OneTabEach
    <3>2. CASE ~HasTab(s)
      <4>1. tabs' \in Seq(Tab) /\ Apart(tabs')
        BY <2>1, <2>4, <3>2, OneMoreTab DEF TabsInv, ViewTypes
      <4> QED BY <4>1 DEF Apart, OneTabEach, IsInjective
    <3> QED BY <2>1, <3>1, <3>2
  <2>7. ViewTypes'
    BY <1>1, <1>4, <2>5, <2>6 DEF TabsInv, ViewTypes
  <2> QED BY <1>2, <2>7 DEF TabsInv
<1>6. CASE mounted # "yes"
  <2>1. UNCHANGED <<paired, tabs>>
    BY <1>6 DEF OnCreated
  <2>2. ViewTypes'
    BY <1>1, <1>4, <2>1 DEF TabsInv, ViewTypes, OneTabEach
  <2> QED BY <1>2, <2>2 DEF TabsInv
<1> QED BY <1>5, <1>6

LEMMA CloseTyped ==
    ASSUME TabsInv, NEW i \in DOMAIN tabs, CloseTab(i)
    PROVE  TabsInv'
<1>1. /\ UNCHANGED <<relay, conn, up, down, fetches, store, mounted, requested, pending>>
      /\ tabs' = RemoveAt(tabs, i)
      /\ paired' = Restrict(paired, DOMAIN paired \ {tabs[i].sessionId})
  BY DEF CloseTab
<1>2. RelayTypes' /\ WireTypes'
  BY <1>1, WireKept DEF TabsInv, WireTypes
<1>3. DOMAIN paired' \subseteq Sids /\ paired' \in [DOMAIN paired' -> Reqs]
  BY <1>1 DEF Restrict, TabsInv, ViewTypes
<1>4. tabs' \in Seq(Tab) /\ OneTabEach'
  <2>1. tabs' \in Seq(Tab) /\ Apart(tabs')
    BY <1>1, RemoveApart, TabsApart DEF TabsInv, ViewTypes
  <2> QED BY <2>1 DEF Apart, OneTabEach, IsInjective
<1>5. ViewTypes'
  BY <1>1, <1>3, <1>4 DEF TabsInv, ViewTypes
<1> QED BY <1>2, <1>5 DEF TabsInv

LEMMA BrowserTyped == TerminalsInv /\ TabsInv /\ Browser => TabsInv'
<1> SUFFICES ASSUME TerminalsInv, TabsInv, Browser PROVE TabsInv'
  OBVIOUS
<1>1. CASE \/ MountTabs \/ OnCreated
           \/ \E f \in Fetches : ListArrives(f)
           \/ \E i \in DOMAIN tabs : CloseTab(i)
  BY <1>1, ListTyped, MountTyped, CreatedTyped, CloseTyped
<1>2. CASE \/ NewTerminal \/ OnCreateError
           \/ \E f \in Fetches : PollAgents(f)
           \/ \E r \in pending : KeyPairDropped(r)
  <2>1. /\ UNCHANGED <<relay, conn, store, mounted, tabs, paired>>
        /\ down' = down \/ \E type : Next1(type)
        /\ UNCHANGED <<requested, up>> \/ CreateSession
        /\ (UNCHANGED requested /\ pending' \subseteq pending) \/ CreateSession
    BY <1>2 DEF PollAgents, NewTerminal, KeyPairDropped, OnCreateError, browser
  <2>2. fetches' \in [Fetches -> Listing \union {Idle, Asked}]
    <3>1. fetches' = fetches \/ \E f \in Fetches : FetchAgents(f)
      BY <1>2 DEF PollAgents, Refresh, NewTerminal, KeyPairDropped, OnCreateError
    <3> QED BY <3>1, FetchTyped DEF FetchAgents, TabsInv, WireTypes
  <2>3. RelayTypes' /\ WireTypes'
    BY <2>1, <2>2, WireKept
  <2>4. requested' \in 0..Cardinality(Reqs) /\ pending' \subseteq 1..requested'
    BY <2>1, RequestTyped DEF TabsInv, ViewTypes
  <2>5. ViewTypes'
    BY <2>1, <2>4 DEF TabsInv, ViewTypes, OneTabEach
  <2> QED BY <2>3, <2>5 DEF TabsInv
<1>3. CASE OnExited \/ OnOnline \/ OnOffline
  <2>1. /\ UNCHANGED <<relay, conn, up, requested, pending, paired>>
        /\ \E type : Next1(type)
        /\ fetches' = fetches \/ \E f \in Fetches : FetchAgents(f)
        /\ tabs' = tabs \/ \E ss : MarkExited(ss)
    BY <1>3 DEF OnExited, OnOnline, OnOffline
  <2>2. store' \in Listing /\ mounted' \in {"no", "next", "yes"}
    BY <1>3 DEF OnExited, OnOnline, OnOffline, TabsInv, ViewTypes, Listing
  <2>3. RelayTypes' /\ WireTypes'
    <3>1. fetches' \in [Fetches -> Listing \union {Idle, Asked}]
      BY <2>1, FetchTyped DEF FetchAgents, TabsInv, WireTypes
    <3> QED BY <2>1, <3>1, WireKept
  <2>4. tabs' \in Seq(Tab) /\ OneTabEach'
    <3>1. CASE tabs' = tabs
      BY <3>1 DEF TabsInv, ViewTypes, OneTabEach
    <3> QED BY <2>1, <3>1, MarkedTabs
  <2>5. ViewTypes'
    BY <2>1, <2>2, <2>4 DEF TabsInv, ViewTypes
  <2> QED BY <2>3, <2>5 DEF TabsInv
<1> QED BY <1>1, <1>2, <1>3 DEF Browser

LEMMA TabsInvariant == Spec => []TabsInv
<1>1. TerminalsInv /\ TabsInv /\ [Next]_vars => TabsInv'
  <2>1. UNCHANGED vars /\ TabsInv => TabsInv'
    BY DEF vars, relay, browser, TabsInv, RelayTypes, WireTypes, ViewTypes, OnceAsked, OneTabEach
  <2> QED BY <2>1, RelayTyped, BrowserTyped DEF Next
<1>2. TerminalsInv /\ [Next]_vars => TerminalsInv'
  BY RelayStep, BrowserStep, StutterStep DEF Next
<1> QED BY <1>1, <1>2, TerminalsInit, TabsInit, PTL DEF Spec

\* Every variable keeps its type; in particular every session that is listed,
\* announced or shown is one of those a request was made for.
THEOREM TerminalsTypeCorrect == Spec => []TypeOK
<1>1. TabsInv => TypeOK
  BY DEF TabsInv, RelayTypes, WireTypes, ViewTypes, TypeOK
<1> QED BY <1>1, TabsInvariant, PTL

\* However lists and pty.created overtake each other, a session has one tab.
THEOREM OneTabCorrect == Spec => []OneTabEach
<1>1. TabsInv => OneTabEach
  BY DEF TabsInv, ViewTypes
<1> QED BY <1>1, TabsInvariant, PTL
=============================================================================
