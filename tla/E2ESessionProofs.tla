-------------------------- MODULE E2ESessionProofs --------------------------
(***************************************************************************)
(* Proofs about E2ESession for any number of transfers, chunks, keystrokes *)
(* and messages.  Towards the browser the argument is about one sequence,  *)
(* DownInTransit, of which every step takes an element out, appends one or *)
(* neither.  Towards the agent it is about a set, InFlight: what has been  *)
(* sealed together with what waits in the browser's send queue, each with  *)
(* the counter it has or will get.  A transfer is a block of consecutive   *)
(* counters there, so a chunk that is missing at the agent leaves a hole   *)
(* the receive counter cannot cross while the transfer is pending.         *)
(***************************************************************************)
EXTENDS E2ESession, SequenceTheorems, FiniteSetTheorems, TLAPS

-----------------------------------------------------------------------------
\* Towards the browser

Length == Len(DownInTransit)

DownShape ==
    /\ Len(opening) <= 1
    /\ \A i \in DOMAIN opening : opening[i].expected = recvCounter
    /\ \A i \in 1..Length : DownInTransit[i] < SendCounter
    /\ \A g \in Goroutines : staged[g] # <<>> => staged[g][1] < SendCounter

DownDistinct ==
    /\ \A i, j \in 1..Length : DownInTransit[i] = DownInTransit[j] => i = j
    /\ \A g \in Goroutines : \A i \in 1..Length :
         staged[g] # <<>> => staged[g][1] # DownInTransit[i]
    /\ \A g, h \in Goroutines :
         staged[g] # <<>> /\ staged[h] # <<>> /\ staged[g][1] = staged[h][1] => g = h

\* Every counter taken is in transit or staged
NextDown == recvCounter + Length
DownExact ==
    "down" \in lost \/ overtaken \/
      /\ \A i \in 1..Length : DownInTransit[i] = recvCounter + i - 1
      /\ NextDown <= SendCounter
      /\ \A g \in Goroutines : staged[g] # <<>> => staged[g][1] >= NextDown
      /\ \A n \in Nat : NextDown <= n /\ n < SendCounter =>
           \E g \in Goroutines : staged[g] # <<>> /\ staged[g][1] = n

-----------------------------------------------------------------------------
\* Towards the agent

UpOrder ==
    /\ Len(sealing) <= 1
    /\ \A i \in DOMAIN sealing : sealing[i].n = sendCounter
    /\ \A i \in DOMAIN up : up[i].n < sendCounter
    /\ \A i, j \in DOMAIN up : i < j => up[i].n < up[j].n

UpExact ==
    "up" \in lost \/ skipped \/
      /\ sendCounter = RecvCounter + Len(up)
      /\ \A i \in DOMAIN up : up[i].n = RecvCounter + i - 1

\* A queued message with the counter it will be sealed with
Queued(p) == [n |-> sendCounter + Len(sealing) + p - 1, content |-> sendQueue[p]]
NextN == sendCounter + Len(sealing) + Len(sendQueue)
InFlight ==
    {up[i] : i \in DOMAIN up} \union {sealing[i] : i \in DOMAIN sealing}
      \union {Queued(p) : p \in DOMAIN sendQueue}

OfTransfer(m) == m.content.type \in {"start", "chunk", "end"}
Offset(c) ==
    IF c.type = "chunk" THEN c.index ELSE IF c.type = "end" THEN Chunks + 1 ELSE 0

\* The counter of the start of m's transfer
Base(m) == m.n - Offset(m.content)

\* The messages of a transfer are consecutive and nothing is between them
Blocks ==
    /\ \A m \in InFlight : m.n < NextN
    /\ \A m \in InFlight : OfTransfer(m) =>
         m.content.transfer \in uploads /\ Base(m) + Chunks + 1 < NextN
    /\ \A m, k \in InFlight :
         OfTransfer(m) /\ Base(m) <= k.n /\ k.n <= Base(m) + Chunks + 1
           => OfTransfer(k) /\ k.content.transfer = m.content.transfer
    /\ \A m, k \in InFlight :
         OfTransfer(m) /\ OfTransfer(k) /\ k.content.transfer = m.content.transfer
           => Base(k) = Base(m)

\* The chunks behind the receive counter have been opened
Opened ==
    /\ DOMAIN pending \subseteq uploads
    /\ \A m \in InFlight : OfTransfer(m) /\ m.content.transfer \in DOMAIN pending =>
         \A i \in 1..Chunks :
           Base(m) + i < RecvCounter => i \in pending[m.content.transfer]

SinglePending == \A t, u \in DOMAIN pending : t = u

USE SessionConstants

-----------------------------------------------------------------------------
\* Sequences

\* A function over the indices of a sequence is a sequence as long.
LEMMA MappedSeq ==
    ASSUME NEW S, NEW T, NEW s \in Seq(S), NEW t, t \in [DOMAIN s -> T]
    PROVE  t \in Seq(T) /\ Len(t) = Len(s) /\ DOMAIN t = DOMAIN s
<1>1. Len(s) \in Nat /\ DOMAIN s = 1..Len(s)
  OBVIOUS
<1>2. t \in Seq(T)
  BY <1>1, SeqDef
<1>3. DOMAIN t = 1..Len(t) /\ Len(t) \in Nat
  BY <1>2, LenProperties
<1>4. DOMAIN t = DOMAIN s
  OBVIOUS
<1>5. 1..Len(t) = 1..Len(s)
  BY <1>1, <1>3, <1>4
<1> QED BY <1>1, <1>2, <1>3, <1>4, <1>5

\* What is left of a sequence without its i-th element
LEMMA RemoveAtFacts ==
    ASSUME NEW S, NEW s \in Seq(S), NEW i \in DOMAIN s
    PROVE  /\ RemoveAt(s, i) \in Seq(S)
           /\ Len(RemoveAt(s, i)) = Len(s) - 1
           /\ \A j \in 1..(Len(s) - 1) :
                RemoveAt(s, i)[j] = IF j < i THEN s[j] ELSE s[j + 1]
<1> DEFINE before == SubSeq(s, 1, i - 1)
           after == SubSeq(s, i + 1, Len(s))
<1>1. i \in 1..Len(s) /\ Len(s) \in Nat
  OBVIOUS
<1>2. /\ before \in Seq(S) /\ Len(before) = i - 1
      /\ \A j \in 1..(i - 1) : before[j] = s[j]
  BY <1>1
<1>3. /\ after \in Seq(S) /\ Len(after) = Len(s) - i
      /\ \A j \in 1..(Len(s) - i) : after[j] = s[i + j]
  BY <1>1
<1>4. RemoveAt(s, i) = before \o after
  BY DEF RemoveAt
<1> HIDE DEF before, after
<1>5. /\ before \o after \in Seq(S) /\ Len(before \o after) = Len(s) - 1
      /\ \A j \in 1..(Len(s) - 1) :
           (before \o after)[j] = IF j <= i - 1 THEN before[j] ELSE after[j - (i - 1)]
  BY <1>1, <1>2, <1>3
<1>6. ASSUME NEW j \in 1..(Len(s) - 1)
      PROVE  (before \o after)[j] = IF j < i THEN s[j] ELSE s[j + 1]
  <2>1. CASE j < i
    BY <1>1, <1>2, <1>5, <2>1
  <2>2. CASE ~(j < i)
    <3>1. j - (i - 1) \in 1..(Len(s) - i) /\ i + (j - (i - 1)) = j + 1
      BY <1>1, <2>2
    <3>2. after[j - (i - 1)] = s[j + 1]
      BY <1>3, <3>1
    <3> QED BY <1>1, <1>5, <2>2, <3>2
  <2> QED BY <2>1, <2>2
<1> QED BY <1>4, <1>5, <1>6

LEMMA HeadAndTail ==
    ASSUME NEW S, NEW s \in Seq(S), s # <<>>
    PROVE  /\ 1 \in DOMAIN s /\ Head(s) = s[1] /\ s[1] \in S /\ Len(s) >= 1
           /\ Tail(s) \in Seq(S) /\ Len(Tail(s)) = Len(s) - 1
           /\ \A j \in 1..(Len(s) - 1) : Tail(s)[j] = s[j + 1]
  OBVIOUS

LEMMA CountersFacts ==
    ASSUME NEW S, NEW s \in Seq(S), \A i \in DOMAIN s : s[i].n \in Nat
    PROVE  /\ Counters(s) \in Seq(Nat) /\ Len(Counters(s)) = Len(s)
           /\ \A i \in 1..Len(s) : Counters(s)[i] = s[i].n
<1>1. Counters(s) \in [DOMAIN s -> Nat]
  BY DEF Counters
<1>2. Counters(s) \in Seq(Nat) /\ Len(Counters(s)) = Len(s)
  BY <1>1, MappedSeq
<1>3. DOMAIN s = 1..Len(s)
  OBVIOUS
<1> QED BY <1>2, <1>3 DEF Counters

-----------------------------------------------------------------------------
\* Types

LEMMA ContentFacts ==
    /\ Keystroke \in Contents /\ LargePaste \in Contents
    /\ \A t \in Transfers : TransferStart(t) \in Contents /\ TransferEnd(t) \in Contents
    /\ \A t \in Transfers : \A i \in 1..Chunks : TransferChunk(t, i) \in Contents
    /\ \A c \in Contents : c.type \in {"start", "chunk", "end"} => c.transfer \in Transfers
    /\ \A c \in Contents : c.type = "chunk" => c.index \in 1..Chunks
    /\ \A c \in Contents : Offset(c) \in 0..(Chunks + 1)
<1>1. ASSUME NEW c \in Contents
      PROVE  /\ c.type \in {"start", "chunk", "end"} => c.transfer \in Transfers
             /\ c.type = "chunk" => c.index \in 1..Chunks
  BY DEF Contents, Keystroke, LargePaste, TransferStart, TransferChunk, TransferEnd
<1>2. ASSUME NEW c \in Contents
      PROVE  Offset(c) \in 0..(Chunks + 1)
  BY <1>1 DEF Offset
<1> QED BY <1>1, <1>2 DEF Contents

LEMMA OnlyOne ==
    ASSUME NEW S, \A t, u \in S : t = u
    PROVE  Cardinality(S) <= 1
<1>1. CASE S = {}
  BY <1>1, FS_EmptySet
<1>2. ASSUME NEW t \in S
      PROVE  Cardinality(S) <= 1
  <2>1. S = {t}
    BY <1>2
  <2>2. Cardinality({t}) = 1
    BY FS_Singleton
  <2> QED BY <2>1, <2>2
<1> QED BY <1>1, <1>2

LEMMA SealFacts ==
    ASSUME TypeOK, NEW g \in Goroutines, staged[g] = <<>>, Seal(g)
    PROVE  /\ SendCounter' = SendCounter + 1 /\ SendCounter' \in Nat
           /\ staged' \in [Goroutines -> Seq(Nat)]
           /\ staged'[g] = <<SendCounter>>
           /\ \A h \in Goroutines \ {g} : staged'[h] = staged[h]
           /\ \A h \in Goroutines : Len(staged'[h]) <= 1
<1>1. /\ SendCounter \in Nat /\ staged \in [Goroutines -> Seq(Nat)]
      /\ staged' = [staged EXCEPT ![g] = Append(staged[g], SendCounter)]
      /\ SendCounter' = SendCounter + 1
  BY DEF TypeOK, Seal
<1>2. /\ <<SendCounter>> \in Seq(Nat) /\ Len(<<SendCounter>>) = 1
      /\ Append(staged[g], SendCounter) = <<SendCounter>>
  BY <1>1
<1>3. /\ staged' \in [Goroutines -> Seq(Nat)] /\ staged'[g] = <<SendCounter>>
      /\ \A h \in Goroutines \ {g} : staged'[h] = staged[h]
  BY <1>1, <1>2
<1>4. ASSUME NEW h \in Goroutines
      PROVE  Len(staged'[h]) <= 1
  <2>1. CASE h = g
    <3>1. Len(staged'[h]) = Len(<<SendCounter>>)
      BY <1>3, <2>1
    <3> QED BY <1>2, <3>1
  <2>2. CASE h # g
    BY <1>3, <2>2 DEF TypeOK
  <2> QED BY <2>1, <2>2
<1> QED BY <1>1, <1>3, <1>4

\* What a message that is handled at the agent may do to what is staged
LEMMA AnswerFacts ==
    ASSUME TypeOK, staged["loop"] = <<>>, Seal("loop") \/ Untouched
    PROVE  /\ SendCounter' \in Nat
           /\ staged' \in [Goroutines -> Seq(Nat)]
           /\ \A h \in Goroutines : Len(staged'[h]) <= 1
<1>1. CASE Seal("loop")
  BY <1>1, SealFacts DEF Goroutines
<1>2. CASE Untouched
  BY <1>2 DEF Untouched, TypeOK
<1> QED BY <1>1, <1>2

ReceiveStep ==
    \/ ReceiveKeystroke \/ ReceiveStart \/ PutAside
    \/ ReceiveLateChunk \/ ReceiveChunk \/ ReceiveEnd

LEMMA ReceiveTypes ==
    ASSUME TypeOK, SinglePending, ReceiveStep
    PROVE  TypeOK' /\ SinglePending'
<1>1. up # <<>> /\ up \in Seq(Sealed) /\ up' = Tail(up)
  BY DEF TypeOK, NextUp, ReceiveKeystroke, ReceiveStart, PutAside,
         ReceiveLateChunk, ReceiveChunk, ReceiveEnd, ReceiveStep
<1>2. up' \in Seq(Sealed)
  BY <1>1, HeadAndTail
<1>3. Received \in Contents
  <2>1. Head(up) \in Sealed
    BY <1>1, HeadAndTail
  <2> QED BY <2>1 DEF Sealed, Received
<1>4. RecvCounter' \in Nat
  BY DEF TypeOK, OpenNext, NextCounter, ReceiveKeystroke, ReceiveStart, PutAside,
         ReceiveLateChunk, ReceiveChunk, ReceiveEnd, ReceiveStep, agentVars
<1>5. staged["loop"] = <<>> /\ (Seal("loop") \/ Untouched)
  BY DEF NextUp, Untouched, ReceiveKeystroke, ReceiveStart, PutAside,
         ReceiveLateChunk, ReceiveChunk, ReceiveEnd, ReceiveStep, agentVars
<1>6. /\ DOMAIN pending' \subseteq Transfers /\ SinglePending'
      /\ \A t \in DOMAIN pending' : pending'[t] \subseteq 1..Chunks
  <2>1. CASE ReceiveKeystroke \/ PutAside
    BY <2>1 DEF ReceiveKeystroke, PutAside, TypeOK, SinglePending, agentVars
  <2>2. CASE ReceiveStart
    <3>1. Received.transfer \in Transfers
      BY <1>3, <2>2, ContentFacts DEF ReceiveStart, NextUp, Received
    <3>2. CASE pending' = pending
      BY <3>2 DEF TypeOK, SinglePending
    <3>3. CASE /\ Accepts(Received.transfer)
               /\ pending' = [x \in DOMAIN pending \union {Received.transfer} |->
                                IF x = Received.transfer THEN {} ELSE pending[x]]
      BY <3>1, <3>3 DEF Accepts, SinglePending
    <3> QED BY <2>2, <3>2, <3>3 DEF ReceiveStart
  <2>3. CASE ReceiveLateChunk \/ ReceiveEnd
    BY <2>3 DEF ReceiveLateChunk, ReceiveEnd, Forget, Restrict, TypeOK, SinglePending
  <2>4. CASE ReceiveChunk
    <3>1. Received.index \in 1..Chunks
      BY <1>3, <2>4, ContentFacts DEF ReceiveChunk, NextUp, Received
    <3> DEFINE t == Received.transfer
               got == pending[t] \union {Received.index}
    <3>2. pending' = pending \/ pending' = [pending EXCEPT ![t] = got]
      BY <2>4 DEF ReceiveChunk
    <3>3. t \in DOMAIN pending /\ got \subseteq 1..Chunks
      BY <2>4, <3>1 DEF ReceiveChunk, TypeOK
    <3> HIDE DEF t, got
    <3> QED BY <3>2, <3>3 DEF TypeOK, SinglePending
  <2> QED BY <2>1, <2>2, <2>3, <2>4 DEF ReceiveStep
<1>7. UNCHANGED <<down, sendVars, recvVars, userVars, lost, overtaken>>
      /\ skipped' \in BOOLEAN
  BY DEF ReceiveKeystroke, ReceiveStart, PutAside, ReceiveLateChunk, ReceiveChunk,
         ReceiveEnd, ReceiveStep, historyVars, TypeOK
<1>8. Cardinality(DOMAIN pending') <= 1
  BY <1>6, OnlyOne DEF SinglePending
<1> QED BY <1>2, <1>4, <1>5, <1>6, <1>7, <1>8, AnswerFacts
        DEF TypeOK, sendVars, recvVars, userVars

LEMMA SendTypes ==
    ASSUME TypeOK, SinglePending,
           \/ ShellOutput \/ ReplayRequest
           \/ \E g \in Goroutines : Queue(g) \/ QueueTimeout(g)
    PROVE  TypeOK' /\ SinglePending'
<1>1. UNCHANGED <<RecvCounter, pending, up, sendVars, recvVars, userVars, skipped>>
  BY DEF ShellOutput, ReplayRequest, Queue, QueueTimeout, historyVars
<1>2. CASE ShellOutput \/ ReplayRequest
  <2>1. PICK g \in Goroutines : staged[g] = <<>> /\ Seal(g)
    BY <1>2 DEF ShellOutput, ReplayRequest, Goroutines
  <2>2. UNCHANGED <<down, lost, overtaken>>
    BY <1>2 DEF ShellOutput, ReplayRequest, historyVars
  <2> QED BY <1>1, <2>1, <2>2, SealFacts
          DEF TypeOK, SinglePending, sendVars, recvVars, userVars
<1>3. ASSUME NEW g \in Goroutines, Queue(g) \/ QueueTimeout(g)
      PROVE  TypeOK' /\ SinglePending'
  <2>1. staged' = [staged EXCEPT ![g] = <<>>] /\ SendCounter' = SendCounter
    BY <1>3 DEF Queue, QueueTimeout
  <2>2. /\ staged' \in [Goroutines -> Seq(Nat)]
        /\ \A h \in Goroutines : staged'[h] = <<>> \/ staged'[h] = staged[h]
    BY <2>1 DEF TypeOK
  <2>3. \A h \in Goroutines : Len(staged'[h]) <= 1
    BY <2>2 DEF TypeOK
  <2>4. overtaken' \in BOOLEAN
    <3>1. CASE Queue(g)
      <4> DEFINE earlier == \E h \in Goroutines :
                              staged[h] # <<>> /\ Head(staged[h]) < Head(staged[g])
      <4>1. overtaken' = (overtaken \/ earlier)
        BY <3>1 DEF Queue
      <4> HIDE DEF earlier
      <4>2. (overtaken \/ earlier) \in BOOLEAN
        BY Zenon
      <4> QED BY <4>1, <4>2, Zenon
    <3>2. CASE QueueTimeout(g)
      BY <3>2 DEF QueueTimeout, TypeOK
    <3> QED BY <1>3, <3>1, <3>2
  <2>5. down' \in Seq(Nat) /\ lost' \subseteq {"down", "up"}
    <3>1. down' = down \o staged[g] \/ down' = down
      BY <1>3 DEF Queue, QueueTimeout
    <3>2. lost' = lost \union {"down"} \/ lost' = lost
      BY <1>3 DEF Queue, QueueTimeout
    <3>3. /\ down \in Seq(Nat) /\ staged[g] \in Seq(Nat)
          /\ lost \subseteq {"down", "up"}
      BY DEF TypeOK
    <3>4. down \o staged[g] \in Seq(Nat)
      BY <3>3
    <3> QED BY <3>1, <3>2, <3>3, <3>4
  <2> QED BY <1>1, <2>1, <2>2, <2>3, <2>4, <2>5
          DEF TypeOK, SinglePending, sendVars, recvVars, userVars
<1> QED BY <1>2, <1>3

LEMMA LossTypes ==
    ASSUME TypeOK, SinglePending, LoseDown \/ LoseUp
    PROVE  TypeOK' /\ SinglePending'
<1>1. CASE LoseDown
  <2>1. down' \in Seq(Nat)
    BY <1>1, RemoveAtFacts DEF LoseDown, TypeOK
  <2> QED BY <1>1, <2>1 DEF LoseDown, TypeOK, SinglePending, agentVars, sendVars,
                            recvVars, userVars
<1>2. CASE LoseUp
  <2>1. up' \in Seq(Sealed)
    BY <1>2, RemoveAtFacts DEF LoseUp, TypeOK
  <2> QED BY <1>2, <2>1 DEF LoseUp, TypeOK, SinglePending, agentVars, sendVars,
                            recvVars, userVars
<1> QED BY <1>1, <1>2

\* A whole transfer, as it is queued
Transfer(t) ==
    <<TransferStart(t)>> \o [i \in 1..Chunks |-> TransferChunk(t, i)] \o <<TransferEnd(t)>>

LEMMA TransferFacts ==
    ASSUME NEW t \in Transfers
    PROVE  /\ Transfer(t) \in Seq(Contents) /\ Len(Transfer(t)) = Chunks + 2
           /\ \A j \in 1..(Chunks + 2) :
                /\ Transfer(t)[j].type \in {"start", "chunk", "end"}
                /\ Transfer(t)[j].transfer = t
                /\ Offset(Transfer(t)[j]) = j - 1
<1> DEFINE chunks == [i \in 1..Chunks |-> TransferChunk(t, i)]
<1>1. /\ TransferStart(t) \in Contents /\ TransferEnd(t) \in Contents
      /\ \A i \in 1..Chunks : TransferChunk(t, i) \in Contents
  BY ContentFacts
<1>2. /\ TransferStart(t).type = "start" /\ TransferStart(t).transfer = t
      /\ TransferEnd(t).type = "end" /\ TransferEnd(t).transfer = t
      /\ \A i \in 1..Chunks : /\ TransferChunk(t, i).type = "chunk"
                             /\ TransferChunk(t, i).transfer = t
                             /\ TransferChunk(t, i).index = i
  BY DEF TransferStart, TransferEnd, TransferChunk
<1>3. /\ chunks \in Seq(Contents) /\ Len(chunks) = Chunks
      /\ \A i \in 1..Chunks : chunks[i] = TransferChunk(t, i)
  <2>1. chunks \in [1..Chunks -> Contents]
    BY <1>1
  <2>2. chunks \in Seq(Contents)
    BY <2>1, SeqDef
  <2>3. DOMAIN chunks = 1..Len(chunks) /\ Len(chunks) \in Nat
    BY <2>2, LenProperties
  <2>4. DOMAIN chunks = 1..Chunks
    OBVIOUS
  <2>5. 1..Chunks = 1..Len(chunks)
    BY <2>3, <2>4
  <2>6. Len(chunks) = Chunks
    BY <2>3, <2>5
  <2> QED BY <2>2, <2>6
<1> HIDE DEF chunks
<1>4. Transfer(t) = <<TransferStart(t)>> \o chunks \o <<TransferEnd(t)>>
  BY DEF Transfer, chunks
<1>5. /\ Transfer(t) \in Seq(Contents) /\ Len(Transfer(t)) = Chunks + 2
      /\ \A j \in 1..(Chunks + 2) :
           Transfer(t)[j] = IF j = 1 THEN TransferStart(t)
                            ELSE IF j <= Chunks + 1 THEN chunks[j - 1] ELSE TransferEnd(t)
  BY <1>1, <1>3, <1>4
<1>6. ASSUME NEW j \in 1..(Chunks + 2)
      PROVE  /\ Transfer(t)[j].type \in {"start", "chunk", "end"}
             /\ Transfer(t)[j].transfer = t
             /\ Offset(Transfer(t)[j]) = j - 1
  <2>1. CASE j = 1
    BY <1>2, <1>5, <2>1 DEF Offset
  <2>2. CASE j > 1 /\ j <= Chunks + 1
    <3>1. j - 1 \in 1..Chunks
      BY <2>2
    <3>2. Transfer(t)[j] = TransferChunk(t, j - 1)
      BY <1>3, <1>5, <2>2, <3>1
    <3> QED BY <1>2, <3>1, <3>2 DEF Offset
  <2>3. CASE j = Chunks + 2
    <3>1. Transfer(t)[j] = TransferEnd(t)
      BY <1>5, <2>3
    <3> QED BY <1>2, <2>3, <3>1 DEF Offset
  <2> QED BY <2>1, <2>2, <2>3
<1> QED BY <1>5, <1>6

LEMMA UploadQueues ==
    ASSUME TypeOK, NEW t \in Transfers, Upload(t)
    PROVE  /\ sendQueue' = sendQueue \o Transfer(t)
           /\ sendQueue' \in Seq(Contents)
           /\ Len(sendQueue') = Len(sendQueue) + Chunks + 2
           /\ \A p \in 1..Len(sendQueue) : sendQueue'[p] = sendQueue[p]
           /\ \A j \in 1..(Chunks + 2) :
                sendQueue'[Len(sendQueue) + j] = Transfer(t)[j]
<1> DEFINE s == <<TransferStart(t)>>
           c == [i \in 1..Chunks |-> TransferChunk(t, i)]
           e == <<TransferEnd(t)>>
<1>1. sendQueue \in Seq(Contents) /\ s \in Seq(Contents) /\ e \in Seq(Contents)
  BY ContentFacts DEF TypeOK
<1>2. c \in Seq(Contents)
  <2>1. c \in [1..Chunks -> Contents]
    BY ContentFacts
  <2> QED BY <2>1, SeqDef
<1>3. sendQueue' = ((sendQueue \o s) \o c) \o e
  BY DEF Upload
<1>4. Transfer(t) = (s \o c) \o e
  BY DEF Transfer
<1> HIDE DEF s, c, e
<1>5. sendQueue' = sendQueue \o ((s \o c) \o e)
  <2>1. (sendQueue \o s) \o c = sendQueue \o (s \o c)
    BY SMTT(20), <1>1, <1>2, ConcatAssociative
  <2>2. ASSUME NEW sc \in Seq(Contents)
        PROVE  (sendQueue \o sc) \o e = sendQueue \o (sc \o e)
    BY <1>1, ConcatAssociative
  <2>3. (sendQueue \o (s \o c)) \o e = sendQueue \o ((s \o c) \o e)
    <3>1. s \o c \in Seq(Contents)
      BY <1>1, <1>2
    <3> QED BY <2>2, <3>1
  <2> QED BY <1>3, <2>1, <2>3
<1>6. sendQueue' = sendQueue \o Transfer(t)
  BY <1>4, <1>5
<1>7. Transfer(t) \in Seq(Contents) /\ Len(Transfer(t)) = Chunks + 2
  BY TransferFacts
<1>8. /\ sendQueue' \in Seq(Contents)
      /\ Len(sendQueue') = Len(sendQueue) + Chunks + 2
      /\ \A p \in 1..Len(sendQueue') :
           sendQueue'[p] = IF p <= Len(sendQueue) THEN sendQueue[p]
                           ELSE Transfer(t)[p - Len(sendQueue)]
  <2>1. ASSUME NEW q \in Seq(Contents)
        PROVE  /\ sendQueue \o q \in Seq(Contents)
               /\ Len(sendQueue \o q) = Len(sendQueue) + Len(q)
               /\ \A p \in 1..(Len(sendQueue) + Len(q)) :
                    (sendQueue \o q)[p] = IF p <= Len(sendQueue) THEN sendQueue[p]
                                          ELSE q[p - Len(sendQueue)]
    BY <1>1
  <2>2. Len(sendQueue') = Len(sendQueue) + (Chunks + 2)
    BY <1>6, <1>7, <2>1
  <2>3. Len(sendQueue) \in Nat
    BY <1>1
  <2> QED BY <1>6, <1>7, <2>1, <2>2, <2>3
<1>9. ASSUME NEW j \in 1..(Chunks + 2)
      PROVE  sendQueue'[Len(sendQueue) + j] = Transfer(t)[j]
  <2>1. /\ Len(sendQueue) + j \in 1..Len(sendQueue')
        /\ ~(Len(sendQueue) + j <= Len(sendQueue))
        /\ (Len(sendQueue) + j) - Len(sendQueue) = j
    BY <1>1, <1>8
  <2> QED BY <1>8, <2>1
<1>10. \A p \in 1..Len(sendQueue) : sendQueue'[p] = sendQueue[p]
  BY <1>1, <1>8
<1> QED BY <1>6, <1>8, <1>9, <1>10

LEMMA BrowserTypes ==
    ASSUME TypeOK, SinglePending, BrowserStep
    PROVE  TypeOK' /\ SinglePending'
<1>1. CASE Subscribe
  BY <1>1 DEF Subscribe, TypeOK, SinglePending, agentVars, sendVars, recvVars, historyVars
<1>2. CASE Type
  <2>1. sendQueue' \in Seq(Contents) /\ keys' \in Nat
    BY <1>2, ContentFacts DEF Type, TypeOK
  <2> QED BY <1>2, <2>1 DEF Type, TypeOK, SinglePending, agentVars, recvVars, historyVars
<1>3. ASSUME NEW t \in Transfers, Upload(t)
      PROVE  TypeOK' /\ SinglePending'
  <2>1. sendQueue' \in Seq(Contents) /\ uploads' \subseteq Transfers
    BY <1>3, UploadQueues DEF Upload, TypeOK
  <2> QED BY <1>3, <2>1 DEF Upload, TypeOK, SinglePending, agentVars, recvVars,
                            historyVars
<1>4. CASE SealBegins
  <2>1. sendQueue' \in Seq(Contents) /\ Head(sendQueue) \in Contents
    BY <1>4, HeadAndTail DEF SealBegins, TypeOK
  <2>2. [n |-> sendCounter, content |-> Head(sendQueue)] \in Sealed
    BY <2>1 DEF TypeOK, Sealed
  <2>3. sealing' \in Seq(Sealed)
    BY <1>4, <2>2 DEF SealBegins, TypeOK
  <2> QED BY <1>4, <2>1, <2>3 DEF SealBegins, TypeOK, SinglePending, agentVars,
                                  recvVars, userVars, historyVars
<1>5. CASE SealEnds
  <2>1. PICK i \in DOMAIN sealing : /\ up' = Append(up, sealing[i])
                                  /\ sealing' = RemoveAt(sealing, i)
    BY <1>5 DEF SealEnds
  <2>2. up' \in Seq(Sealed) /\ sealing' \in Seq(Sealed) /\ sendCounter' \in Nat
    BY SMTT(20), <1>5, <2>1, RemoveAtFacts DEF SealEnds, TypeOK
  <2> QED BY <1>5, <2>2 DEF SealEnds, TypeOK, SinglePending, agentVars, recvVars,
                            userVars, historyVars
<1>6. CASE Deliver
  <2>1. down' \in Seq(Nat) /\ Head(down) \in Nat
    BY <1>6, HeadAndTail DEF Deliver, TypeOK
  <2>2. recvQueue' \in Seq(Nat) /\ lost' \subseteq {"down", "up"}
    BY <1>6, <2>1 DEF Deliver, TypeOK
  <2> QED BY <1>6, <2>1, <2>2 DEF Deliver, TypeOK, SinglePending, agentVars, sendVars,
                                  userVars
<1>7. CASE OpenBegins
  <2>1. recvQueue' \in Seq(Nat) /\ Head(recvQueue) \in Nat
    BY <1>7, HeadAndTail DEF OpenBegins, TypeOK
  <2>2. opening' \in Seq([n : Nat, expected : Nat])
    BY <1>7, <2>1 DEF OpenBegins, TypeOK
  <2> QED BY <1>7, <2>1, <2>2 DEF OpenBegins, TypeOK, SinglePending, agentVars, sendVars,
                                  userVars, historyVars
<1>8. CASE OpenEnds
  <2>1. opening' \in Seq([n : Nat, expected : Nat]) /\ recvCounter' \in Nat
    BY <1>8, RemoveAtFacts DEF OpenEnds, TypeOK
  <2> QED BY <1>8, <2>1 DEF OpenEnds, TypeOK, SinglePending, agentVars, sendVars,
                            userVars, historyVars
<1> QED BY <1>1, <1>2, <1>3, <1>4, <1>5, <1>6, <1>7, <1>8 DEF BrowserStep

LEMMA TypeStep ==
    ASSUME TypeOK, SinglePending, [Next]_vars
    PROVE  TypeOK' /\ SinglePending'
<1>1. CASE UNCHANGED vars
  BY <1>1 DEF TypeOK, SinglePending, vars, agentVars, sendVars, recvVars, userVars,
              historyVars
<1> QED BY <1>1, ReceiveTypes, SendTypes, LossTypes, BrowserTypes
        DEF Next, AgentStep, ReceiveStep

-----------------------------------------------------------------------------
\* Towards the browser: what the steps do to DownInTransit

Opening == [n : Nat, expected : Nat]

LEMMA Concatenated ==
    ASSUME NEW o \in Seq(Opening), NEW q \in Seq(Nat), NEW d \in Seq(Nat)
    PROVE  LET all == Counters(o) \o q \o d IN
             /\ all \in Seq(Nat) /\ Len(all) = Len(o) + Len(q) + Len(d)
             /\ \A i \in 1..Len(o) : all[i] = o[i].n
             /\ \A i \in 1..Len(q) : all[Len(o) + i] = q[i]
             /\ \A i \in 1..Len(d) : all[Len(o) + Len(q) + i] = d[i]
<1> DEFINE c == Counters(o)
<1>1. /\ c \in Seq(Nat) /\ Len(c) = Len(o) /\ Len(o) \in Nat
      /\ \A i \in 1..Len(o) : c[i] = o[i].n
  <2>1. ASSUME NEW i \in DOMAIN o
        PROVE  o[i].n \in Nat
    <3>1. o[i] \in Opening
      OBVIOUS
    <3> QED BY <3>1 DEF Opening
  <2> QED BY <2>1, CountersFacts
<1> HIDE DEF c
<1>3. ASSUME NEW r \in Seq(Nat), NEW s \in Seq(Nat)
      PROVE  /\ r \o s \in Seq(Nat) /\ Len(r \o s) = Len(r) + Len(s)
             /\ \A i \in 1..(Len(r) + Len(s)) :
                  (r \o s)[i] = IF i <= Len(r) THEN r[i] ELSE s[i - Len(r)]
  BY ConcatProperties
<1>2. /\ c \o q \in Seq(Nat) /\ Len(c \o q) = Len(o) + Len(q)
      /\ \A i \in 1..(Len(o) + Len(q)) :
           (c \o q)[i] = IF i <= Len(o) THEN c[i] ELSE q[i - Len(o)]
  <2>1. Len(c \o q) = Len(c) + Len(q)
    BY <1>1, <1>3
  <2> QED BY <1>1, <1>3, <2>1
<1> DEFINE all == c \o q \o d
<1>4. /\ all \in Seq(Nat) /\ Len(all) = Len(o) + Len(q) + Len(d)
      /\ \A i \in 1..(Len(o) + Len(q) + Len(d)) :
           all[i] = IF i <= Len(o) + Len(q) THEN (c \o q)[i] ELSE d[i - (Len(o) + Len(q))]
  <2> DEFINE front == c \o q
  <2>1. front \in Seq(Nat) /\ Len(front) = Len(o) + Len(q)
    BY <1>2
  <2> HIDE DEF front
  <2>2. /\ front \o d \in Seq(Nat) /\ Len(front \o d) = Len(front) + Len(d)
        /\ \A i \in 1..(Len(front) + Len(d)) :
             (front \o d)[i] = IF i <= Len(front) THEN front[i] ELSE d[i - Len(front)]
    BY <1>3, <2>1
  <2>3. all = front \o d
    BY DEF front
  <2>4. /\ all \in Seq(Nat) /\ Len(all) = Len(o) + Len(q) + Len(d)
        /\ \A i \in 1..(Len(o) + Len(q) + Len(d)) :
             all[i] = IF i <= Len(o) + Len(q) THEN front[i] ELSE d[i - (Len(o) + Len(q))]
    BY <2>1, <2>2, <2>3
  <2> QED BY <2>4 DEF front
<1> HIDE DEF all
<1>5. Len(q) \in Nat /\ Len(d) \in Nat
  OBVIOUS
<1>6. ASSUME NEW i \in 1..Len(o)
      PROVE  all[i] = o[i].n
  <2>1. /\ i <= Len(o) /\ i <= Len(o) + Len(q)
        /\ i \in 1..(Len(o) + Len(q)) /\ i \in 1..(Len(o) + Len(q) + Len(d))
    BY <1>1, <1>5
  <2>2. all[i] = (c \o q)[i]
    BY <1>4, <2>1
  <2>3. (c \o q)[i] = c[i]
    BY <1>2, <2>1
  <2> QED BY <1>1, <2>2, <2>3
<1>7. ASSUME NEW i \in 1..Len(q)
      PROVE  all[Len(o) + i] = q[i]
  <2>1. (Len(o) + i) - Len(o) = i /\ ~(Len(o) + i <= Len(o))
        /\ Len(o) + i \in 1..(Len(o) + Len(q))
        /\ Len(o) + i \in 1..(Len(o) + Len(q) + Len(d))
        /\ Len(o) + i <= Len(o) + Len(q)
    BY <1>1, <1>5
  <2>2. all[Len(o) + i] = (c \o q)[Len(o) + i]
    BY <1>4, <2>1
  <2>3. (c \o q)[Len(o) + i] = q[(Len(o) + i) - Len(o)]
    BY <1>2, <2>1
  <2> QED BY <2>1, <2>2, <2>3
<1>8. ASSUME NEW i \in 1..Len(d)
      PROVE  all[Len(o) + Len(q) + i] = d[i]
  <2>1. (Len(o) + Len(q) + i) - (Len(o) + Len(q)) = i
        /\ ~(Len(o) + Len(q) + i <= Len(o) + Len(q))
        /\ Len(o) + Len(q) + i \in 1..(Len(o) + Len(q) + Len(d))
    BY <1>1, <1>5
  <2> QED BY <1>4, <2>1
<1> QED BY <1>4, <1>6, <1>7, <1>8 DEF all, c

\* The parts of DownInTransit, before and after a step
LEMMA Transit ==
    ASSUME TypeOK
    PROVE  /\ opening \in Seq(Opening) /\ recvQueue \in Seq(Nat) /\ down \in Seq(Nat)
           /\ DownInTransit \in Seq(Nat)
           /\ Length = Len(opening) + Len(recvQueue) + Len(down)
           /\ \A i \in 1..Len(opening) : DownInTransit[i] = opening[i].n
           /\ \A i \in 1..Len(recvQueue) :
                DownInTransit[Len(opening) + i] = recvQueue[i]
           /\ \A i \in 1..Len(down) :
                DownInTransit[Len(opening) + Len(recvQueue) + i] = down[i]
<1>1. opening \in Seq(Opening) /\ recvQueue \in Seq(Nat) /\ down \in Seq(Nat)
  BY DEF TypeOK, Opening
<1> QED BY <1>1, Concatenated DEF DownInTransit, Length

LEMMA TransitNext ==
    ASSUME TypeOK'
    PROVE  /\ opening' \in Seq(Opening) /\ recvQueue' \in Seq(Nat) /\ down' \in Seq(Nat)
           /\ DownInTransit' \in Seq(Nat)
           /\ Length' = Len(opening') + Len(recvQueue') + Len(down')
           /\ \A i \in 1..Len(opening') : DownInTransit'[i] = opening'[i].n
           /\ \A i \in 1..Len(recvQueue') :
                DownInTransit'[Len(opening') + i] = recvQueue'[i]
           /\ \A i \in 1..Len(down') :
                DownInTransit'[Len(opening') + Len(recvQueue') + i] = down'[i]
<1>1. opening' \in Seq(Opening) /\ recvQueue' \in Seq(Nat) /\ down' \in Seq(Nat)
  BY DEF TypeOK, Opening
<1> QED BY <1>1, Concatenated DEF DownInTransit, Length

Kept == Length' = Length /\ \A i \in 1..Length : DownInTransit'[i] = DownInTransit[i]
Added(v) ==
    /\ Length' = Length + 1 /\ DownInTransit'[Length + 1] = v
    /\ \A i \in 1..Length : DownInTransit'[i] = DownInTransit[i]
TakenOut(k) ==
    /\ Length' = Length - 1
    /\ \A i \in 1..(Length - 1) :
         DownInTransit'[i] = IF i < k THEN DownInTransit[i] ELSE DownInTransit[i + 1]

LEMMA TransitKept ==
    ASSUME TypeOK, TypeOK', UNCHANGED <<opening, recvQueue, down>>
    PROVE  Kept
<1>1. UNCHANGED DownInTransit
  BY DEF DownInTransit, Counters
<1> QED BY <1>1 DEF Kept, Length

LEMMA TransitAdded ==
    ASSUME TypeOK, TypeOK', NEW v \in Nat, UNCHANGED <<opening, recvQueue>>,
           down' = Append(down, v)
    PROVE  Added(v)
<1>1. /\ Len(down') = Len(down) + 1 /\ down'[Len(down) + 1] = v
      /\ \A i \in 1..Len(down) : down'[i] = down[i]
  BY Transit
<1>2. Length' = Length + 1
  BY <1>1, Transit, TransitNext
<1>3. DownInTransit'[Length + 1] = v
  <2>1. Length + 1 = Len(opening') + Len(recvQueue') + (Len(down) + 1)
        /\ Len(down) + 1 \in 1..Len(down')
    BY <1>1, Transit
  <2> QED BY <1>1, <2>1, TransitNext
<1>4. ASSUME NEW i \in 1..Length
      PROVE  DownInTransit'[i] = DownInTransit[i]
  <2>1. CASE i <= Len(opening)
    BY <2>1, Transit, TransitNext
  <2>2. CASE i > Len(opening) /\ i <= Len(opening) + Len(recvQueue)
    <3>1. PICK j \in 1..Len(recvQueue) : i = Len(opening) + j
      <4>1. i - Len(opening) \in 1..Len(recvQueue) /\ i = Len(opening) + (i - Len(opening))
        BY <2>2, Transit
      <4> QED BY <4>1
    <3> QED BY <3>1, Transit, TransitNext
  <2>3. CASE i > Len(opening) + Len(recvQueue)
    <3>1. PICK j \in 1..Len(down) : i = Len(opening) + Len(recvQueue) + j
      <4> DEFINE k == i - (Len(opening) + Len(recvQueue))
      <4>1. k \in 1..Len(down) /\ i = Len(opening) + Len(recvQueue) + k
        BY <2>3, Transit
      <4> QED BY <4>1
    <3>2. j \in 1..Len(down')
      BY <1>1, Transit
    <3> QED BY <1>1, <3>1, <3>2, Transit, TransitNext
  <2> QED BY <2>1, <2>2, <2>3, Transit
<1> QED BY <1>2, <1>3, <1>4 DEF Added

\* A message is taken over from down into recvQueue
LEMMA TransitPassedOn ==
    ASSUME TypeOK, TypeOK', UNCHANGED opening, down # <<>>,
           recvQueue' = Append(recvQueue, Head(down)), down' = Tail(down)
    PROVE  Kept
<1>1. /\ Head(down) = down[1] /\ Len(down) >= 1 /\ Len(down') = Len(down) - 1
      /\ \A i \in 1..(Len(down) - 1) : down'[i] = down[i + 1]
  BY Transit, HeadAndTail
<1>2. /\ Len(recvQueue') = Len(recvQueue) + 1
      /\ recvQueue'[Len(recvQueue) + 1] = down[1]
      /\ \A i \in 1..Len(recvQueue) : recvQueue'[i] = recvQueue[i]
  BY <1>1, Transit
<1>3. Length' = Length
  BY <1>1, <1>2, Transit, TransitNext
<1>4. ASSUME NEW i \in 1..Length
      PROVE  DownInTransit'[i] = DownInTransit[i]
  <2>1. CASE i <= Len(opening)
    BY <2>1, Transit, TransitNext
  <2>2. CASE i > Len(opening) /\ i <= Len(opening) + Len(recvQueue)
    <3>1. PICK j \in 1..Len(recvQueue) : i = Len(opening) + j
      <4>1. i - Len(opening) \in 1..Len(recvQueue) /\ i = Len(opening) + (i - Len(opening))
        BY <2>2, Transit
      <4> QED BY <4>1
    <3>2. j \in 1..Len(recvQueue')
      BY <1>2, Transit
    <3> QED BY <1>2, <3>1, <3>2, Transit, TransitNext
  <2>3. CASE i = Len(opening) + Len(recvQueue) + 1
    <3>1. /\ 1 \in 1..Len(down) /\ Len(recvQueue) + 1 \in 1..Len(recvQueue')
          /\ i = Len(opening') + (Len(recvQueue) + 1)
      BY <1>1, <1>2, <2>3, Transit
    <3>2. DownInTransit[i] = down[1]
      BY <2>3, <3>1, Transit
    <3>3. DownInTransit'[i] = recvQueue'[Len(recvQueue) + 1]
      BY <3>1, TransitNext
    <3> QED BY <1>2, <3>2, <3>3
  <2>4. CASE i > Len(opening) + Len(recvQueue) + 1
    <3>1. PICK j \in 1..(Len(down) - 1) : i = Len(opening) + Len(recvQueue) + 1 + j
      <4> DEFINE k == i - (Len(opening) + Len(recvQueue) + 1)
      <4>1. k \in 1..(Len(down) - 1) /\ i = Len(opening) + Len(recvQueue) + 1 + k
        BY <1>1, <2>4, Transit
      <4> QED BY <4>1
    <3>2. /\ j + 1 \in 1..Len(down) /\ i = Len(opening) + Len(recvQueue) + (j + 1)
          /\ j \in 1..Len(down') /\ i = Len(opening') + Len(recvQueue') + j
      BY <1>1, <1>2, <3>1, Transit
    <3>3. DownInTransit[i] = down[j + 1]
      BY <3>2, Transit
    <3>4. DownInTransit'[i] = down'[j]
      BY <3>2, TransitNext
    <3> QED BY <1>1, <3>1, <3>3, <3>4
  <2>5. i \in Nat /\ Len(opening) \in Nat /\ Len(recvQueue) \in Nat
    BY Transit
  <2> DEFINE front == Len(opening) + Len(recvQueue)
  <2>6. i <= Len(opening) \/ (i > Len(opening) /\ i <= front)
          \/ i = front + 1 \/ i > front + 1
    BY <2>5
  <2> QED BY <2>1, <2>2, <2>3, <2>4, <2>6
<1> QED BY <1>3, <1>4 DEF Kept

\* A message is taken over from recvQueue into opening
LEMMA TransitOpening ==
    ASSUME TypeOK, TypeOK', UNCHANGED down, opening = <<>>, recvQueue # <<>>,
           NEW e \in Nat,
           opening' = Append(opening, [n |-> Head(recvQueue), expected |-> e]),
           recvQueue' = Tail(recvQueue)
    PROVE  Kept /\ Len(opening') = 1 /\ opening'[1].expected = e
<1>1. /\ Head(recvQueue) = recvQueue[1] /\ Len(recvQueue) >= 1
      /\ Len(recvQueue') = Len(recvQueue) - 1
      /\ \A i \in 1..(Len(recvQueue) - 1) : recvQueue'[i] = recvQueue[i + 1]
  BY Transit, HeadAndTail
<1>2. /\ Len(opening) = 0 /\ Len(opening') = 1 /\ opening'[1].n = recvQueue[1]
      /\ opening'[1].expected = e
  BY <1>1
<1>3. Length' = Length
  BY <1>1, <1>2, Transit, TransitNext
<1>4. ASSUME NEW i \in 1..Length
      PROVE  DownInTransit'[i] = DownInTransit[i]
  <2>1. CASE i = 1
    <3>1. 1 \in 1..Len(recvQueue) /\ i = Len(opening) + 1 /\ i \in 1..Len(opening')
      BY <1>1, <1>2, <2>1, Transit
    <3>2. DownInTransit[i] = recvQueue[1]
      BY <3>1, Transit
    <3>3. DownInTransit'[i] = opening'[i].n
      BY <3>1, TransitNext
    <3> QED BY <1>2, <2>1, <3>2, <3>3
  <2>2. CASE i > 1 /\ i <= Len(recvQueue)
    <3>1. PICK j \in 1..(Len(recvQueue) - 1) : i = 1 + j
      <4>1. i - 1 \in 1..(Len(recvQueue) - 1) /\ i = 1 + (i - 1)
        BY <2>2, Transit
      <4> QED BY <4>1
    <3>2. /\ j + 1 \in 1..Len(recvQueue) /\ i = Len(opening) + (j + 1)
          /\ j \in 1..Len(recvQueue') /\ i = Len(opening') + j
      BY <1>1, <1>2, <3>1, Transit
    <3>3. DownInTransit[i] = recvQueue[j + 1]
      BY <3>2, Transit
    <3>4. DownInTransit'[i] = recvQueue'[j]
      BY <3>2, TransitNext
    <3> QED BY <1>1, <3>1, <3>3, <3>4
  <2>3. CASE i > Len(recvQueue)
    <3>1. PICK j \in 1..Len(down) : i = Len(recvQueue) + j
      <4>1. i - Len(recvQueue) \in 1..Len(down) /\ i = Len(recvQueue) + (i - Len(recvQueue))
        BY <1>2, <2>3, Transit
      <4> QED BY <4>1
    <3>2. /\ j \in 1..Len(down') /\ i = Len(opening) + Len(recvQueue) + j
          /\ i = Len(opening') + Len(recvQueue') + j
      BY <1>1, <1>2, <3>1, Transit
    <3>3. DownInTransit[i] = down[j]
      BY <3>1, <3>2, Transit
    <3>4. DownInTransit'[i] = down'[j]
      BY <3>2, TransitNext
    <3> QED BY <3>3, <3>4
  <2> QED BY <2>1, <2>2, <2>3, Transit
<1> QED BY <1>2, <1>3, <1>4 DEF Kept

\* The message being opened is done with
LEMMA TransitOpened ==
    ASSUME TypeOK, TypeOK', UNCHANGED <<recvQueue, down>>, Len(opening) = 1, opening' = <<>>
    PROVE  TakenOut(1)
<1>1. Len(opening') = 0
  OBVIOUS
<1>2. Length' = Length - 1
  BY <1>1, Transit, TransitNext
<1>3. ASSUME NEW i \in 1..(Length - 1)
      PROVE  DownInTransit'[i] = DownInTransit[i + 1]
  <2>1. CASE i <= Len(recvQueue)
    <3>1. /\ i \in 1..Len(recvQueue) /\ i + 1 = Len(opening) + i
          /\ i \in 1..Len(recvQueue') /\ i = Len(opening') + i
      BY <1>1, <2>1, Transit
    <3>2. DownInTransit[i + 1] = recvQueue[i]
      BY <3>1, Transit
    <3>3. DownInTransit'[i] = recvQueue'[i]
      BY <3>1, TransitNext
    <3> QED BY <3>2, <3>3
  <2>2. CASE i > Len(recvQueue)
    <3>1. PICK j \in 1..Len(down) : i = Len(recvQueue) + j
      <4>1. i - Len(recvQueue) \in 1..Len(down) /\ i = Len(recvQueue) + (i - Len(recvQueue))
        BY <2>2, Transit
      <4> QED BY <4>1
    <3>2. /\ j \in 1..Len(down') /\ i + 1 = Len(opening) + Len(recvQueue) + j
          /\ i = Len(opening') + Len(recvQueue') + j
      BY <1>1, <3>1, Transit
    <3>3. DownInTransit[i + 1] = down[j]
      BY <3>1, <3>2, Transit
    <3>4. DownInTransit'[i] = down'[j]
      BY <3>2, TransitNext
    <3> QED BY <3>3, <3>4
  <2> QED BY <2>1, <2>2, Transit
<1>4. Length \in Nat
  BY Transit
<1> QED BY <1>2, <1>3, <1>4 DEF TakenOut

\* A message is lost from down
LEMMA TransitLost ==
    ASSUME TypeOK, TypeOK', UNCHANGED <<opening, recvQueue>>, NEW k \in DOMAIN down,
           down' = RemoveAt(down, k)
    PROVE  TakenOut(Len(opening) + Len(recvQueue) + k)
<1> DEFINE front == Len(opening) + Len(recvQueue)
<1>1. /\ k \in 1..Len(down) /\ Len(down') = Len(down) - 1
      /\ \A j \in 1..(Len(down) - 1) :
           down'[j] = IF j < k THEN down[j] ELSE down[j + 1]
  <2>1. down \in Seq(Nat)
    BY Transit
  <2>2. k \in 1..Len(down)
    BY <2>1
  <2>3. /\ Len(RemoveAt(down, k)) = Len(down) - 1
        /\ \A j \in 1..(Len(down) - 1) :
             RemoveAt(down, k)[j] = IF j < k THEN down[j] ELSE down[j + 1]
    BY <2>1, RemoveAtFacts
  <2> QED BY <2>2, <2>3
<1>2. Length' = Length - 1
  BY <1>1, Transit, TransitNext
<1>3. front \in Nat /\ Length = front + Len(down) /\ Len(down) \in Nat
  BY Transit
<1>4. ASSUME NEW i \in 1..(Length - 1), i <= front
      PROVE  DownInTransit'[i] = DownInTransit[i]
  <2>1. CASE i <= Len(opening)
    BY <2>1, Transit, TransitNext
  <2>2. CASE i > Len(opening)
    <3>1. PICK j \in 1..Len(recvQueue) : i = Len(opening) + j
      <4>1. i - Len(opening) \in 1..Len(recvQueue) /\ i = Len(opening) + (i - Len(opening))
        BY <1>4, <2>2, Transit
      <4> QED BY <4>1
    <3> QED BY <3>1, Transit, TransitNext
  <2> QED BY <2>1, <2>2, Transit
<1>5. ASSUME NEW i \in 1..(Length - 1), i > front
      PROVE  DownInTransit'[i] = IF i < front + k THEN DownInTransit[i] ELSE DownInTransit[i + 1]
  <2>1. PICK j \in 1..(Len(down) - 1) : i = front + j
    <3>1. i - front \in 1..(Len(down) - 1) /\ i = front + (i - front)
      BY <1>3, <1>5
    <3> QED BY <3>1
  <2>2. /\ j \in 1..Len(down) /\ j + 1 \in 1..Len(down) /\ j \in 1..Len(down')
        /\ i + 1 = Len(opening) + Len(recvQueue) + (j + 1)
        /\ i = Len(opening') + Len(recvQueue') + j
        /\ i = Len(opening) + Len(recvQueue) + j
    BY <1>1, <1>3, <2>1, Transit
  <2>3. DownInTransit[i] = down[j] /\ DownInTransit[i + 1] = down[j + 1]
    <3>1. ASSUME NEW n \in 1..Len(down)
          PROVE  DownInTransit[Len(opening) + Len(recvQueue) + n] = down[n]
      BY Transit
    <3>2. DownInTransit[Len(opening) + Len(recvQueue) + (j + 1)] = down[j + 1]
      BY <2>2, <3>1
    <3> QED BY <2>2, <3>1, <3>2
  <2>4. DownInTransit'[i] = down'[j]
    BY <2>2, TransitNext
  <2>5. i < front + k <=> j < k
    BY <1>1, <1>3, <2>1
  <2> QED BY <1>1, <2>3, <2>4, <2>5
<1> HIDE DEF front
<1>6. ASSUME NEW i \in 1..(Length - 1)
      PROVE  DownInTransit'[i] = IF i < front + k THEN DownInTransit[i] ELSE DownInTransit[i + 1]
  <2>1. CASE i <= front
    <3>1. i < front + k
      BY <1>1, <1>3, <2>1
    <3> QED BY <1>4, <2>1, <3>1
  <2>2. CASE i > front
    BY <1>5, <2>2
  <2> QED BY <1>3, <2>1, <2>2
<1> QED BY <1>2, <1>6 DEF TakenOut, front

-----------------------------------------------------------------------------
\* Towards the browser: the invariant

LEMMA Staged ==
    ASSUME TypeOK, NEW g \in Goroutines
    PROVE  /\ SendCounter \in Nat /\ recvCounter \in Nat
           /\ staged[g] = <<>> => Len(staged[g]) = 0
           /\ staged[g] # <<>> => /\ Len(staged[g]) = 1 /\ staged[g][1] \in Nat
                                  /\ Head(staged[g]) = staged[g][1]
                                  /\ \A d \in Seq(Nat) :
                                       d \o staged[g] = Append(d, staged[g][1])
<1>1. /\ staged[g] \in Seq(Nat) /\ Len(staged[g]) <= 1
      /\ SendCounter \in Nat /\ recvCounter \in Nat
  BY DEF TypeOK
<1>0. \A n \in Nat : n >= 1 /\ n <= 1 => n = 1
  OBVIOUS
<1>2. ASSUME NEW s \in Seq(Nat), Len(s) <= 1, s # <<>>
      PROVE  /\ Len(s) = 1 /\ s[1] \in Nat /\ Head(s) = s[1]
             /\ \A d \in Seq(Nat) : d \o s = Append(d, s[1])
  <2>1. Len(s) = 1 /\ s[1] \in Nat /\ Head(s) = s[1]
    <3>1. /\ 1 \in DOMAIN s /\ Head(s) = s[1] /\ s[1] \in Nat /\ Len(s) >= 1
      BY <1>2, HeadAndTail
    <3>2. Len(s) \in Nat
      BY LenProperties
    <3>3. Len(s) = 1
      BY <1>0, <1>2, <3>1, <3>2
    <3> QED BY <3>1, <3>3
  <2>2. s = <<s[1]>>
    BY <1>2, <2>1
  <2>3. ASSUME NEW d \in Seq(Nat), NEW x \in Nat
        PROVE  d \o <<x>> = Append(d, x)
    OBVIOUS
  <2> QED BY <2>1, <2>2, <2>3
<1>3. staged[g] = <<>> => Len(staged[g]) = 0
  OBVIOUS
<1> QED BY <1>1, <1>2, <1>3

DownParts == DownShape /\ DownDistinct /\ DownExact
\* No record of a loss is taken back
LossesKept == /\ "down" \in lost => "down" \in lost'
              /\ overtaken => overtaken'

\* A step that leaves this direction alone
LEMMA DownUntouched ==
    ASSUME TypeOK, TypeOK', DownParts, LossesKept,
           UNCHANGED <<opening, recvQueue, down, recvCounter, SendCounter, staged>>
    PROVE  DownParts'
<1>1. Kept
  BY TransitKept
<1>2. Length \in Nat
  BY Transit
<1>3. DownShape'
  BY <1>1, <1>2 DEF DownParts, DownShape, Kept
<1>4. DownDistinct'
  BY <1>1, <1>2 DEF DownParts, DownDistinct, Kept
<1>5. DownExact'
  BY <1>1, <1>2 DEF DownParts, DownExact, NextDown, Kept, LossesKept
<1> QED BY <1>3, <1>4, <1>5 DEF DownParts

\* A counter is taken
LEMMA DownTaken ==
    ASSUME TypeOK, TypeOK', DownParts, LossesKept,
           NEW g \in Goroutines, staged[g] = <<>>, Seal(g),
           UNCHANGED <<opening, recvQueue, down, recvCounter>>
    PROVE  DownParts'
<1>1. Kept
  BY TransitKept
<1>2. Length \in Nat /\ DownInTransit \in Seq(Nat)
  BY Transit
<1>3. /\ SendCounter' = SendCounter + 1 /\ SendCounter \in Nat
      /\ staged'[g] # <<>> /\ staged'[g][1] = SendCounter /\ Len(staged'[g]) = 1
      /\ \A h \in Goroutines \ {g} : staged'[h] = staged[h]
  <2>1. /\ SendCounter' = SendCounter + 1 /\ staged'[g] = <<SendCounter>>
        /\ \A h \in Goroutines \ {g} : staged'[h] = staged[h]
    BY SealFacts
  <2>2. <<SendCounter>> # <<>> /\ <<SendCounter>>[1] = SendCounter /\ Len(<<SendCounter>>) = 1
    OBVIOUS
  <2> QED BY <2>1, <2>2, Staged
<1>4. \A i \in 1..Length : DownInTransit[i] \in Nat
  BY <1>2 DEF Length
<1>5. \A h \in Goroutines : staged[h] # <<>> => staged[h][1] \in Nat
  BY Staged
<1>6. DownShape'
  BY <1>1, <1>2, <1>3, <1>4, <1>5 DEF DownParts, DownShape, Kept
<1>7. DownDistinct'
  <2>1. \A i, j \in 1..Length' : DownInTransit'[i] = DownInTransit'[j] => i = j
    BY <1>1 DEF DownParts, DownDistinct, Kept
  <2>2. ASSUME NEW h \in Goroutines, NEW i \in 1..Length', staged'[h] # <<>>
        PROVE  staged'[h][1] # DownInTransit'[i]
    <3>1. i \in 1..Length /\ DownInTransit'[i] = DownInTransit[i]
      BY <1>1 DEF Kept
    <3>2. DownInTransit[i] < SendCounter /\ DownInTransit[i] \in Nat
      BY <1>4, <3>1 DEF DownParts, DownShape
    <3>3. CASE h = g
      BY <1>3, <3>1, <3>2, <3>3
    <3>4. CASE h # g
      BY <1>3, <2>2, <3>1, <3>4 DEF DownParts, DownDistinct
    <3> QED BY <3>3, <3>4
  <2>3. ASSUME NEW h \in Goroutines, h # g, staged'[h] # <<>>
        PROVE  staged'[h][1] # staged'[g][1]
    <3>1. staged'[h] = staged[h] /\ staged[h][1] < SendCounter /\ staged[h][1] \in Nat
      BY <1>3, <1>5, <2>3 DEF DownParts, DownShape
    <3> QED BY <1>3, <3>1
  <2>4. \A h, k \in Goroutines :
          staged'[h] # <<>> /\ staged'[k] # <<>> /\ staged'[h][1] = staged'[k][1] => h = k
    BY <1>3, <2>3 DEF DownParts, DownDistinct
  <2> QED BY <2>1, <2>2, <2>4 DEF DownDistinct
<1>8. DownExact'
  <2>1. CASE "down" \in lost \/ overtaken
    BY <2>1 DEF DownExact, LossesKept
  <2>2. CASE ~("down" \in lost \/ overtaken)
    <3>1. /\ \A i \in 1..Length : DownInTransit[i] = recvCounter + i - 1
          /\ NextDown <= SendCounter
          /\ \A h \in Goroutines : staged[h] # <<>> => staged[h][1] >= NextDown
          /\ \A n \in Nat : NextDown <= n /\ n < SendCounter =>
               \E h \in Goroutines : staged[h] # <<>> /\ staged[h][1] = n
      BY <2>2 DEF DownParts, DownExact
    <3>2. recvCounter \in Nat /\ recvCounter' = recvCounter
          /\ NextDown' = NextDown /\ NextDown \in Nat
      BY <1>1, <1>2, Staged DEF NextDown, Kept
    <3>3. \A i \in 1..Length' : DownInTransit'[i] = recvCounter' + i - 1
      BY <1>1, <3>1, <3>2 DEF Kept
    <3>4. NextDown' <= SendCounter'
      BY <1>3, <3>1, <3>2
    <3>5. ASSUME NEW h \in Goroutines, staged'[h] # <<>>
          PROVE  staged'[h][1] >= NextDown'
      <4>1. CASE h = g
        BY <1>3, <3>1, <3>2, <4>1
      <4>2. CASE h # g
        BY <1>3, <3>1, <3>2, <3>5, <4>2
      <4> QED BY <4>1, <4>2
    <3>6. ASSUME NEW n \in Nat, NextDown' <= n, n < SendCounter'
          PROVE  \E h \in Goroutines : staged'[h] # <<>> /\ staged'[h][1] = n
      <4>1. CASE n = SendCounter
        BY <1>3, <4>1
      <4>2. CASE n < SendCounter
        <5>1. PICK h \in Goroutines : staged[h] # <<>> /\ staged[h][1] = n
          BY <3>1, <3>2, <3>6, <4>2
        <5>2. staged'[h] = staged[h]
          BY <1>3, <5>1
        <5> QED BY <5>1, <5>2
      <4> QED BY <1>3, <3>6, <4>1, <4>2
    <3> QED BY <3>3, <3>4, <3>5, <3>6 DEF DownExact
  <2> QED BY <2>1, <2>2
<1> QED BY <1>6, <1>7, <1>8 DEF DownParts

\* A message is queued
LEMMA DownQueued ==
    ASSUME TypeOK, TypeOK', DownParts, NEW g \in Goroutines, Queue(g)
    PROVE  DownParts'
<1> DEFINE v == staged[g][1]
<1>1. /\ staged[g] # <<>> /\ v \in Nat /\ Head(staged[g]) = v /\ Len(staged[g]) = 1
  BY Staged DEF Queue
<1>2. /\ staged'[g] = <<>> /\ Len(staged'[g]) = 0
      /\ \A h \in Goroutines \ {g} : staged'[h] = staged[h]
  BY DEF Queue, TypeOK
<1>3. UNCHANGED <<opening, recvQueue, recvCounter, SendCounter, lost>>
  BY DEF Queue, recvVars
<1>4. down' = Append(down, v)
  <2>1. down' = down \o staged[g] /\ down \in Seq(Nat)
    BY DEF Queue, TypeOK
  <2> QED BY <1>1, <2>1, Staged
<1>5. Added(v)
  BY <1>1, <1>3, <1>4, TransitAdded
<1>6. Length \in Nat /\ SendCounter \in Nat /\ recvCounter \in Nat
  BY Transit, Staged
<1>7. \A h \in Goroutines : staged[h] # <<>> =>
        Len(staged[h]) = 1 /\ staged[h][1] \in Nat /\ Head(staged[h]) = staged[h][1]
  BY Staged
<1>8. \A h \in Goroutines : staged'[h] # <<>> => h # g /\ staged[h] # <<>> /\ staged'[h] = staged[h]
  BY <1>2
<1> HIDE DEF v
<1>v. v = staged[g][1]
  BY DEF v
<1>9. \A i \in 1..Length' : (i = Length + 1 /\ DownInTransit'[i] = v)
                            \/ (i \in 1..Length /\ DownInTransit'[i] = DownInTransit[i])
  BY <1>5, <1>6 DEF Added
<1>10. DownShape'
  BY <1>1, <1>v, <1>3, <1>8, <1>9 DEF DownParts, DownShape
<1>11. DownDistinct'
  BY <1>1, <1>v, <1>8, <1>9 DEF DownParts, DownDistinct
<1>12. DownExact'
  <2>1. CASE "down" \in lost \/ overtaken'
    BY <1>3, <2>1 DEF DownExact
  <2>2. CASE ~("down" \in lost \/ overtaken')
    <3>1. /\ ~overtaken
          /\ \A h \in Goroutines : staged[h] # <<>> => ~(Head(staged[h]) < Head(staged[g]))
      BY <2>2 DEF Queue
    <3>2. /\ \A i \in 1..Length : DownInTransit[i] = recvCounter + i - 1
          /\ NextDown <= SendCounter
          /\ \A h \in Goroutines : staged[h] # <<>> => staged[h][1] >= NextDown
          /\ \A n \in Nat : NextDown <= n /\ n < SendCounter =>
               \E h \in Goroutines : staged[h] # <<>> /\ staged[h][1] = n
      BY <2>2, <3>1 DEF DownParts, DownExact
    <3>3. /\ NextDown \in Nat /\ NextDown = recvCounter + Length
          /\ NextDown' = NextDown + 1
      BY <1>3, <1>5, <1>6 DEF NextDown, Added
    <3>4. v >= NextDown /\ v < SendCounter /\ v \in Nat
      BY <1>1, <1>v, <3>2 DEF DownParts, DownShape
    <3>5. v = NextDown
      <4>0. NextDown <= NextDown /\ NextDown < SendCounter
        BY <1>6, <3>3, <3>4
      <4>1. PICK h \in Goroutines : staged[h] # <<>> /\ staged[h][1] = NextDown
        BY <3>2, <3>3, <4>0, Zenon
      <4>2. ~(NextDown < v)
        BY <1>1, <1>7, <3>1, <4>1
      <4> QED BY <3>3, <3>4, <4>2
    <3>6. ASSUME NEW i \in 1..Length'
          PROVE  DownInTransit'[i] = recvCounter' + i - 1
      BY <1>3, <1>6, <1>9, <3>2, <3>3, <3>5
    <3>7. NextDown' <= SendCounter'
      BY <1>3, <1>6, <3>3, <3>4, <3>5
    <3>8. ASSUME NEW k \in Goroutines, staged'[k] # <<>>
          PROVE  staged'[k][1] >= NextDown'
      <4>1. k # g /\ staged[k] # <<>> /\ staged'[k] = staged[k] /\ staged[k][1] \in Nat
        BY <1>7, <1>8, <3>8
      <4>2. staged[k][1] >= NextDown /\ staged[k][1] # v
        BY <1>1, <1>v, <3>2, <4>1 DEF DownParts, DownDistinct
      <4> QED BY <3>3, <3>5, <4>1, <4>2
    <3>9. ASSUME NEW n \in Nat, NextDown' <= n, n < SendCounter'
          PROVE  \E k \in Goroutines : staged'[k] # <<>> /\ staged'[k][1] = n
      <4>1. PICK k \in Goroutines : staged[k] # <<>> /\ staged[k][1] = n
        <5>1. NextDown <= n /\ n < SendCounter
          BY <1>3, <3>3, <3>9
        <5> QED BY <3>2, <5>1, Zenon
      <4>2. k # g
        <5>1. n # NextDown
          BY <3>3, <3>9
        <5> QED BY <1>v, <3>5, <4>1, <5>1
      <4> QED BY <1>2, <4>1, <4>2
    <3> QED BY <3>6, <3>7, <3>8, <3>9 DEF DownExact
  <2> QED BY <2>1, <2>2
<1> QED BY <1>10, <1>11, <1>12 DEF DownParts

\* A message is lost
LEMMA DownTakenOut ==
    ASSUME TypeOK, TypeOK', DownParts, NEW k \in Nat, TakenOut(k), "down" \in lost',
           UNCHANGED <<opening, recvCounter, SendCounter>>,
           \A g \in Goroutines : staged'[g] = <<>> \/ staged'[g] = staged[g]
    PROVE  DownParts'
<1>1. Length \in Nat
  BY Transit
<1>2. Length' = Length - 1 /\ Length' \in Nat
  BY Transit, TransitNext DEF TakenOut
<1>3. \A i \in 1..Length' :
        \/ i \in 1..Length /\ i < k /\ DownInTransit'[i] = DownInTransit[i]
        \/ i + 1 \in 1..Length /\ ~(i < k) /\ DownInTransit'[i] = DownInTransit[i + 1]
  BY <1>1, <1>2 DEF TakenOut
<1>4. \A g \in Goroutines : staged'[g] # <<>> => staged[g] # <<>> /\ staged'[g] = staged[g]
  OBVIOUS
<1>5. DownShape'
  BY <1>3, <1>4 DEF DownParts, DownShape
<1>6. DownDistinct'
  <2>1. ASSUME NEW i \in 1..Length', NEW j \in 1..Length',
               DownInTransit'[i] = DownInTransit'[j]
        PROVE  i = j
    <3>1. i \in Nat /\ j \in Nat
      OBVIOUS
    <3> QED BY <1>3, <2>1, <3>1 DEF DownParts, DownDistinct
  <2>2. ASSUME NEW g \in Goroutines, NEW i \in 1..Length', staged'[g] # <<>>
        PROVE  staged'[g][1] # DownInTransit'[i]
    BY <1>3, <1>4, <2>2 DEF DownParts, DownDistinct
  <2>3. \A g, h \in Goroutines :
          staged'[g] # <<>> /\ staged'[h] # <<>> /\ staged'[g][1] = staged'[h][1] => g = h
    BY <1>4 DEF DownParts, DownDistinct
  <2> QED BY <2>1, <2>2, <2>3 DEF DownDistinct
<1>7. DownExact'
  BY DEF DownExact
<1> QED BY <1>5, <1>6, <1>7 DEF DownParts

\* Send gives up
LEMMA DownGivenUp ==
    ASSUME TypeOK, TypeOK', DownParts, NEW g \in Goroutines, QueueTimeout(g)
    PROVE  DownParts'
<1>1. /\ UNCHANGED <<opening, recvQueue, down, recvCounter, SendCounter>>
      /\ "down" \in lost'
  BY DEF QueueTimeout, recvVars
<1>2. Kept /\ Length \in Nat
  BY <1>1, TransitKept, Transit
<1>3. \A h \in Goroutines : staged'[h] # <<>> => staged[h] # <<>> /\ staged'[h] = staged[h]
  BY DEF QueueTimeout, TypeOK
<1>4. DownShape'
  BY <1>1, <1>2, <1>3 DEF DownParts, DownShape, Kept
<1>5. DownDistinct'
  BY <1>1, <1>2, <1>3 DEF DownParts, DownDistinct, Kept
<1>6. DownExact'
  BY <1>1 DEF DownExact
<1> QED BY <1>4, <1>5, <1>6 DEF DownParts

\* The browser passes a message on
LEMMA DownKept ==
    ASSUME TypeOK, TypeOK', DownParts, LossesKept, Kept,
           Len(opening') <= 1, \A i \in DOMAIN opening' : opening'[i].expected = recvCounter,
           UNCHANGED <<recvCounter, SendCounter, staged>>
    PROVE  DownParts'
<1>1. Length \in Nat
  BY Transit
<1>2. DownShape'
  BY <1>1 DEF DownParts, DownShape, Kept
<1>3. DownDistinct'
  BY <1>1 DEF DownParts, DownDistinct, Kept
<1>4. DownExact'
  BY <1>1 DEF DownParts, DownExact, NextDown, Kept, LossesKept
<1> QED BY <1>2, <1>3, <1>4 DEF DownParts

\* The browser has tried to open a message
LEMMA DownOpened ==
    ASSUME TypeOK, TypeOK', DownParts, OpenEnds
    PROVE  DownParts'
<1>1. PICK i \in DOMAIN opening :
        /\ recvCounter' = IF opening[i].n = opening[i].expected
                          THEN recvCounter + 1 ELSE recvCounter
        /\ opening' = RemoveAt(opening, i)
  BY DEF OpenEnds
<1>2. UNCHANGED <<recvQueue, down, SendCounter, staged, lost, overtaken>>
  BY DEF OpenEnds, agentVars, historyVars
<1>3. /\ Len(opening) = 1 /\ i = 1 /\ opening' = <<>>
      /\ opening[1].expected = recvCounter /\ opening[1].n = DownInTransit[1]
  <2>1. opening \in Seq(Opening) /\ Len(opening) <= 1 /\ Len(opening) \in Nat
    BY Transit DEF DownParts, DownShape
  <2>2. i \in 1..Len(opening)
    BY <2>1
  <2>3. Len(opening) = 1 /\ i = 1
    <3>1. \A n \in Nat : \A j \in 1..n : n <= 1 => n = 1 /\ j = 1
      OBVIOUS
    <3> QED BY <2>1, <2>2, <3>1
  <2>4. opening' \in Seq(Opening) /\ Len(opening') = 0
    BY <1>1, <2>1, <2>3, RemoveAtFacts
  <2>5. opening[1].n = DownInTransit[1]
    BY <2>3, Transit
  <2> QED BY <1>1, <2>3, <2>4, <2>5 DEF DownParts, DownShape
<1>4. TakenOut(1)
  BY <1>2, <1>3, TransitOpened
<1>5. Length \in Nat /\ Length >= 1 /\ Length' = Length - 1 /\ recvCounter \in Nat
  <2>1. TypeOK
    OBVIOUS
  <2>2. recvCounter \in Nat
    BY <2>1 DEF TypeOK
  <2>3. Length \in Nat /\ Length >= 1
    BY <1>3, Transit
  <2> QED BY <1>4, <2>2, <2>3 DEF TakenOut
<1>6. \A j \in 1..Length' : j + 1 \in 1..Length /\ DownInTransit'[j] = DownInTransit[j + 1]
  BY <1>4, <1>5 DEF TakenOut
<1>7. DownShape'
  BY <1>2, <1>3, <1>6 DEF DownParts, DownShape
<1>8. DownDistinct'
  <2>1. ASSUME NEW j \in 1..Length', NEW k \in 1..Length',
               DownInTransit'[j] = DownInTransit'[k]
        PROVE  j = k
    <3>1. j + 1 = k + 1
      BY <1>6, <2>1 DEF DownParts, DownDistinct
    <3> QED BY <3>1
  <2>2. \A g \in Goroutines : \A j \in 1..Length' :
          staged'[g] # <<>> => staged'[g][1] # DownInTransit'[j]
    BY <1>2, <1>6 DEF DownParts, DownDistinct
  <2> QED BY <1>2, <2>1, <2>2 DEF DownParts, DownDistinct
<1>9. DownExact'
  <2>1. CASE "down" \in lost \/ overtaken
    BY <1>2, <2>1 DEF DownExact
  <2>2. CASE ~("down" \in lost \/ overtaken)
    <3>1. /\ \A j \in 1..Length : DownInTransit[j] = recvCounter + j - 1
          /\ NextDown <= SendCounter
          /\ \A g \in Goroutines : staged[g] # <<>> => staged[g][1] >= NextDown
          /\ \A n \in Nat : NextDown <= n /\ n < SendCounter =>
               \E g \in Goroutines : staged[g] # <<>> /\ staged[g][1] = n
      BY <2>2 DEF DownParts, DownExact
    <3>2. recvCounter' = recvCounter + 1
      <4>1. DownInTransit[1] = recvCounter
        BY <1>5, <3>1
      <4> QED BY <1>1, <1>3, <4>1
    <3>3. NextDown' = NextDown
      BY <1>5, <3>2 DEF NextDown
    <3>4. ASSUME NEW j \in 1..Length'
          PROVE  DownInTransit'[j] = recvCounter' + j - 1
      <4>1. DownInTransit[j + 1] = recvCounter + (j + 1) - 1
        BY <1>6, <3>1
      <4> QED BY <1>5, <1>6, <3>2, <4>1
    <3> QED BY <1>2, <3>1, <3>3, <3>4 DEF DownExact
  <2> QED BY <2>1, <2>2
<1> QED BY <1>7, <1>8, <1>9 DEF DownParts

LEMMA DownStep ==
    ASSUME TypeOK, TypeOK', DownParts, [Next]_vars
    PROVE  DownParts'
<1>1. CASE ShellOutput \/ ReplayRequest
  <2>1. PICK g \in Goroutines : staged[g] = <<>> /\ Seal(g)
    BY <1>1 DEF ShellOutput, ReplayRequest, Goroutines
  <2>2. LossesKept /\ UNCHANGED <<opening, recvQueue, down, recvCounter>>
    BY <1>1 DEF ShellOutput, ReplayRequest, LossesKept, recvVars, historyVars
  <2> QED BY <2>1, <2>2, DownTaken
<1>2. CASE \E g \in Goroutines : Queue(g) \/ QueueTimeout(g)
  BY <1>2, DownQueued, DownGivenUp
<1>3. CASE ReceiveStep
  <2>1. /\ staged["loop"] = <<>> /\ "loop" \in Goroutines
        /\ Seal("loop") \/ Untouched
    BY <1>3 DEF NextUp, Untouched, ReceiveKeystroke, ReceiveStart, PutAside, Goroutines,
                ReceiveLateChunk, ReceiveChunk, ReceiveEnd, ReceiveStep, agentVars
  <2>2. UNCHANGED <<opening, recvQueue, down, recvCounter, lost, overtaken>>
    BY <1>3 DEF ReceiveKeystroke, ReceiveStart, PutAside, ReceiveLateChunk,
                ReceiveChunk, ReceiveEnd, ReceiveStep, recvVars, historyVars
  <2>3. LossesKept
    BY <2>2 DEF LossesKept
  <2>4. CASE Seal("loop")
    BY <2>1, <2>2, <2>3, <2>4, DownTaken
  <2>5. CASE Untouched
    BY <2>2, <2>3, <2>5, DownUntouched DEF Untouched
  <2> QED BY <2>1, <2>4, <2>5
<1>4. CASE Subscribe \/ Type \/ (\E t \in Transfers : Upload(t)) \/ SealBegins \/ SealEnds
           \/ LoseUp \/ UNCHANGED vars
  <2>1. UNCHANGED <<opening, recvQueue, down, recvCounter, SendCounter, staged>>
    BY <1>4 DEF Subscribe, Type, Upload, SealBegins, SealEnds, LoseUp, vars, agentVars,
                recvVars
  <2>2. UNCHANGED overtaken /\ lost \subseteq lost'
    BY <1>4 DEF Subscribe, Type, Upload, SealBegins, SealEnds, LoseUp, vars, historyVars
  <2>3. LossesKept
    BY <2>2 DEF LossesKept
  <2> QED BY <2>1, <2>3, DownUntouched
<1>5. CASE Deliver
  <2>1. /\ UNCHANGED <<opening, recvCounter, SendCounter, staged, overtaken>>
        /\ down # <<>> /\ down' = Tail(down)
    BY <1>5 DEF Deliver, agentVars
  <2>2. CASE subscribed
    <3>1. recvQueue' = Append(recvQueue, Head(down)) /\ lost' = lost
      BY <1>5, <2>2 DEF Deliver
    <3>2. Kept
      BY <2>1, <3>1, TransitPassedOn
    <3> QED BY <2>1, <3>1, <3>2, DownKept DEF LossesKept, DownParts, DownShape
  <2>3. CASE ~subscribed
    <3>1. UNCHANGED recvQueue /\ "down" \in lost'
      BY <1>5, <2>3 DEF Deliver
    <3>2. 1 \in DOMAIN down /\ Tail(down) = RemoveAt(down, 1)
      <4>1. down \in Seq(Nat)
        BY Transit
      <4>2. 1 \in DOMAIN down
        BY <2>1, <4>1, HeadAndTail
      <4>3. /\ Tail(down) \in Seq(Nat) /\ Len(Tail(down)) = Len(down) - 1
            /\ \A j \in 1..(Len(down) - 1) : Tail(down)[j] = down[j + 1]
        BY <2>1, <4>1, HeadAndTail
      <4>4. /\ RemoveAt(down, 1) \in Seq(Nat) /\ Len(RemoveAt(down, 1)) = Len(down) - 1
            /\ \A j \in 1..(Len(down) - 1) : RemoveAt(down, 1)[j] = down[j + 1]
        <5>1. \A j \in 1..(Len(down) - 1) : ~(j < 1)
          OBVIOUS
        <5> QED BY <4>1, <4>2, <5>1, RemoveAtFacts
      <4>5. \A j \in 1..Len(Tail(down)) : Tail(down)[j] = RemoveAt(down, 1)[j]
        BY <4>3, <4>4
      <4> QED BY <4>2, <4>3, <4>4, <4>5, SeqEqual
    <3>3. TakenOut(Len(opening) + Len(recvQueue) + 1)
      BY <2>1, <3>1, <3>2, TransitLost
    <3>4. Len(opening) + Len(recvQueue) + 1 \in Nat
      BY Transit
    <3> QED BY <2>1, <3>1, <3>3, <3>4, DownTakenOut
  <2> QED BY <2>2, <2>3
<1>6. CASE LoseDown
  <2>1. PICK k \in DOMAIN down : down' = RemoveAt(down, k)
    BY <1>6 DEF LoseDown
  <2>2. /\ UNCHANGED <<opening, recvQueue, recvCounter, SendCounter, staged>>
        /\ "down" \in lost'
    BY <1>6 DEF LoseDown, agentVars, recvVars
  <2>3. TakenOut(Len(opening) + Len(recvQueue) + k)
    BY <2>1, <2>2, TransitLost
  <2>4. Len(opening) + Len(recvQueue) + k \in Nat
    <3>1. down \in Seq(Nat)
      BY Transit
    <3>2. k \in 1..Len(down)
      BY <3>1
    <3> QED BY <3>2, Transit
  <2> QED BY <2>2, <2>3, <2>4, DownTakenOut
<1>7. CASE OpenBegins
  <2>1. /\ opening = <<>> /\ recvQueue # <<>> /\ recvQueue' = Tail(recvQueue)
        /\ opening' = Append(opening, [n |-> Head(recvQueue), expected |-> recvCounter])
        /\ UNCHANGED <<down, recvCounter, SendCounter, staged, lost, overtaken>>
    BY <1>7 DEF OpenBegins, RecvIdle, agentVars, historyVars
  <2>2. recvCounter \in Nat
    BY DEF TypeOK
  <2>3. Kept /\ Len(opening') = 1 /\ opening'[1].expected = recvCounter
    BY <2>1, <2>2, TransitOpening
  <2>4. \A i \in DOMAIN opening' : i = 1
    <3>1. opening' \in Seq(Opening)
      BY TransitNext
    <3> QED BY <2>3, <3>1
  <2> QED BY <2>1, <2>3, <2>4, DownKept DEF LossesKept
<1>8. CASE OpenEnds
  BY <1>8, DownOpened
<1> QED BY <1>1, <1>2, <1>3, <1>4, <1>5, <1>6, <1>7, <1>8
        DEF Next, AgentStep, BrowserStep, ReceiveStep

-----------------------------------------------------------------------------
\* Towards the agent: what the steps do to InFlight

LEMMA InFlightTypes ==
    ASSUME TypeOK
    PROVE  /\ NextN \in Nat
           /\ \A m \in InFlight : m \in Sealed
<1>1. /\ up \in Seq(Sealed) /\ sealing \in Seq(Sealed) /\ sendQueue \in Seq(Contents)
      /\ sendCounter \in Nat
  BY DEF TypeOK
<1>2. NextN \in Nat
  BY <1>1 DEF NextN
<1>3. ASSUME NEW p \in DOMAIN sendQueue
      PROVE  Queued(p) \in Sealed
  <2>1. sendQueue[p] \in Contents /\ p \in Nat /\ p >= 1 /\ Len(sealing) \in Nat
    BY <1>1
  <2>2. sendCounter + Len(sealing) + p - 1 \in Nat
    BY <1>1, <2>1
  <2> QED BY <2>1, <2>2 DEF Queued, Sealed
<1> QED BY <1>1, <1>2, <1>3 DEF InFlight

\* What a message of a transfer looks like
LEMMA MessageFacts ==
    ASSUME NEW m \in Sealed
    PROVE  /\ m.n \in Nat /\ m.content \in Contents
           /\ Offset(m.content) \in 0..(Chunks + 1)
           /\ Base(m) = m.n - Offset(m.content) /\ Base(m) \in Int
           /\ OfTransfer(m) => m.content.transfer \in Transfers
<1>1. m.n \in Nat /\ m.content \in Contents
  BY DEF Sealed
<1>2. /\ Offset(m.content) \in 0..(Chunks + 1)
      /\ OfTransfer(m) => m.content.transfer \in Transfers
  BY <1>1, ContentFacts DEF OfTransfer
<1> QED BY <1>1, <1>2 DEF Base

Shrunk == InFlight' \subseteq InFlight /\ NextN' = NextN

LEMMA InFlightKept ==
    ASSUME UNCHANGED <<up, sealing, sendQueue, sendCounter>>
    PROVE  Shrunk
BY DEF Shrunk, InFlight, NextN, Queued

\* A message is taken out of up
LEMMA InFlightTaken ==
    ASSUME UNCHANGED <<sealing, sendQueue, sendCounter>>,
           \A i \in DOMAIN up' : \E j \in DOMAIN up : up'[i] = up[j]
    PROVE  Shrunk
<1>1. NextN' = NextN
  BY DEF NextN
<1>2. \A p \in DOMAIN sendQueue' : p \in DOMAIN sendQueue /\ Queued(p)' = Queued(p)
  BY DEF Queued
<1>3. \A i \in DOMAIN sealing' : i \in DOMAIN sealing /\ sealing'[i] = sealing[i]
  OBVIOUS
<1> QED BY <1>1, <1>2, <1>3 DEF Shrunk, InFlight

LEMMA InFlightSealing ==
    ASSUME TypeOK, SealBegins
    PROVE  Shrunk /\ Len(sealing') = 1 /\ sealing'[1].n = sendCounter
           /\ \A i \in DOMAIN sealing' : i = 1
<1>1. /\ sealing = <<>> /\ sendQueue # <<>> /\ sendQueue' = Tail(sendQueue)
      /\ sealing' = Append(sealing, [n |-> sendCounter, content |-> Head(sendQueue)])
      /\ up' = up /\ sendCounter' = sendCounter
  BY DEF SealBegins, SendIdle
<1>2. /\ Head(sendQueue) = sendQueue[1] /\ 1 \in DOMAIN sendQueue
      /\ sendQueue' \in Seq(Contents) /\ sendQueue \in Seq(Contents)
      /\ Len(sendQueue) \in Nat /\ Len(sendQueue) >= 1
      /\ Len(sendQueue') = Len(sendQueue) - 1 /\ sendCounter \in Nat
      /\ \A p \in 1..(Len(sendQueue) - 1) : sendQueue'[p] = sendQueue[p + 1]
  BY <1>1, HeadAndTail DEF TypeOK
<1>3. /\ Len(sealing) = 0 /\ Len(sealing') = 1 /\ DOMAIN sealing' = {1}
      /\ sealing'[1] = [n |-> sendCounter, content |-> sendQueue[1]]
  BY <1>1, <1>2
<1>4. NextN' = NextN
  BY <1>1, <1>2, <1>3 DEF NextN
<1>5. sealing'[1] = Queued(1)
  <2>1. sendCounter + Len(sealing) + 1 - 1 = sendCounter
    BY <1>2, <1>3
  <2> QED BY <1>3, <2>1 DEF Queued
<1>6. ASSUME NEW p \in DOMAIN sendQueue'
      PROVE  p + 1 \in DOMAIN sendQueue /\ Queued(p)' = Queued(p + 1)
  <2>1. p \in 1..(Len(sendQueue) - 1) /\ p + 1 \in 1..Len(sendQueue)
    BY <1>2
  <2>2. sendQueue'[p] = sendQueue[p + 1] /\ p + 1 \in DOMAIN sendQueue
    BY <1>2, <2>1
  <2>3. sendCounter' + Len(sealing') + p - 1 = sendCounter + Len(sealing) + (p + 1) - 1
    BY <1>1, <1>2, <1>3, <2>1
  <2> QED BY <2>2, <2>3 DEF Queued
<1>7. InFlight' \subseteq InFlight
  <2> SUFFICES ASSUME NEW m \in InFlight' PROVE m \in InFlight
    OBVIOUS
  <2>1. CASE \E i \in DOMAIN up' : m = up'[i]
    BY <1>1, <2>1 DEF InFlight
  <2>2. CASE \E i \in DOMAIN sealing' : m = sealing'[i]
    BY <1>2, <1>3, <1>5, <2>2 DEF InFlight
  <2>3. CASE \E p \in DOMAIN sendQueue' : m = Queued(p)'
    BY <1>6, <2>3 DEF InFlight
  <2> QED BY <2>1, <2>2, <2>3 DEF InFlight
<1> QED BY <1>3, <1>4, <1>7 DEF Shrunk

LEMMA InFlightSealed ==
    ASSUME TypeOK, UpOrder, SealEnds
    PROVE  /\ Shrunk /\ sealing' = <<>> /\ Len(sealing) = 1
           /\ up' = Append(up, sealing[1]) /\ sealing[1].n = sendCounter
           /\ sendCounter' = sendCounter + 1 /\ sealing[1] \in Sealed
<1>1. PICK i \in DOMAIN sealing : /\ up' = Append(up, sealing[i])
                                /\ sealing' = RemoveAt(sealing, i)
  BY DEF SealEnds
<1>2. /\ sendCounter' = sendCounter + 1 /\ sendQueue' = sendQueue
  BY DEF SealEnds
<1>3. /\ sealing \in Seq(Sealed) /\ up \in Seq(Sealed) /\ sendQueue \in Seq(Contents)
      /\ sendCounter \in Nat /\ Len(sealing) <= 1 /\ Len(sealing) \in Nat
  BY DEF TypeOK, UpOrder
<1>4. Len(sealing) = 1 /\ i = 1
  <2>1. \A n \in Nat : \A j \in 1..n : n <= 1 => n = 1 /\ j = 1
    OBVIOUS
  <2>2. i \in 1..Len(sealing)
    BY <1>3
  <2> QED BY <1>3, <2>1, <2>2
<1>5. sealing' = <<>>
  <2>1. RemoveAt(sealing, i) \in Seq(Sealed) /\ Len(RemoveAt(sealing, i)) = Len(sealing) - 1
    BY <1>3, RemoveAtFacts
  <2>2. sealing' \in Seq(Sealed) /\ Len(sealing') = 0
    BY <1>1, <1>4, <2>1
  <2>3. ASSUME NEW q \in Seq(Sealed), Len(q) = 0
        PROVE  q = <<>>
    BY <2>3
  <2> QED BY <2>2, <2>3
<1>6. sealing[1].n = sendCounter /\ sealing[1] \in Sealed /\ 1 \in DOMAIN sealing
  <2>1. 1 \in DOMAIN sealing
    BY <1>3, <1>4
  <2> QED BY <1>3, <2>1 DEF UpOrder
<1>7. /\ Len(up') = Len(up) + 1 /\ Len(up) \in Nat /\ up'[Len(up) + 1] = sealing[1]
      /\ \A j \in 1..Len(up) : up'[j] = up[j]
      /\ DOMAIN up' = 1..(Len(up) + 1) /\ DOMAIN up = 1..Len(up)
  BY <1>1, <1>3, <1>4, <1>6
<1>8. NextN' = NextN
  <2>1. Len(sealing') = 0 /\ Len(sendQueue) \in Nat
    BY <1>3, <1>5
  <2> QED BY <1>2, <1>3, <1>4, <2>1 DEF NextN
<1>9. ASSUME NEW p \in DOMAIN sendQueue'
      PROVE  p \in DOMAIN sendQueue /\ Queued(p)' = Queued(p)
  <2>1. p \in Nat /\ Len(sealing') = 0
    BY <1>2, <1>3, <1>5
  <2>2. sendCounter' + Len(sealing') + p - 1 = sendCounter + Len(sealing) + p - 1
    BY <1>2, <1>3, <1>4, <2>1
  <2> QED BY <1>2, <2>2 DEF Queued
<1>10. InFlight' \subseteq InFlight
  <2> SUFFICES ASSUME NEW m \in InFlight' PROVE m \in InFlight
    OBVIOUS
  <2>1. CASE \E j \in DOMAIN up' : m = up'[j]
    <3>1. PICK j \in 1..(Len(up) + 1) : m = up'[j]
      BY <1>7, <2>1
    <3>2. CASE j = Len(up) + 1
      BY <1>6, <1>7, <3>1, <3>2 DEF InFlight
    <3>3. CASE j \in 1..Len(up)
      BY <1>7, <3>1, <3>3 DEF InFlight
    <3> QED BY <1>7, <3>2, <3>3
  <2>2. ~\E j \in DOMAIN sealing' : m = sealing'[j]
    BY <1>5
  <2>3. CASE \E p \in DOMAIN sendQueue' : m = Queued(p)'
    BY <1>9, <2>3 DEF InFlight
  <2> QED BY <2>1, <2>2, <2>3 DEF InFlight
<1> QED BY <1>1, <1>2, <1>4, <1>5, <1>6, <1>8, <1>10 DEF Shrunk

-----------------------------------------------------------------------------
\* Towards the agent: the order of the messages

UpChain == UpOrder /\ UpExact
\* No record of a loss is taken back
UpLossesKept == lost \subseteq lost' /\ (skipped => skipped')

LEMMA UpUntouched ==
    ASSUME UpChain, UpLossesKept, UNCHANGED <<up, sealing, sendCounter, RecvCounter>>
    PROVE  UpChain'
BY DEF UpChain, UpOrder, UpExact, UpLossesKept

LEMMA UpLost ==
    ASSUME TypeOK, UpChain, LoseUp
    PROVE  UpChain' /\ Shrunk
<1>1. /\ UNCHANGED <<sealing, sendQueue, sendCounter>> /\ "up" \in lost'
  BY DEF LoseUp, sendVars
<1>2. PICK k \in DOMAIN up : up' = RemoveAt(up, k)
  BY DEF LoseUp
<1>3. /\ up \in Seq(Sealed) /\ k \in 1..Len(up) /\ Len(up) \in Nat
      /\ up' \in Seq(Sealed) /\ Len(up') = Len(up) - 1 /\ DOMAIN up' = 1..(Len(up) - 1)
      /\ \A j \in 1..(Len(up) - 1) : up'[j] = IF j < k THEN up[j] ELSE up[j + 1]
  <2>1. up \in Seq(Sealed)
    BY DEF TypeOK
  <2>2. /\ RemoveAt(up, k) \in Seq(Sealed) /\ Len(RemoveAt(up, k)) = Len(up) - 1
        /\ \A j \in 1..(Len(up) - 1) :
             RemoveAt(up, k)[j] = IF j < k THEN up[j] ELSE up[j + 1]
    BY <2>1, RemoveAtFacts
  <2> QED BY <1>2, <2>1, <2>2
<1>4. \A i \in DOMAIN up' :
        \/ i \in DOMAIN up /\ i < k /\ up'[i] = up[i]
        \/ i + 1 \in DOMAIN up /\ ~(i < k) /\ up'[i] = up[i + 1]
  BY <1>3
<1>5. \A i \in DOMAIN up' : i \in Nat
  BY <1>3
<1>6. UpOrder'
  <2>1. \A i \in DOMAIN up' : up'[i].n < sendCounter'
    BY <1>1, <1>4 DEF UpChain, UpOrder
  <2>2. ASSUME NEW i \in DOMAIN up', NEW j \in DOMAIN up', i < j
        PROVE  up'[i].n < up'[j].n
    <3>1. i + 1 < j + 1 /\ (i < k /\ ~(j < k) => i < j + 1) /\ (j < k => i < k)
      BY <1>3, <1>5, <2>2
    <3> QED BY <1>4, <2>2, <3>1 DEF UpChain, UpOrder
  <2> QED BY <1>1, <2>1, <2>2 DEF UpChain, UpOrder
<1>7. UpExact'
  BY <1>1 DEF UpExact
<1> QED BY <1>1, <1>4, <1>6, <1>7, InFlightTaken DEF UpChain

\* The agent takes a message, and opens it or records that it did not
LEMMA UpReceived ==
    ASSUME TypeOK, UpChain, up # <<>>, up' = Tail(up),
           UNCHANGED <<sealing, sendQueue, sendCounter>>, UpLossesKept,
           OpenNext \/ (skipped' /\ RecvCounter' = RecvCounter)
    PROVE  UpChain' /\ Shrunk
<1>1. /\ up \in Seq(Sealed) /\ 1 \in DOMAIN up /\ Head(up) = up[1] /\ Len(up) >= 1
      /\ up' \in Seq(Sealed) /\ Len(up') = Len(up) - 1 /\ Len(up) \in Nat
      /\ DOMAIN up' = 1..(Len(up) - 1) /\ DOMAIN up = 1..Len(up)
      /\ \A j \in 1..(Len(up) - 1) : up'[j] = up[j + 1]
      /\ sendCounter \in Nat /\ RecvCounter \in Nat
  BY HeadAndTail DEF TypeOK
<1>2. \A i \in DOMAIN up' : i + 1 \in DOMAIN up /\ up'[i] = up[i + 1] /\ i \in Nat
  BY <1>1
<1>3. UpOrder'
  <2>1. ASSUME NEW i \in DOMAIN up', NEW j \in DOMAIN up', i < j
        PROVE  up'[i].n < up'[j].n
    <3>1. i + 1 < j + 1
      BY <1>2, <2>1
    <3> QED BY <1>2, <3>1 DEF UpChain, UpOrder
  <2> QED BY <1>2, <2>1 DEF UpChain, UpOrder
<1>4. UpExact'
  <2>1. CASE "up" \in lost \/ skipped \/ skipped'
    BY <2>1 DEF UpExact, UpLossesKept
  <2>2. CASE ~("up" \in lost \/ skipped \/ skipped')
    <3>1. /\ sendCounter = RecvCounter + Len(up)
          /\ \A i \in DOMAIN up : up[i].n = RecvCounter + i - 1
      BY <2>2 DEF UpChain, UpExact
    <3>2. RecvCounter' = RecvCounter + 1
      <4>1. up[1].n = RecvCounter + 1 - 1
        BY <1>1, <3>1
      <4>2. Opens
        BY <1>1, <4>1 DEF Opens
      <4> QED BY <2>2, <4>2 DEF OpenNext, NextCounter
    <3>3. sendCounter' = RecvCounter' + Len(up')
      BY <1>1, <3>1, <3>2
    <3>4. ASSUME NEW i \in DOMAIN up'
          PROVE  up'[i].n = RecvCounter' + i - 1
      <4>1. up[i + 1].n = RecvCounter + (i + 1) - 1
        BY <1>2, <3>1
      <4> QED BY <1>1, <1>2, <3>2, <4>1
    <3> QED BY <3>3, <3>4 DEF UpExact
  <2> QED BY <2>1, <2>2
<1> QED BY <1>2, <1>3, <1>4, InFlightTaken DEF UpChain

LEMMA UpSealing ==
    ASSUME TypeOK, UpChain, SealBegins
    PROVE  UpChain' /\ Shrunk
<1>1. UNCHANGED <<up, sendCounter, RecvCounter, lost, skipped>>
  BY DEF SealBegins, agentVars, historyVars
<1>2. /\ Shrunk /\ Len(sealing') = 1 /\ sealing'[1].n = sendCounter
      /\ \A i \in DOMAIN sealing' : i = 1
  BY InFlightSealing
<1>3. UpOrder'
  BY <1>1, <1>2 DEF UpChain, UpOrder
<1>4. UpExact'
  BY <1>1 DEF UpChain, UpExact
<1> QED BY <1>2, <1>3, <1>4 DEF UpChain

LEMMA UpSealed ==
    ASSUME TypeOK, UpChain, SealEnds
    PROVE  UpChain' /\ Shrunk
<1>1. UNCHANGED <<RecvCounter, lost, skipped>>
  BY DEF SealEnds, agentVars, historyVars
<1>2. /\ Shrunk /\ sealing' = <<>> /\ up' = Append(up, sealing[1])
      /\ sealing[1].n = sendCounter /\ sendCounter' = sendCounter + 1
      /\ sealing[1] \in Sealed
  BY InFlightSealed DEF UpChain
<1>3. /\ Len(up') = Len(up) + 1 /\ Len(up) \in Nat /\ up'[Len(up) + 1] = sealing[1]
      /\ \A j \in 1..Len(up) : up'[j] = up[j]
      /\ DOMAIN up' = 1..(Len(up) + 1) /\ DOMAIN up = 1..Len(up)
      /\ sendCounter \in Nat /\ RecvCounter \in Nat
      /\ \A j \in 1..Len(up) : up[j].n \in Nat
  <2>1. up \in Seq(Sealed) /\ sendCounter \in Nat /\ RecvCounter \in Nat
    BY DEF TypeOK
  <2>2. \A j \in 1..Len(up) : up[j] \in Sealed
    BY <2>1
  <2>3. \A j \in 1..Len(up) : up[j].n \in Nat
    BY <2>2 DEF Sealed
  <2>4. /\ Len(up') = Len(up) + 1 /\ Len(up) \in Nat /\ up'[Len(up) + 1] = sealing[1]
        /\ \A j \in 1..Len(up) : up'[j] = up[j]
        /\ DOMAIN up' = 1..(Len(up) + 1) /\ DOMAIN up = 1..Len(up)
    BY <1>2, <2>1
  <2> QED BY <2>1, <2>3, <2>4
<1>4. \A i \in DOMAIN up' : (i \in DOMAIN up /\ up'[i] = up[i] /\ i <= Len(up))
                            \/ (i = Len(up) + 1 /\ up'[i].n = sendCounter)
  <2>1. ASSUME NEW n \in Nat, NEW i \in 1..(n + 1)
        PROVE  (i \in 1..n /\ i <= n) \/ i = n + 1
    OBVIOUS
  <2>2. ASSUME NEW i \in DOMAIN up'
        PROVE  (i \in DOMAIN up /\ i <= Len(up)) \/ i = Len(up) + 1
    <3>1. Len(up) \in Nat /\ i \in 1..(Len(up) + 1)
      BY <1>3
    <3>2. (i \in 1..Len(up) /\ i <= Len(up)) \/ i = Len(up) + 1
      BY <2>1, <3>1
    <3>3. DOMAIN up = 1..Len(up)
      BY <1>3
    <3> QED BY <3>2, <3>3, Zenon
  <2>3. up'[Len(up) + 1].n = sendCounter
    BY <1>2, <1>3
  <2>4. \A i \in DOMAIN up : up'[i] = up[i]
    BY <1>3
  <2> QED BY <2>2, <2>3, <2>4, Zenon
<1>5. UpOrder'
  <2>1. /\ Len(sealing') = 0 /\ \A i \in DOMAIN sealing' : FALSE
    BY <1>2
  <2>2. \A i \in DOMAIN up' : up'[i].n < sendCounter'
    BY <1>2, <1>3, <1>4 DEF UpChain, UpOrder
  <2>3. ASSUME NEW i \in DOMAIN up', NEW j \in DOMAIN up', i < j
        PROVE  up'[i].n < up'[j].n
    <3>1. i \in 1..Len(up) /\ i \in DOMAIN up
      BY <1>3, <2>3
    <3>2. up'[i] = up[i] /\ up[i].n < sendCounter
      BY <1>3, <3>1 DEF UpChain, UpOrder
    <3>3. CASE j = Len(up) + 1
      BY <1>2, <1>3, <3>2, <3>3
    <3>4. CASE j \in DOMAIN up
      BY <1>3, <2>3, <3>1, <3>2, <3>4 DEF UpChain, UpOrder
    <3> QED BY <1>4, <3>3, <3>4
  <2> QED BY <2>1, <2>2, <2>3 DEF UpOrder
<1>6. UpExact'
  <2>1. CASE "up" \in lost \/ skipped
    BY <1>1, <2>1 DEF UpExact
  <2>2. CASE ~("up" \in lost \/ skipped)
    <3>1. /\ sendCounter = RecvCounter + Len(up)
          /\ \A i \in DOMAIN up : up[i].n = RecvCounter + i - 1
      BY <2>2 DEF UpChain, UpExact
    <3>2. sendCounter' = RecvCounter' + Len(up')
      BY <1>1, <1>2, <1>3, <3>1
    <3>3. ASSUME NEW i \in DOMAIN up'
          PROVE  up'[i].n = RecvCounter' + i - 1
      <4>1. CASE i \in DOMAIN up /\ up'[i] = up[i]
        BY <1>1, <3>1, <4>1
      <4>2. CASE i = Len(up) + 1 /\ up'[i].n = sendCounter
        BY <1>1, <1>3, <3>1, <4>2
      <4> QED BY <1>4, <4>1, <4>2
    <3> QED BY <3>2, <3>3 DEF UpExact
  <2> QED BY <2>1, <2>2
<1> QED BY <1>2, <1>5, <1>6 DEF UpChain

-----------------------------------------------------------------------------
\* Towards the agent: the blocks

LEMMA BlocksShrunk ==
    ASSUME Blocks, Shrunk, uploads \subseteq uploads'
    PROVE  Blocks'
<1>1. \A m : OfTransfer(m)' = OfTransfer(m) /\ Base(m)' = Base(m)
  BY DEF OfTransfer, Base, Offset
<1> QED BY <1>1 DEF Blocks, Shrunk, OfTransfer, Base, Offset

\* A keystroke is typed
LEMMA InFlightTyped ==
    ASSUME TypeOK, TypeOK', Type
    PROVE  /\ NextN' = NextN + 1
           /\ \A m \in InFlight' : m \in InFlight \/ (m.n = NextN /\ ~OfTransfer(m))
<1>1. PICK c \in {Keystroke, LargePaste} : sendQueue' = Append(sendQueue, c)
  BY DEF Type
<1>2. UNCHANGED <<up, sealing, sendCounter>>
  BY DEF Type
<1>3. c \in Contents /\ c.type \notin {"start", "chunk", "end"}
  BY ContentFacts DEF Keystroke, LargePaste
<1>4. /\ Len(sendQueue) \in Nat /\ Len(sendQueue') = Len(sendQueue) + 1
      /\ DOMAIN sendQueue' = 1..(Len(sendQueue) + 1) /\ DOMAIN sendQueue = 1..Len(sendQueue)
      /\ sendQueue'[Len(sendQueue) + 1] = c
      /\ \A p \in 1..Len(sendQueue) : sendQueue'[p] = sendQueue[p]
      /\ sendCounter \in Nat /\ Len(sealing) \in Nat
  <2>1. sendQueue \in Seq(Contents) /\ sendCounter \in Nat /\ sealing \in Seq(Sealed)
    BY DEF TypeOK
  <2> QED BY <1>1, <1>3, <2>1
<1>5. NextN' = NextN + 1
  BY <1>2, <1>4 DEF NextN
<1>6. ASSUME NEW p \in DOMAIN sendQueue'
      PROVE  \/ p \in DOMAIN sendQueue /\ Queued(p)' = Queued(p)
             \/ Queued(p)'.n = NextN /\ ~OfTransfer(Queued(p)')
  <2>1. \A n \in Nat : \A i \in 1..(n + 1) : i \in 1..n \/ i = n + 1
    OBVIOUS
  <2>2. p \in 1..Len(sendQueue) \/ p = Len(sendQueue) + 1
    BY <1>4, <2>1
  <2>3. CASE p \in 1..Len(sendQueue)
    BY <1>2, <1>4, <2>3 DEF Queued
  <2>4. CASE p = Len(sendQueue) + 1
    <3>1. sendCounter + Len(sealing) + p - 1 = NextN
      BY <1>4, <2>4 DEF NextN
    <3>2. Queued(p)' = [n |-> NextN, content |-> c]
      BY <1>2, <1>4, <2>4, <3>1 DEF Queued
    <3> QED BY <1>3, <3>2 DEF OfTransfer
  <2> QED BY <2>2, <2>3, <2>4
<1> QED BY <1>2, <1>5, <1>6 DEF InFlight

LEMMA BlocksTyped ==
    ASSUME TypeOK, TypeOK', Blocks, Type
    PROVE  Blocks'
<1>1. /\ NextN' = NextN + 1 /\ uploads' = uploads
      /\ \A m \in InFlight' : m \in InFlight \/ (m.n = NextN /\ ~OfTransfer(m))
  BY InFlightTyped DEF Type
<1>2. NextN \in Nat /\ \A m \in InFlight : m \in Sealed
  BY InFlightTypes
<1>3. \A m \in InFlight : m.n \in Nat /\ Base(m) \in Int
  BY <1>2, MessageFacts
<1>4. \A m \in InFlight' : OfTransfer(m) => m \in InFlight
  BY <1>1
<1>5. \A m \in InFlight' : m.n < NextN'
  BY <1>1, <1>2, <1>3 DEF Blocks
<1>6. \A m \in InFlight' : OfTransfer(m) =>
        m.content.transfer \in uploads' /\ Base(m) + Chunks + 1 < NextN'
  BY <1>1, <1>2, <1>3, <1>4 DEF Blocks
<1>7. ASSUME NEW m \in InFlight', NEW k \in InFlight',
             OfTransfer(m), Base(m) <= k.n, k.n <= Base(m) + Chunks + 1
      PROVE  OfTransfer(k) /\ k.content.transfer = m.content.transfer
  <2>1. m \in InFlight /\ Base(m) + Chunks + 1 < NextN /\ Base(m) \in Int
    BY <1>3, <1>4, <1>7 DEF Blocks
  <2>2. k.n # NextN
    BY <1>2, <1>7, <2>1
  <2> QED BY <1>1, <1>7, <2>1, <2>2 DEF Blocks
<1>8. \A m, k \in InFlight' :
        OfTransfer(m) /\ OfTransfer(k) /\ k.content.transfer = m.content.transfer
          => Base(k) = Base(m)
  BY <1>4 DEF Blocks
<1> QED BY <1>5, <1>6, <1>7, <1>8 DEF Blocks, OfTransfer, Base, Offset

\* A transfer is queued
LEMMA InFlightUpload ==
    ASSUME TypeOK, TypeOK', NEW t \in Transfers, Upload(t)
    PROVE  /\ NextN' = NextN + Chunks + 2
           /\ \A m \in InFlight' :
                \/ m \in InFlight
                \/ /\ OfTransfer(m) /\ m.content.transfer = t /\ Base(m) = NextN
                   /\ m.n \in Nat /\ NextN <= m.n /\ m.n < NextN'
<1>1. UNCHANGED <<up, sealing, sendCounter>>
  BY DEF Upload
<1>2. /\ sendQueue' \in Seq(Contents)
      /\ Len(sendQueue') = Len(sendQueue) + Chunks + 2
      /\ \A p \in 1..Len(sendQueue) : sendQueue'[p] = sendQueue[p]
      /\ \A j \in 1..(Chunks + 2) : sendQueue'[Len(sendQueue) + j] = Transfer(t)[j]
  BY UploadQueues
<1>3. /\ Len(sendQueue) \in Nat /\ Len(sealing) \in Nat /\ sendCounter \in Nat
      /\ DOMAIN sendQueue = 1..Len(sendQueue)
      /\ DOMAIN sendQueue' = 1..(Len(sendQueue) + (Chunks + 2))
  <2>1. sendQueue \in Seq(Contents) /\ sendCounter \in Nat /\ sealing \in Seq(Sealed)
    BY DEF TypeOK
  <2>2. /\ Len(sendQueue) \in Nat /\ Len(sealing) \in Nat
        /\ DOMAIN sendQueue = 1..Len(sendQueue) /\ DOMAIN sendQueue' = 1..Len(sendQueue')
    BY <1>2, <2>1
  <2> QED BY <1>2, <2>1, <2>2
<1>4. NextN' = NextN + Chunks + 2 /\ NextN \in Nat
  BY <1>1, <1>2, <1>3 DEF NextN
<1>5. ASSUME NEW p \in DOMAIN sendQueue'
      PROVE  \/ p \in DOMAIN sendQueue /\ Queued(p)' = Queued(p)
             \/ /\ OfTransfer(Queued(p)') /\ Queued(p)'.content.transfer = t
                /\ Base(Queued(p)') = NextN
                /\ Queued(p)'.n \in Nat /\ NextN <= Queued(p)'.n /\ Queued(p)'.n < NextN'
  <2>1. CASE p \in 1..Len(sendQueue)
    BY <1>1, <1>2, <1>3, <2>1 DEF Queued
  <2>2. CASE p \notin 1..Len(sendQueue)
    <3>1. PICK j \in 1..(Chunks + 2) : p = Len(sendQueue) + j
      <4>1. \A a \in Nat, b \in Nat : \A i \in 1..(a + b) :
              i \notin 1..a => i - a \in 1..b /\ i = a + (i - a)
        OBVIOUS
      <4>2. Chunks + 2 \in Nat
        OBVIOUS
      <4>3. p - Len(sendQueue) \in 1..(Chunks + 2) /\ p = Len(sendQueue) + (p - Len(sendQueue))
        BY <1>3, <2>2, <4>1, <4>2
      <4> QED BY <4>3
    <3>2. sendCounter + Len(sealing) + p - 1 = NextN + (j - 1)
      BY <1>3, <3>1 DEF NextN
    <3>3. Queued(p)' = [n |-> NextN + (j - 1), content |-> Transfer(t)[j]]
      BY <1>1, <1>2, <3>1, <3>2 DEF Queued
    <3>4. /\ Transfer(t)[j].type \in {"start", "chunk", "end"}
          /\ Transfer(t)[j].transfer = t /\ Offset(Transfer(t)[j]) = j - 1
      BY TransferFacts
    <3>5. Base(Queued(p)') = NextN
      <4>1. (NextN + (j - 1)) - (j - 1) = NextN
        BY <1>4
      <4> QED BY <3>3, <3>4, <4>1 DEF Base
    <3>6. /\ NextN + (j - 1) \in Nat
          /\ NextN <= NextN + (j - 1) /\ NextN + (j - 1) < NextN'
      BY <1>4
    <3> QED BY <3>3, <3>4, <3>5, <3>6 DEF OfTransfer
  <2> QED BY <2>1, <2>2
<1> QED BY <1>1, <1>4, <1>5 DEF InFlight

LEMMA BlocksUpload ==
    ASSUME TypeOK, TypeOK', Blocks, NEW t \in Transfers, Upload(t)
    PROVE  Blocks'
<1>1. /\ NextN' = NextN + Chunks + 2 /\ uploads' = uploads \union {t} /\ t \notin uploads
      /\ \A m \in InFlight' :
           \/ m \in InFlight
           \/ /\ OfTransfer(m) /\ m.content.transfer = t /\ Base(m) = NextN
              /\ m.n \in Nat /\ NextN <= m.n /\ m.n < NextN'
  BY InFlightUpload DEF Upload
<1>2. NextN \in Nat /\ \A m \in InFlight : m \in Sealed
  BY InFlightTypes
<1>3. \A m \in InFlight : m.n \in Nat /\ Base(m) \in Int
  BY <1>2, MessageFacts
<1>4. \A m \in InFlight' : m.n < NextN'
  BY <1>1, <1>2, <1>3 DEF Blocks
<1>5. \A m \in InFlight' : OfTransfer(m) =>
        m.content.transfer \in uploads' /\ Base(m) + Chunks + 1 < NextN'
  BY <1>1, <1>2, <1>3 DEF Blocks
<1>6. ASSUME NEW m \in InFlight', NEW k \in InFlight',
             OfTransfer(m), Base(m) <= k.n, k.n <= Base(m) + Chunks + 1
      PROVE  OfTransfer(k) /\ k.content.transfer = m.content.transfer
  <2>1. CASE m \in InFlight
    <3>1. Base(m) + Chunks + 1 < NextN /\ Base(m) \in Int
      BY <1>3, <1>6, <2>1 DEF Blocks
    <3>2. k \in InFlight
      <4>1. ~(NextN <= k.n /\ k.n \in Nat)
        BY <1>2, <1>6, <3>1
      <4> QED BY <1>1, <4>1
    <3> QED BY <1>6, <2>1, <3>2 DEF Blocks
  <2>2. CASE m \notin InFlight
    <3>1. Base(m) = NextN /\ m.content.transfer = t
      BY <1>1, <2>2
    <3>2. k \notin InFlight
      BY <1>2, <1>3, <1>6, <3>1 DEF Blocks
    <3> QED BY <1>1, <3>1, <3>2
  <2> QED BY <2>1, <2>2
<1>7. ASSUME NEW m \in InFlight', NEW k \in InFlight',
             OfTransfer(m), OfTransfer(k), k.content.transfer = m.content.transfer
      PROVE  Base(k) = Base(m)
  <2>1. \A x \in InFlight : OfTransfer(x) => x.content.transfer # t
    BY <1>1 DEF Blocks
  <2>2. CASE m \in InFlight
    BY <1>1, <1>7, <2>1, <2>2 DEF Blocks
  <2>3. CASE m \notin InFlight
    BY <1>1, <1>7, <2>1, <2>3
  <2> QED BY <2>2, <2>3
<1> QED BY <1>4, <1>5, <1>6, <1>7 DEF Blocks, OfTransfer, Base, Offset

-----------------------------------------------------------------------------
\* Towards the agent: the chunks that were opened

\* Nothing is opened and no transfer becomes pending
LEMMA OpenedKept ==
    ASSUME Opened, UNCHANGED RecvCounter, uploads \subseteq uploads',
           \A m \in InFlight' : m \in InFlight \/ ~OfTransfer(m)
                                \/ m.content.transfer \notin DOMAIN pending,
           DOMAIN pending' \subseteq DOMAIN pending,
           \A t \in DOMAIN pending' : pending'[t] = pending[t]
    PROVE  Opened'
<1>1. ASSUME NEW m \in InFlight', OfTransfer(m), m.content.transfer \in DOMAIN pending',
             NEW i \in 1..Chunks, Base(m) + i < RecvCounter'
      PROVE  i \in pending'[m.content.transfer]
  BY <1>1 DEF Opened
<1> QED BY <1>1 DEF Opened, OfTransfer, Base, Offset

\* What opens at the agent continues a transfer where it is, or is outside of it
LEMMA OpensInBlock ==
    ASSUME TypeOK, Blocks, up # <<>>, Opens, NEW m \in InFlight, OfTransfer(m),
           NEW i \in 0..(Chunks + 1), Base(m) + i = RecvCounter
    PROVE  /\ OfTransfer(Head(up)) /\ Received.transfer = m.content.transfer
           /\ Offset(Received) = i
<1> DEFINE h == Head(up)
<1>1. h \in InFlight
  <2>1. up \in Seq(Sealed)
    BY DEF TypeOK
  <2>2. 1 \in DOMAIN up /\ Head(up) = up[1]
    BY <2>1, HeadAndTail
  <2> QED BY <2>2 DEF InFlight
<1>2. h \in Sealed /\ m \in Sealed
  BY <1>1, InFlightTypes
<1>3. /\ h.n = RecvCounter /\ h.content = Received /\ h.n \in Nat
      /\ Base(h) = h.n - Offset(Received) /\ Offset(Received) \in 0..(Chunks + 1)
      /\ Base(m) \in Int
  BY <1>2, MessageFacts DEF Opens, Received
<1>4. OfTransfer(h) /\ h.content.transfer = m.content.transfer
  <2>1. Base(m) <= h.n /\ h.n <= Base(m) + Chunks + 1
    BY <1>3
  <2> QED BY <1>1, <2>1 DEF Blocks
<1>5. Base(h) = Base(m)
  BY <1>1, <1>4 DEF Blocks
<1>6. Offset(Received) = i
  BY <1>3, <1>5
<1> QED BY <1>3, <1>4, <1>6

LEMMA OpenedReceived ==
    ASSUME TypeOK, TypeOK', SinglePending, Blocks, Opened, Shrunk, ReceiveStep
    PROVE  Opened'
<1>1. /\ up # <<>> /\ uploads' = uploads /\ RecvCounter \in Nat
      /\ InFlight' \subseteq InFlight /\ Head(up) \in InFlight
  <2>1. up # <<>> /\ UNCHANGED userVars
    BY DEF NextUp, ReceiveKeystroke, ReceiveStart, PutAside, ReceiveLateChunk,
           ReceiveChunk, ReceiveEnd, ReceiveStep
  <2>2. up \in Seq(Sealed) /\ RecvCounter \in Nat
    BY DEF TypeOK
  <2>3. 1 \in DOMAIN up /\ Head(up) = up[1]
    BY <2>1, <2>2, HeadAndTail
  <2> QED BY <2>1, <2>2, <2>3 DEF userVars, Shrunk, InFlight
<1>2. \A m \in InFlight : m \in Sealed /\ m.n \in Nat /\ Base(m) \in Int
  BY InFlightTypes, MessageFacts
<1>3. CASE RecvCounter' = RecvCounter /\ DOMAIN pending' \subseteq DOMAIN pending
           /\ \A t \in DOMAIN pending' : pending'[t] = pending[t]
  BY <1>1, <1>3, OpenedKept
<1>4. CASE Opens /\ RecvCounter' = RecvCounter + 1
  <2>1. DOMAIN pending' \subseteq uploads'
    <3>1. DOMAIN pending' \subseteq DOMAIN pending
            \/ (ReceiveStart /\ DOMAIN pending' \subseteq DOMAIN pending \union {Received.transfer})
      BY DEF ReceiveKeystroke, ReceiveStart, PutAside, ReceiveLateChunk, ReceiveChunk,
             ReceiveEnd, ReceiveStep, agentVars, Forget, Restrict
    <3>2. ReceiveStart => Received.transfer \in uploads
      <4>1. ReceiveStart => OfTransfer(Head(up))
        BY DEF ReceiveStart, NextUp, OfTransfer
      <4> QED BY <1>1, <4>1 DEF Blocks, Received
    <3> QED BY <1>1, <3>1, <3>2 DEF Opened
  <2>2. ASSUME NEW m \in InFlight', OfTransfer(m), m.content.transfer \in DOMAIN pending',
               NEW i \in 1..Chunks, Base(m) + i < RecvCounter'
        PROVE  i \in pending'[m.content.transfer]
    <3> DEFINE t == m.content.transfer
    <3>1. m \in InFlight /\ Base(m) \in Int
      BY <1>1, <1>2
    <3>2. Base(m) + i < RecvCounter \/ Base(m) + i = RecvCounter
      BY <1>1, <1>4, <2>2, <3>1
    <3>3. CASE Base(m) + i = RecvCounter
      <4>1. OfTransfer(Head(up)) /\ Received.transfer = t /\ Offset(Received) = i
        BY <1>1, <1>4, <2>2, <3>1, <3>3, OpensInBlock
      <4>2. Received.type = "chunk" /\ Received.index = i
        BY <4>1 DEF OfTransfer, Offset, Received
      <4>3. ReceiveChunk
        <5>1. ~ReceiveLateChunk /\ ~PutAside
          BY <1>1, <1>4 DEF ReceiveLateChunk, PutAside, agentVars
        <5> QED BY <4>2, <5>1 DEF ReceiveStep, ReceiveKeystroke, ReceiveStart, ReceiveEnd,
                                   NextUp, Received
      <4>4. t \in DOMAIN pending /\ pending' = [pending EXCEPT ![t] = pending[t] \union {i}]
        BY <1>4, <4>1, <4>2, <4>3 DEF ReceiveChunk
      <4> QED BY <4>4
    <3>4. CASE Base(m) + i < RecvCounter
      <4>1. CASE t \in DOMAIN pending
        <5>1. i \in pending[t]
          BY <2>2, <3>1, <3>4, <4>1 DEF Opened
        <5>2. pending[t] \subseteq pending'[t]
          <6>1. CASE ReceiveKeystroke \/ PutAside
            BY <6>1 DEF ReceiveKeystroke, PutAside, agentVars
          <6>2. CASE ReceiveStart
            BY <1>4, <4>1, <6>2 DEF ReceiveStart, Accepts
          <6>3. CASE ReceiveLateChunk \/ ReceiveEnd
            BY <2>2, <6>3 DEF ReceiveLateChunk, ReceiveEnd, Forget, Restrict
          <6>4. CASE ReceiveChunk
            <7> DEFINE r == Received.transfer
                       got == pending[r] \union {Received.index}
            <7>1. pending' = [pending EXCEPT ![r] = got] /\ r \in DOMAIN pending
              BY <1>4, <6>4 DEF ReceiveChunk
            <7>2. pending[r] \subseteq got
              OBVIOUS
            <7> HIDE DEF r, got
            <7> QED BY <4>1, <7>1, <7>2
          <6> QED BY <6>1, <6>2, <6>3, <6>4 DEF ReceiveStep
        <5> QED BY <5>1, <5>2
      <4>2. CASE t \notin DOMAIN pending
        <5>1. ReceiveStart /\ t = Received.transfer
          BY <2>2, <4>2 DEF ReceiveKeystroke, ReceiveStart, PutAside, ReceiveLateChunk,
             ReceiveChunk, ReceiveEnd, ReceiveStep, agentVars, Forget, Restrict
        <5>2. OfTransfer(Head(up)) /\ Base(Head(up)) = RecvCounter
          <6>1. Head(up).content.type = "start" /\ Head(up).n = RecvCounter
            BY <1>4, <5>1 DEF ReceiveStart, NextUp, Opens
          <6>2. Offset(Head(up).content) = 0
            BY <6>1 DEF Offset
          <6> QED BY <1>1, <6>1, <6>2 DEF Base, OfTransfer
        <5>3. Base(m) = RecvCounter
          BY <1>1, <2>2, <3>1, <5>1, <5>2 DEF Blocks, Received
        <5> QED BY <1>1, <3>4, <5>3
      <4> QED BY <4>1, <4>2
    <3> QED BY <3>2, <3>3, <3>4
  <2> QED BY <2>1, <2>2 DEF Opened, OfTransfer, Base, Offset
<1>5. \/ Opens /\ RecvCounter' = RecvCounter + 1
      \/ RecvCounter' = RecvCounter /\ DOMAIN pending' \subseteq DOMAIN pending
           /\ \A t \in DOMAIN pending' : pending'[t] = pending[t]
  <2>1. CASE ReceiveKeystroke \/ PutAside
    BY <2>1 DEF ReceiveKeystroke, PutAside, OpenNext, NextCounter, agentVars
  <2>2. CASE ReceiveStart \/ ReceiveChunk
    BY <2>2 DEF ReceiveStart, ReceiveChunk, OpenNext, NextCounter
  <2>3. CASE ReceiveLateChunk \/ ReceiveEnd
    BY <2>3 DEF ReceiveLateChunk, ReceiveEnd, OpenNext, NextCounter, Forget, Restrict
  <2> QED BY <2>1, <2>2, <2>3 DEF ReceiveStep
<1> QED BY <1>3, <1>4, <1>5

LEMMA UpStep ==
    ASSUME TypeOK, TypeOK', SinglePending, UpChain, Blocks, Opened, [Next]_vars
    PROVE  UpChain' /\ Blocks' /\ Opened'
<1>1. CASE ReceiveStep
  <2>1. /\ up # <<>> /\ up' = Tail(up)
        /\ UNCHANGED <<sealing, sendQueue, sendCounter, uploads, lost>>
    BY <1>1 DEF NextUp, ReceiveKeystroke, ReceiveStart, PutAside, ReceiveLateChunk,
                ReceiveChunk, ReceiveEnd, ReceiveStep, sendVars, userVars, historyVars
  <2>2. OpenNext \/ (skipped' /\ RecvCounter' = RecvCounter)
    BY <1>1 DEF ReceiveKeystroke, ReceiveStart, PutAside, ReceiveLateChunk,
                ReceiveChunk, ReceiveEnd, ReceiveStep, agentVars
  <2>3. skipped => skipped'
    BY <1>1 DEF ReceiveKeystroke, ReceiveStart, PutAside, ReceiveLateChunk,
                ReceiveChunk, ReceiveEnd, ReceiveStep, historyVars
  <2>4. UpLossesKept
    BY <2>1, <2>3 DEF UpLossesKept
  <2>5. UpChain' /\ Shrunk
    BY <2>1, <2>2, <2>4, UpReceived
  <2> QED BY <1>1, <2>1, <2>5, BlocksShrunk, OpenedReceived
<1>2. CASE LoseUp \/ SealBegins \/ SealEnds
  <2>1. UpChain' /\ Shrunk
    BY <1>2, UpLost, UpSealing, UpSealed
  <2>2. UNCHANGED <<RecvCounter, pending, uploads>>
    BY <1>2 DEF LoseUp, SealBegins, SealEnds, agentVars, userVars
  <2> QED BY <2>1, <2>2, BlocksShrunk, OpenedKept DEF Shrunk
<1>3. CASE Type \/ \E t \in Transfers : Upload(t)
  <2>1. UNCHANGED <<up, sealing, sendCounter, RecvCounter, pending, lost, skipped>>
    BY <1>3 DEF Type, Upload, agentVars, historyVars
  <2>2. UpChain'
    BY <2>1, UpUntouched DEF UpLossesKept
  <2>3. Blocks'
    BY <1>3, BlocksTyped, BlocksUpload
  <2>4. uploads \subseteq uploads'
    BY <1>3 DEF Type, Upload
  <2>5. \A m \in InFlight' : m \in InFlight \/ ~OfTransfer(m)
                            \/ m.content.transfer \notin DOMAIN pending
    <3>1. CASE Type
      BY <3>1, InFlightTyped
    <3>2. ASSUME NEW t \in Transfers, Upload(t)
          PROVE  \A m \in InFlight' : m \in InFlight \/ ~OfTransfer(m)
                                   \/ m.content.transfer \notin DOMAIN pending
      <4>1. t \notin DOMAIN pending
        BY <3>2 DEF Upload, Opened
      <4>2. \A m \in InFlight' : m \in InFlight \/ m.content.transfer = t
        BY <3>2, InFlightUpload
      <4> QED BY <4>1, <4>2
    <3> QED BY <1>3, <3>1, <3>2
  <2> QED BY <2>1, <2>2, <2>3, <2>4, <2>5, OpenedKept
<1>4. CASE \/ ShellOutput \/ ReplayRequest \/ (\E g \in Goroutines : Queue(g) \/ QueueTimeout(g))
           \/ LoseDown \/ Subscribe \/ Deliver \/ OpenBegins \/ OpenEnds \/ UNCHANGED vars
  <2>1. UNCHANGED <<up, sealing, sendQueue, sendCounter>>
    BY <1>4 DEF ShellOutput, ReplayRequest, Queue, QueueTimeout, LoseDown, Subscribe,
                Deliver, OpenBegins, OpenEnds, vars, sendVars
  <2>2. UNCHANGED <<RecvCounter, pending, uploads>>
    BY <1>4 DEF ShellOutput, ReplayRequest, Queue, QueueTimeout, LoseDown, Subscribe,
                Deliver, OpenBegins, OpenEnds, vars, agentVars, userVars
  <2>3. UpLossesKept
    BY <1>4 DEF ShellOutput, ReplayRequest, Queue, QueueTimeout, LoseDown, Subscribe,
                Deliver, OpenBegins, OpenEnds, vars, historyVars, UpLossesKept
  <2>4. Shrunk
    BY <2>1, InFlightKept
  <2>5. UpChain'
    BY <2>1, <2>2, <2>3, UpUntouched
  <2>6. Blocks'
    BY <2>2, <2>4, BlocksShrunk
  <2>7. Opened'
    BY <2>2, <2>4, OpenedKept DEF Shrunk
  <2> QED BY <2>5, <2>6, <2>7
<1> QED BY <1>1, <1>2, <1>3, <1>4 DEF Next, AgentStep, BrowserStep, ReceiveStep

-----------------------------------------------------------------------------
\* The inductive invariant

SessionInv ==
    /\ TypeOK /\ SinglePending
    /\ DownShape /\ DownDistinct /\ DownExact
    /\ UpOrder /\ UpExact
    /\ Blocks /\ Opened

LEMMA SessionInit == Init => SessionInv
<1> SUFFICES ASSUME Init PROVE SessionInv
  OBVIOUS
<1>1. TypeOK /\ SinglePending
  <2>1. DOMAIN pending = {}
    BY DEF Init
  <2>2. Cardinality(DOMAIN pending) <= 1
    BY <2>1, FS_EmptySet
  <2>3. \A g \in Goroutines : Len(staged[g]) <= 1
    BY DEF Init
  <2>4. staged \in [Goroutines -> Seq(Nat)]
    BY DEF Init
  <2>5. /\ down \in Seq(Nat) /\ recvQueue \in Seq(Nat)
        /\ up \in Seq(Sealed) /\ sendQueue \in Seq(Contents) /\ sealing \in Seq(Sealed)
        /\ opening \in Seq([n : Nat, expected : Nat])
    BY DEF Init
  <2>6. /\ SendCounter \in Nat /\ RecvCounter \in Nat
        /\ sendCounter \in Nat /\ recvCounter \in Nat
        /\ subscribed \in BOOLEAN /\ keys \in Nat /\ uploads \subseteq Transfers
        /\ lost \subseteq {"down", "up"} /\ overtaken \in BOOLEAN /\ skipped \in BOOLEAN
    BY DEF Init
  <2> QED BY <2>1, <2>2, <2>3, <2>4, <2>5, <2>6 DEF TypeOK, SinglePending
<1>2. Length = 0
  <2>1. Len(opening) = 0 /\ Len(recvQueue) = 0 /\ Len(down) = 0
    BY DEF Init
  <2> QED BY <1>1, <2>1, Transit
<1>3. /\ \A g \in Goroutines : staged[g] = <<>>
      /\ SendCounter = 0 /\ recvCounter = 0 /\ opening = <<>>
  BY DEF Init
<1>4. \A i \in 1..Length : FALSE
  BY <1>2
<1>5. DownShape /\ DownDistinct
  BY <1>3, <1>4 DEF DownShape, DownDistinct
<1>6. DownExact
  BY <1>2, <1>3, <1>4 DEF DownExact, NextDown
<1>7. up = <<>> /\ sealing = <<>> /\ sendQueue = <<>> /\ sendCounter = 0 /\ RecvCounter = 0
  BY DEF Init
<1>8. UpOrder /\ UpExact
  BY <1>7 DEF UpOrder, UpExact
<1>9. InFlight = {}
  BY <1>7 DEF InFlight
<1>10. Blocks /\ Opened
  BY <1>9 DEF Blocks, Opened, Init
<1> QED BY <1>1, <1>5, <1>6, <1>8, <1>10 DEF SessionInv

LEMMA SessionStep == SessionInv /\ [Next]_vars => SessionInv'
<1> SUFFICES ASSUME SessionInv, [Next]_vars PROVE SessionInv'
  OBVIOUS
<1>1. TypeOK' /\ SinglePending'
  BY TypeStep DEF SessionInv
<1>2. DownParts'
  BY <1>1, DownStep DEF SessionInv, DownParts
<1>3. UpChain' /\ Blocks' /\ Opened'
  BY <1>1, UpStep DEF SessionInv, UpChain
<1> QED BY <1>1, <1>2, <1>3 DEF SessionInv, DownParts, UpChain

LEMMA SessionInvariant == Spec => []SessionInv
BY SessionInit, SessionStep, PTL DEF Spec

-----------------------------------------------------------------------------
\* Results

\* The sequence of the counters towards the agent
LEMMA UpTransit ==
    ASSUME TypeOK
    PROVE  /\ Len(up) \in Nat /\ Len(sealing) \in Nat
           /\ DOMAIN UpInTransit = 1..(Len(up) + Len(sealing))
           /\ \A i \in 1..Len(up) : UpInTransit[i] = up[i].n
           /\ \A i \in 1..Len(sealing) : UpInTransit[Len(up) + i] = sealing[i].n
           /\ DOMAIN up = 1..Len(up) /\ DOMAIN sealing = 1..Len(sealing)
           /\ \A i \in 1..Len(up) : up[i].n \in Nat
<1>1. up \in Seq(Sealed) /\ sealing \in Seq(Sealed)
  BY DEF TypeOK
<1>2. /\ \A i \in DOMAIN up : up[i].n \in Nat
      /\ \A i \in DOMAIN sealing : sealing[i].n \in Nat
  <2>1. /\ \A i \in DOMAIN up : up[i] \in Sealed
        /\ \A i \in DOMAIN sealing : sealing[i] \in Sealed
    BY <1>1
  <2> QED BY <2>1 DEF Sealed
<1> DEFINE u == Counters(up)
           s == Counters(sealing)
<1>3. /\ u \in Seq(Nat) /\ Len(u) = Len(up) /\ \A i \in 1..Len(up) : u[i] = up[i].n
      /\ s \in Seq(Nat) /\ Len(s) = Len(sealing)
      /\ \A i \in 1..Len(sealing) : s[i] = sealing[i].n
  BY <1>1, <1>2, CountersFacts
<1>4. UpInTransit = u \o s
  BY DEF UpInTransit
<1> HIDE DEF u, s
<1>5. /\ u \o s \in Seq(Nat) /\ Len(u \o s) = Len(u) + Len(s)
      /\ \A i \in 1..(Len(u) + Len(s)) :
           (u \o s)[i] = IF i <= Len(u) THEN u[i] ELSE s[i - Len(u)]
  BY ZenonT(30), <1>3, ConcatProperties
<1>6. Len(up) \in Nat /\ Len(sealing) \in Nat
  BY <1>1
<1>7. DOMAIN UpInTransit = 1..(Len(up) + Len(sealing))
  BY <1>3, <1>4, <1>5
<1>8. ASSUME NEW i \in 1..Len(up)
      PROVE  UpInTransit[i] = up[i].n
  <2>1. i \in 1..(Len(up) + Len(sealing)) /\ i <= Len(up)
    BY <1>6
  <2> QED BY <1>3, <1>4, <1>5, <2>1
<1>9. ASSUME NEW i \in 1..Len(sealing)
      PROVE  UpInTransit[Len(up) + i] = sealing[i].n
  <2>1. /\ Len(up) + i \in 1..(Len(up) + Len(sealing)) /\ ~(Len(up) + i <= Len(up))
        /\ (Len(up) + i) - Len(up) = i
    BY <1>6
  <2> QED BY <1>3, <1>4, <1>5, <2>1
<1> QED BY <1>1, <1>2, <1>6, <1>7, <1>8, <1>9

\* Every index of UpInTransit is one of up or the one of sealing
LEMMA UpIndices ==
    ASSUME TypeOK, UpOrder, NEW i \in DOMAIN UpInTransit
    PROVE  /\ i \in Nat /\ i >= 1
           /\ \/ i \in DOMAIN up /\ i <= Len(up) /\ UpInTransit[i] = up[i].n
              \/ i = Len(up) + 1 /\ UpInTransit[i] = sendCounter
<1>1. /\ Len(up) \in Nat /\ Len(sealing) \in Nat /\ Len(sealing) <= 1
      /\ i \in 1..(Len(up) + Len(sealing))
  BY UpTransit DEF UpOrder
<1>2. i \in 1..Len(up) \/ (i = Len(up) + 1 /\ Len(sealing) = 1)
  <2>1. \A a \in Nat, b \in Nat : \A k \in 1..(a + b) :
          b <= 1 => k \in 1..a \/ (k = a + 1 /\ b = 1)
    OBVIOUS
  <2> QED BY <1>1, <2>1
<1>3. CASE i \in 1..Len(up)
  BY <1>1, <1>3, UpTransit
<1>4. CASE i = Len(up) + 1 /\ Len(sealing) = 1
  <2>1. 1 \in 1..Len(sealing)
    BY <1>4
  <2>2. UpInTransit[i] = sealing[1].n
    BY <1>4, <2>1, UpTransit
  <2>3. sealing[1].n = sendCounter
    BY <2>1, UpTransit DEF UpOrder
  <2> QED BY <1>1, <1>4, <2>2, <2>3
<1> QED BY <1>2, <1>3, <1>4

\* The state has its types.
THEOREM SessionTypeCorrect == Spec => []TypeOK
<1>1. SessionInv => TypeOK
  BY DEF SessionInv
<1> QED BY <1>1, SessionInvariant, PTL

\* No nonce is used twice, in either direction: the counters of what is on its
\* way to the agent differ, in up and under the browser's encrypt(), and so do
\* those on the way to the browser and in the hands of the two goroutines.
LEMMA DistinctUp ==
    ASSUME SessionInv
    PROVE  IsInjective(UpInTransit)
<1>1. TypeOK /\ UpOrder
  BY DEF SessionInv
<1>2. ASSUME NEW i \in DOMAIN UpInTransit, NEW j \in DOMAIN UpInTransit, i < j
      PROVE  UpInTransit[i] # UpInTransit[j]
  <2>1. i \in DOMAIN up /\ i <= Len(up) /\ UpInTransit[i] = up[i].n /\ up[i].n \in Nat
    <3>1. i \in Nat /\ j \in Nat /\ Len(up) \in Nat /\ (j <= Len(up) \/ j = Len(up) + 1)
      BY <1>1, UpIndices, UpTransit
    <3>2. i # Len(up) + 1
      BY <1>2, <3>1
    <3> QED BY <1>1, <3>2, UpIndices, UpTransit
  <2>2. CASE j \in DOMAIN up /\ UpInTransit[j] = up[j].n
    <3>1. up[i].n < up[j].n /\ up[j].n \in Nat
      BY <1>1, <1>2, <2>1, <2>2, UpTransit DEF UpOrder
    <3> QED BY <2>1, <2>2, <3>1
  <2>3. CASE UpInTransit[j] = sendCounter
    <3>1. up[i].n < sendCounter /\ sendCounter \in Nat
      BY <1>1, <2>1 DEF UpOrder, TypeOK
    <3> QED BY <2>1, <2>3, <3>1
  <2> QED BY <1>1, <2>2, <2>3, UpIndices
<1>3. ASSUME NEW i \in DOMAIN UpInTransit, NEW j \in DOMAIN UpInTransit,
             UpInTransit[i] = UpInTransit[j]
      PROVE  i = j
  <2>1. i \in Nat /\ j \in Nat
    BY <1>1, UpIndices
  <2>2. i < j \/ j < i \/ i = j
    BY <2>1
  <2> QED BY <1>2, <1>3, <2>2
<1> QED BY <1>3 DEF IsInjective

LEMMA DistinctDown ==
    ASSUME SessionInv
    PROVE  IsInjective(DownInTransit \o staged["shell"] \o staged["loop"])
<1> DEFINE d == DownInTransit
           a == staged["shell"]
           b == staged["loop"]
<1>1. /\ TypeOK /\ DownDistinct
      /\ "shell" \in Goroutines /\ "loop" \in Goroutines
  BY DEF SessionInv, Goroutines
<1>2. /\ d \in Seq(Nat) /\ a \in Seq(Nat) /\ b \in Seq(Nat)
      /\ Len(a) <= 1 /\ Len(b) <= 1 /\ Len(a) \in Nat /\ Len(b) \in Nat /\ Len(d) \in Nat
  <2>1. d \in Seq(Nat)
    BY <1>1, Transit
  <2>2. a \in Seq(Nat) /\ b \in Seq(Nat) /\ Len(a) <= 1 /\ Len(b) <= 1
    BY <1>1 DEF TypeOK
  <2> HIDE DEF d, a, b
  <2> QED BY <2>1, <2>2
<1>3. /\ \A i, j \in 1..Len(d) : d[i] = d[j] => i = j
      /\ \A i \in 1..Len(d) : Len(a) = 1 => a[1] # d[i]
      /\ \A i \in 1..Len(d) : Len(b) = 1 => b[1] # d[i]
      /\ Len(a) = 1 /\ Len(b) = 1 => a[1] # b[1]
  <2>0. ASSUME NEW q \in Seq(Nat), Len(q) = 1
        PROVE  q # <<>>
    BY <2>0
  <2>1. (Len(a) = 1 => a # <<>>) /\ (Len(b) = 1 => b # <<>>)
    BY <1>2, <2>0, Zenon
  <2>2. "shell" # "loop"
    OBVIOUS
  <2> QED BY <1>1, <2>1, <2>2 DEF DownDistinct, Length
<1> HIDE DEF d, a, b
<1>4. ASSUME NEW r \in Seq(Nat), NEW s \in Seq(Nat)
      PROVE  /\ r \o s \in Seq(Nat) /\ Len(r \o s) = Len(r) + Len(s)
             /\ \A i \in 1..(Len(r) + Len(s)) :
                  (r \o s)[i] = IF i <= Len(r) THEN r[i] ELSE s[i - Len(r)]
  BY ConcatProperties
<1> DEFINE front == d \o a
<1>5. /\ front \in Seq(Nat) /\ Len(front) = Len(d) + Len(a)
      /\ \A i \in 1..(Len(d) + Len(a)) :
           front[i] = IF i <= Len(d) THEN d[i] ELSE a[i - Len(d)]
  BY <1>2, <1>4
<1> HIDE DEF front
<1> DEFINE all == front \o b
<1>6. /\ all \in Seq(Nat) /\ Len(all) = Len(front) + Len(b)
      /\ \A i \in 1..(Len(front) + Len(b)) :
           all[i] = IF i <= Len(front) THEN front[i] ELSE b[i - Len(front)]
  BY <1>2, <1>4, <1>5
<1> HIDE DEF all
<1>7. ASSUME NEW i \in DOMAIN all
      PROVE  \/ i \in 1..Len(d) /\ all[i] = d[i]
             \/ i = Len(d) + 1 /\ Len(a) = 1 /\ all[i] = a[1]
             \/ i = Len(d) + Len(a) + 1 /\ Len(b) = 1 /\ all[i] = b[1]
  <2>1. i \in 1..(Len(d) + Len(a) + Len(b))
    BY <1>5, <1>6
  <2>2. CASE i <= Len(d)
    <3>1. /\ i \in 1..Len(d) /\ i <= Len(front) /\ i \in 1..(Len(front) + Len(b))
          /\ i \in 1..(Len(d) + Len(a))
      BY <1>2, <1>5, <2>1, <2>2
    <3> QED BY <1>5, <1>6, <2>2, <3>1
  <2>3. CASE i > Len(d) /\ i <= Len(d) + Len(a)
    <3>1. i = Len(d) + 1 /\ Len(a) = 1 /\ i - Len(d) = 1
      <4>1. \A n, m, k \in Nat : m <= 1 /\ k > n /\ k <= n + m
              => k = n + 1 /\ m = 1 /\ k - n = 1
        OBVIOUS
      <4>2. i \in Nat /\ i > Len(d) /\ i <= Len(d) + Len(a)
        BY <1>2, <2>1, <2>3
      <4> QED BY <1>2, <4>1, <4>2
    <3>2. /\ i <= Len(front) /\ i \in 1..(Len(front) + Len(b))
          /\ i \in 1..(Len(d) + Len(a)) /\ ~(i <= Len(d))
      BY <1>2, <1>5, <2>1, <2>3
    <3> QED BY <1>5, <1>6, <3>1, <3>2
  <2>4. CASE i > Len(d) + Len(a)
    <3>1. i = Len(d) + Len(a) + 1 /\ Len(b) = 1 /\ i - (Len(d) + Len(a)) = 1
      <4>1. \A n, m, k \in Nat : m <= 1 /\ k > n /\ k <= n + m
              => k = n + 1 /\ m = 1 /\ k - n = 1
        OBVIOUS
      <4>2. Len(d) + Len(a) \in Nat /\ i \in Nat /\ i <= (Len(d) + Len(a)) + Len(b)
        BY <1>2, <2>1
      <4> QED BY <1>2, <2>4, <4>1, <4>2
    <3>2. ~(i <= Len(front)) /\ i \in 1..(Len(front) + Len(b)) /\ i - Len(front) = 1
      BY <1>2, <1>5, <2>1, <2>4, <3>1
    <3> QED BY <1>6, <3>1, <3>2
  <2> QED BY <1>2, <2>1, <2>2, <2>3, <2>4
<1>8. ASSUME NEW i \in DOMAIN all, NEW j \in DOMAIN all, all[i] = all[j]
      PROVE  i = j
  BY <1>3, <1>7, <1>8
<1>9. IsInjective(all)
  BY <1>8 DEF IsInjective
<1> QED BY <1>9 DEF all, front, d, a, b

\* No two messages under way in one direction, nor those the agent's goroutines
\* hold, bear the same counter.
THEOREM NoncesCorrect == Spec => []NoncesDistinct
<1>1. SessionInv => NoncesDistinct
  BY DistinctUp, DistinctDown DEF NoncesDistinct
<1> QED BY <1>1, SessionInvariant, PTL

\* Every message on its way to the browser opens there, unless one was lost or
\* a goroutine overtook the other.
THEOREM DownInStepCorrect == Spec => []DownInStep
<1>1. ASSUME SessionInv PROVE DownInStep
  <2>1. DownInTransit \in Seq(Nat)
    BY <1>1, Transit DEF SessionInv
  <2>2. DOMAIN DownInTransit = 1..Length
    BY <2>1 DEF Length
  <2> QED BY <1>1, <2>2 DEF SessionInv, DownExact, DownInStep
<1> QED BY <1>1, SessionInvariant, PTL

\* Every message on its way to the agent opens there, unless one was lost or
\* the agent put one aside unopened.
THEOREM UpInStepCorrect == Spec => []UpInStep
<1>1. ASSUME SessionInv PROVE UpInStep
  <2>1. TypeOK /\ UpOrder /\ UpExact
    BY <1>1 DEF SessionInv
  <2>2. CASE "up" \in lost \/ skipped
    BY <2>2 DEF UpInStep
  <2>3. CASE ~("up" \in lost \/ skipped)
    <3>1. /\ sendCounter = RecvCounter + Len(up)
          /\ \A i \in DOMAIN up : up[i].n = RecvCounter + i - 1
      BY <2>1, <2>3 DEF UpExact
    <3>2. ASSUME NEW i \in DOMAIN UpInTransit
          PROVE  UpInTransit[i] = RecvCounter + i - 1
      <4>1. Len(up) \in Nat /\ RecvCounter \in Nat
        BY <2>1, UpTransit DEF TypeOK
      <4>2. CASE i \in DOMAIN up /\ UpInTransit[i] = up[i].n
        BY <3>1, <4>2
      <4>3. CASE i = Len(up) + 1 /\ UpInTransit[i] = sendCounter
        BY <3>1, <4>1, <4>3
      <4> QED BY <2>1, <4>2, <4>3, UpIndices
    <3> QED BY <3>2 DEF UpInStep
  <2> QED BY <2>2, <2>3
<1> QED BY <1>1, SessionInvariant, PTL

\* A file is assembled from all its chunks or not at all.
THEOREM EndMeansWholeCorrect == Spec => []EndMeansWhole
<1>1. ASSUME SessionInv, NextUp("end"), Opens, Received.transfer \in DOMAIN pending
      PROVE  pending[Received.transfer] = 1..Chunks
  <2> DEFINE h == Head(up)
             t == Received.transfer
  <2>1. TypeOK /\ Opened
    BY <1>1 DEF SessionInv
  <2>2. h \in InFlight
    <3>1. up \in Seq(Sealed) /\ up # <<>>
      BY <1>1, <2>1 DEF TypeOK, NextUp
    <3>2. 1 \in DOMAIN up /\ Head(up) = up[1]
      BY <3>1, HeadAndTail
    <3> QED BY <3>2 DEF InFlight
  <2>3. /\ h.content = Received /\ h.content.type = "end" /\ h.n = RecvCounter
        /\ OfTransfer(h)
    BY <1>1 DEF NextUp, Opens, Received, OfTransfer
  <2>4. Base(h) = RecvCounter - (Chunks + 1)
    BY <2>3 DEF Base, Offset
  <2>5. RecvCounter \in Nat
    BY <2>1 DEF TypeOK
  <2>6. ASSUME NEW i \in 1..Chunks
        PROVE  i \in pending[t]
    <3>1. Base(h) + i < RecvCounter
      BY <2>4, <2>5
    <3> QED BY <1>1, <2>1, <2>2, <2>3, <3>1 DEF Opened
  <2>7. pending[t] \subseteq 1..Chunks
    BY <1>1, <2>1 DEF TypeOK
  <2> QED BY <2>6, <2>7
<1>2. SessionInv => EndMeansWhole
  BY <1>1 DEF EndMeansWhole
<1> QED BY <1>2, SessionInvariant, PTL
=============================================================================
