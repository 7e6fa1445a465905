-------------------------- MODULE AgentLinkProofs --------------------------
(***************************************************************************)
(* Proofs about AgentLink for any number of shells, any capacity of the    *)
(* channel and any limits.  The inductive invariant ties where Run is to   *)
(* what may still be alive: outside the read loop and the wait no worker   *)
(* is, and from the drain to the next lost connection no message of an     *)
(* earlier connection is in anybody's hands.                               *)
(***************************************************************************)
EXTENDS AgentLink, SequenceTheorems, WellFoundedInduction, TLAPS

Waiter == [proc : Senders, msg : Message]

\* Nothing in the channel, or blocked before it, is of a lost connection
FreshQueue ==
    /\ \A i \in DOMAIN sendCh : ~sendCh[i].old
    /\ \A i \in DOMAIN waiting : ~waiting[i].msg.old

FreshHand == \A i \in DOMAIN held : ~held[i].old

WorkersMatchRun ==
    /\ main \notin {"read", "join"} => writer = "off" /\ heart = "off"
    /\ writer = "off" => held = <<>>
    /\ heart = "off" => ~Blocked("heart")

LinkMatchesRun ==
    /\ link = "up" => main \in {"hello", "read"}

QueueMatchesRun ==
    main \in {"connect", "hello", "read", "sleep"} => FreshQueue /\ FreshHand

LinkInv == TypeOK /\ WorkersMatchRun /\ LinkMatchesRun /\ QueueMatchesRun

USE LinkConstants

-----------------------------------------------------------------------------
\* The channel

\* Send adds its own message and nothing else.
LEMMA SendFacts ==
    ASSUME TypeOK, NEW p \in Senders, NEW m \in Message, Send(p, m)
    PROVE  /\ sendCh' \in Seq(Message) /\ Len(sendCh') <= Capacity
           /\ waiting' \in Seq(Waiter)
           /\ FreshQueue /\ ~m.old => FreshQueue'
           /\ \A q \in Senders : q # p /\ ~Blocked(q) => ~Blocked(q)'
<1>w. waiting \in Seq(Waiter) /\ sendCh \in Seq(Message)
  BY DEF TypeOK, Waiter
<1>1. CASE Len(sendCh) < Capacity
  <2>1. sendCh' = Append(sendCh, m) /\ waiting' = waiting
    BY <1>1 DEF Send
  <2>2. sendCh' \in Seq(Message) /\ Len(sendCh') <= Capacity
    BY <1>1, <1>w, <2>1
  <2>3. \A i \in DOMAIN sendCh' : sendCh'[i] = m \/ (i \in DOMAIN sendCh /\ sendCh'[i] = sendCh[i])
    BY <1>w, <2>1
  <2> QED BY <1>w, <2>1, <2>2, <2>3 DEF FreshQueue, Blocked
<1>2. CASE ~(Len(sendCh) < Capacity)
  <2> DEFINE w == [proc |-> p, msg |-> m]
  <2>1. sendCh' = sendCh /\ waiting' = Append(waiting, w)
    BY <1>2 DEF Send
  <2>2. w \in Waiter
    BY DEF Waiter
  <2>3. waiting' \in Seq(Waiter)
    BY <1>w, <2>1, <2>2
  <2>4. \A i \in DOMAIN waiting' :
          waiting'[i] = w \/ (i \in DOMAIN waiting /\ waiting'[i] = waiting[i])
    BY <1>w, <2>1, <2>2
  <2>5. w.proc = p /\ w.msg = m
    OBVIOUS
  <2> HIDE DEF w
  <2> QED BY <1>w, <2>1, <2>3, <2>4, <2>5 DEF FreshQueue, Blocked, TypeOK
<1> QED BY <1>1, <1>2

\* A receive passes messages on and lets at most one sender go.
LEMMA ReceiveFacts ==
    ASSUME TypeOK, Receive
    PROVE  /\ sendCh' \in Seq(Message) /\ Len(sendCh') <= Capacity
           /\ waiting' \in Seq(Waiter)
           /\ Head(sendCh) \in Message
           /\ FreshQueue => FreshQueue' /\ ~Head(sendCh).old
           /\ \A q \in Senders : ~Blocked(q) => ~Blocked(q)'
<1>w. /\ waiting \in Seq(Waiter) /\ sendCh \in Seq(Message)
      /\ sendCh # <<>> /\ Len(sendCh) <= Capacity
  BY DEF TypeOK, Waiter, Receive
<1>h. Head(sendCh) = sendCh[1] /\ 1 \in DOMAIN sendCh /\ Head(sendCh) \in Message
  BY <1>w
<1>t. /\ Tail(sendCh) \in Seq(Message) /\ Len(Tail(sendCh)) = Len(sendCh) - 1
      /\ \A i \in DOMAIN Tail(sendCh) :
           i + 1 \in DOMAIN sendCh /\ Tail(sendCh)[i] = sendCh[i + 1]
  BY <1>w
<1>1. CASE waiting = <<>>
  <2>1. sendCh' = Tail(sendCh) /\ waiting' = waiting
    BY <1>1 DEF Receive
  <2> QED BY <1>w, <1>h, <1>t, <2>1 DEF FreshQueue, Blocked
<1>2. CASE waiting # <<>>
  <2> DEFINE m == Head(waiting).msg
  <2>1. sendCh' = Append(Tail(sendCh), m) /\ waiting' = Tail(waiting)
    BY <1>2 DEF Receive
  <2>2. 1 \in DOMAIN waiting /\ m = waiting[1].msg /\ m \in Message
    <3>1. 1 \in DOMAIN waiting /\ Head(waiting) = waiting[1] /\ waiting[1] \in Waiter
      BY <1>w, <1>2
    <3> QED BY <3>1 DEF Waiter
  <2>3. /\ Tail(waiting) \in Seq(Waiter)
        /\ \A i \in DOMAIN Tail(waiting) :
             i + 1 \in DOMAIN waiting /\ Tail(waiting)[i] = waiting[i + 1]
    BY <1>w, <1>2
  <2> HIDE DEF m
  <2>4. sendCh' \in Seq(Message) /\ Len(sendCh') = Len(sendCh)
    BY <1>t, <1>w, <2>1, <2>2
  <2>5. \A i \in DOMAIN sendCh' :
          \/ sendCh'[i] = m
          \/ i + 1 \in DOMAIN sendCh /\ sendCh'[i] = sendCh[i + 1]
    BY <1>t, <2>1, <2>2
  <2>6. FreshQueue => FreshQueue'
    BY <2>1, <2>2, <2>3, <2>5 DEF FreshQueue
  <2>7. \A q \in Senders : ~Blocked(q) => ~Blocked(q)'
    BY <2>1, <2>3 DEF Blocked
  <2> QED BY <1>w, <1>h, <2>1, <2>3, <2>4, <2>6, <2>7 DEF FreshQueue
<1> QED BY <1>1, <1>2

\* A sender that gives up leaves the others waiting.
LEMMA TimeoutFacts ==
    ASSUME TypeOK, NEW p \in Senders, SendTimeout(p)
    PROVE  /\ waiting' \in Seq(Waiter)
           /\ FreshQueue => FreshQueue'
           /\ \A q \in Senders : ~Blocked(q) => ~Blocked(q)'
<1>1. PICK i \in DOMAIN waiting : waiting' = RemoveAt(waiting, i)
  BY DEF SendTimeout
<1>2. waiting \in Seq(Waiter) /\ i \in 1..Len(waiting)
  BY DEF TypeOK, Waiter
<1>3. waiting' = SubSeq(waiting, 1, i - 1) \o SubSeq(waiting, i + 1, Len(waiting))
  BY <1>1 DEF RemoveAt
<1>4. waiting' \in Seq(Waiter)
  BY <1>2, <1>3
<1>5. \A j \in DOMAIN waiting' : \E k \in DOMAIN waiting : waiting'[j] = waiting[k]
  <2> SUFFICES ASSUME NEW j \in DOMAIN waiting'
               PROVE  \E k \in DOMAIN waiting : waiting'[j] = waiting[k]
    OBVIOUS
  <2> DEFINE before == SubSeq(waiting, 1, i - 1)
             after == SubSeq(waiting, i + 1, Len(waiting))
  <2>1. /\ before \in Seq(Waiter) /\ Len(before) = i - 1
        /\ \A k \in 1..(i - 1) : before[k] = waiting[k]
    BY <1>2
  <2>2. /\ after \in Seq(Waiter) /\ Len(after) = Len(waiting) - i
        /\ \A k \in 1..(Len(waiting) - i) : after[k] = waiting[i + k]
    BY <1>2
  <2>3. waiting' = before \o after
    BY <1>3
  <2> HIDE DEF before, after
  <2>4. /\ j \in 1..(Len(waiting) - 1)
        /\ waiting'[j] = IF j <= i - 1 THEN before[j] ELSE after[j - (i - 1)]
    BY <1>2, <2>1, <2>2, <2>3
  <2>5. CASE j <= i - 1
    BY <1>2, <2>1, <2>4, <2>5
  <2>6. CASE ~(j <= i - 1)
    <3>1. j - (i - 1) \in 1..(Len(waiting) - i) /\ i + (j - (i - 1)) = j + 1
      BY <1>2, <2>4, <2>6
    <3>2. waiting'[j] = waiting[j + 1] /\ j + 1 \in DOMAIN waiting
      BY SMTT(20), <1>2, <2>2, <2>4, <2>6, <3>1
    <3> QED BY <3>2
  <2> QED BY <2>5, <2>6
<1>6. sendCh' = sendCh
  BY DEF SendTimeout
<1> QED BY <1>4, <1>5, <1>6 DEF FreshQueue, Blocked

-----------------------------------------------------------------------------
\* The invariant

LEMMA LinkInit == Init => LinkInv
<1> SUFFICES ASSUME Init PROVE LinkInv
  OBVIOUS
<1>1. TypeOK
  BY DEF Init, TypeOK
<1>2. WorkersMatchRun /\ LinkMatchesRun /\ QueueMatchesRun
  BY DEF Init, WorkersMatchRun, LinkMatchesRun, QueueMatchesRun, FreshQueue,
         FreshHand, Blocked
<1> QED BY <1>1, <1>2 DEF LinkInv

\* The two messages of the model are fresh.
LEMMA MessageFacts ==
    /\ Hello \in Message /\ ~Hello.old
    /\ Other \in Message /\ ~Other.old
BY DEF Hello, Other, Message

\* A function on the indices of a sequence is a sequence of the same length.
LEMMA MappedSeq ==
    ASSUME NEW S, NEW T, NEW s \in Seq(S), NEW t, t \in [DOMAIN s -> T]
    PROVE  t \in Seq(T) /\ Len(t) = Len(s) /\ DOMAIN t = DOMAIN s
<1>1. Len(s) \in Nat /\ DOMAIN s = 1..Len(s)
  OBVIOUS
<1>2. t \in Seq(T)
  BY <1>1, SeqDef
<1>3. DOMAIN t = 1..Len(t) /\ Len(t) \in Nat
  BY <1>2, LenProperties
<1>4. DOMAIN t = DOMAIN s
  OBVIOUS
<1>5. 1..Len(t) = 1..Len(s)
  BY <1>1, <1>3, <1>4
<1> QED BY <1>1, <1>2, <1>3, <1>4, <1>5

\* Steps that only send: they keep the invariant whoever sends, except that a
\* heartbeat is sent only while the heartbeat runs.
LEMMA SendOnly ==
    ASSUME LinkInv, NEW p \in Senders, Send(p, Other),
           p = "heart" => heart = "run",
           shells' \subseteq Shells,
           UNCHANGED <<main, patience, workers, network>>
    PROVE  LinkInv'
<1>1. /\ sendCh' \in Seq(Message) /\ Len(sendCh') <= Capacity
      /\ waiting' \in Seq(Waiter)
      /\ FreshQueue => FreshQueue'
      /\ \A q \in Senders : q # p /\ ~Blocked(q) => ~Blocked(q)'
  BY SendFacts, MessageFacts DEF LinkInv
<1>2. TypeOK'
  BY <1>1 DEF LinkInv, TypeOK, Waiter, patience, workers, network
<1>3. WorkersMatchRun'
  BY <1>1 DEF LinkInv, WorkersMatchRun, workers, Senders
<1>4. LinkMatchesRun' /\ QueueMatchesRun'
  BY <1>1 DEF LinkInv, LinkMatchesRun, QueueMatchesRun, FreshHand, workers, network
<1> QED BY <1>2, <1>3, <1>4 DEF LinkInv

\* Every step of Run keeps the invariant.
LEMMA RunStepInv == LinkInv /\ RunStep => LinkInv'
<1> SUFFICES ASSUME LinkInv, RunStep PROVE LinkInv'
  OBVIOUS
<1> USE DEF LinkInv
<1>m. "main" \in Senders /\ "heart" \in Senders
  BY DEF Senders
<1>r. CountRetry(retries) \in 0..RetryBound
  BY DEF TypeOK, CountRetry, Smaller
<1>b. Doubled(backoff) \in 1..MaxBackoff
  BY DEF TypeOK, Doubled, Smaller
<1>1. CASE ConnectFails
  <2>1. TypeOK'
    BY <1>1, <1>r DEF ConnectFails, GiveUpOrSleep, TypeOK, queue, workers, network
  <2>2. WorkersMatchRun' /\ LinkMatchesRun' /\ QueueMatchesRun'
    BY <1>1 DEF ConnectFails, GiveUpOrSleep, WorkersMatchRun, LinkMatchesRun,
                QueueMatchesRun, FreshQueue, FreshHand, Blocked, queue, workers, network
  <2> QED BY <2>1, <2>2
<1>2. CASE ConnectOpens
  <2>1. Send("main", Hello) /\ main = "connect" /\ main' = "hello"
    BY <1>2 DEF ConnectOpens
  <2>2. /\ sendCh' \in Seq(Message) /\ Len(sendCh') <= Capacity
        /\ waiting' \in Seq(Waiter)
        /\ FreshQueue => FreshQueue'
        /\ \A q \in Senders : q # "main" /\ ~Blocked(q) => ~Blocked(q)'
    BY <1>m, <2>1, SendFacts, MessageFacts
  <2>3. TypeOK'
    BY <1>2, <2>2 DEF ConnectOpens, TypeOK, Waiter, patience, workers
  <2>4. WorkersMatchRun' /\ LinkMatchesRun' /\ QueueMatchesRun'
    BY <1>2, <1>m, <2>2 DEF ConnectOpens, WorkersMatchRun, LinkMatchesRun,
                            QueueMatchesRun, FreshHand, workers
  <2> QED BY <2>3, <2>4
<1>3. CASE StartLoops
  <2>1. TypeOK'
    BY <1>3 DEF StartLoops, TypeOK, BackoffOnSuccess, queue, network
  <2>2. WorkersMatchRun' /\ LinkMatchesRun' /\ QueueMatchesRun'
    BY <1>3 DEF StartLoops, WorkersMatchRun, LinkMatchesRun, QueueMatchesRun,
                FreshQueue, FreshHand, Blocked, queue, network
  <2> QED BY <2>1, <2>2
<1>4. CASE Reply
  <2>1. Send("main", Other) /\ UNCHANGED <<main, patience, workers, shells, network>>
    BY <1>4 DEF Reply
  <2> QED BY <1>m, <2>1, SendOnly DEF TypeOK
<1>5. CASE ReadFails
  <2>1. /\ sendCh' \in Seq(Message) /\ Len(sendCh') <= Capacity
        /\ held' \in Seq(Message) /\ Len(held') <= 1
        /\ held = <<>> => held' = <<>>
    <3>1. \A m \in Message : AsOld(m) \in Message
      BY DEF AsOld, Message
    <3>2. sendCh \in Seq(Message) /\ held \in Seq(Message)
      BY DEF TypeOK
    <3>3. sendCh' \in [DOMAIN sendCh -> Message] /\ held' \in [DOMAIN held -> Message]
      BY <1>5, <3>1, <3>2 DEF ReadFails, AllOld
    <3>4. /\ sendCh' \in Seq(Message) /\ Len(sendCh') = Len(sendCh)
          /\ held' \in Seq(Message) /\ Len(held') = Len(held)
      BY <3>2, <3>3, MappedSeq
    <3> QED BY <3>2, <3>4 DEF TypeOK
  <2>2. /\ waiting' \in Seq(Waiter)
        /\ DOMAIN waiting' = DOMAIN waiting
        /\ \A i \in DOMAIN waiting : waiting'[i].proc = waiting[i].proc
    <3>1. waiting \in Seq(Waiter)
      BY DEF TypeOK, Waiter
    <3>2. \A w \in Waiter : /\ [w EXCEPT !.msg = AsOld(@)] \in Waiter
                            /\ [w EXCEPT !.msg = AsOld(@)].proc = w.proc
      BY DEF Waiter, AsOld, Message
    <3>3. /\ waiting' \in [DOMAIN waiting -> Waiter]
          /\ \A i \in DOMAIN waiting : waiting'[i].proc = waiting[i].proc
      <4>1. waiting' = [i \in DOMAIN waiting |-> [waiting[i] EXCEPT !.msg = AsOld(@)]]
        BY <1>5 DEF ReadFails
      <4>2. \A i \in DOMAIN waiting : waiting[i] \in Waiter
        BY <3>1
      <4>3. \A i \in DOMAIN waiting : waiting'[i] = [waiting[i] EXCEPT !.msg = AsOld(@)]
        BY <4>1
      <4>4. \A i \in DOMAIN waiting :
              waiting'[i] \in Waiter /\ waiting'[i].proc = waiting[i].proc
        BY <3>2, <4>2, <4>3
      <4> HIDE DEF Waiter
      <4> QED BY <4>1, <4>4
    <3>4. waiting' \in Seq(Waiter) /\ DOMAIN waiting' = DOMAIN waiting
      BY <3>1, <3>3, MappedSeq
    <3> QED BY <3>3, <3>4
  <2>3. TypeOK'
    BY <1>5, <2>1, <2>2 DEF ReadFails, TypeOK, Waiter, patience, network
  <2>4. WorkersMatchRun' /\ LinkMatchesRun' /\ QueueMatchesRun'
    BY <1>5, <2>1, <2>2 DEF ReadFails, WorkersMatchRun, LinkMatchesRun,
                            QueueMatchesRun, Blocked, network
  <2> QED BY <2>3, <2>4
<1>6. CASE WaitReturns
  <2>1. TypeOK'
    BY <1>6 DEF WaitReturns, TypeOK, patience, queue, workers
  <2>2. WorkersMatchRun' /\ LinkMatchesRun' /\ QueueMatchesRun'
    BY <1>6 DEF WaitReturns, WorkersGone, WorkersMatchRun, LinkMatchesRun,
                QueueMatchesRun, Blocked, queue, workers
  <2> QED BY <2>1, <2>2
<1>7. CASE Drain
  <2>1. sendCh' = <<>> /\ waiting' = <<>>
    BY <1>7 DEF Drain, Drained
  <2>2. TypeOK'
    BY <1>7, <1>r, <2>1 DEF Drain, GiveUpOrSleep, TypeOK, workers, network
  <2>3. WorkersMatchRun' /\ LinkMatchesRun' /\ QueueMatchesRun'
    BY <1>7, <2>1 DEF Drain, GiveUpOrSleep, WorkersMatchRun, LinkMatchesRun,
                      QueueMatchesRun, FreshQueue, FreshHand, Blocked, workers, network
  <2> QED BY <2>2, <2>3
<1>8. CASE Wake
  <2>1. TypeOK'
    BY <1>8, <1>b DEF Wake, TypeOK, queue, workers, network
  <2>2. WorkersMatchRun' /\ LinkMatchesRun' /\ QueueMatchesRun'
    BY <1>8 DEF Wake, WorkersMatchRun, LinkMatchesRun, QueueMatchesRun,
                FreshQueue, FreshHand, Blocked, queue, workers, network
  <2> QED BY <2>1, <2>2
<1> QED BY <1>1, <1>2, <1>3, <1>4, <1>5, <1>6, <1>7, <1>8 DEF RunStep

\* Every step of the writer and of the heartbeat keeps the invariant.
LEMMA WorkerStepInv == LinkInv /\ WorkerStep => LinkInv'
<1> SUFFICES ASSUME LinkInv, WorkerStep PROVE LinkInv'
  OBVIOUS
<1> USE DEF LinkInv
<1>m. "heart" \in Senders
  BY DEF Senders
<1>1. CASE WriterTakes
  <2>1. Receive /\ held' = <<Head(sendCh)>>
    BY <1>1 DEF WriterTakes
  <2>2. /\ sendCh' \in Seq(Message) /\ Len(sendCh') <= Capacity
        /\ waiting' \in Seq(Waiter)
        /\ Head(sendCh) \in Message
        /\ FreshQueue => FreshQueue' /\ ~Head(sendCh).old
        /\ \A q \in Senders : ~Blocked(q) => ~Blocked(q)'
    BY <2>1, ReceiveFacts
  <2>3. /\ held' \in Seq(Message) /\ Len(held') = 1
        /\ FreshQueue => FreshHand'
    BY <2>1, <2>2 DEF FreshHand
  <2>4. TypeOK'
    BY <1>1, <2>2, <2>3 DEF WriterTakes, TypeOK, Waiter, patience, network
  <2>5. WorkersMatchRun' /\ LinkMatchesRun' /\ QueueMatchesRun'
    BY <1>1, <1>m, <2>2, <2>3 DEF WriterTakes, WorkersMatchRun, LinkMatchesRun,
                                  QueueMatchesRun, network
  <2> QED BY <2>4, <2>5
<1>2. CASE WriterWrites
  <2>1. Head(held) \in Message
    BY <1>2 DEF WriterWrites, TypeOK
  <2>2. TypeOK'
    BY <1>2, <2>1 DEF WriterWrites, TypeOK, Message, patience, queue
  <2>3. WorkersMatchRun' /\ LinkMatchesRun' /\ QueueMatchesRun'
    BY <1>2 DEF WriterWrites, WorkersMatchRun, LinkMatchesRun, QueueMatchesRun,
                FreshQueue, FreshHand, Blocked, queue
  <2> QED BY <2>2, <2>3
<1>3. CASE WriterFails
  <2>1. TypeOK'
    BY <1>3 DEF WriterFails, TypeOK, patience, queue, network
  <2>2. WorkersMatchRun' /\ LinkMatchesRun' /\ QueueMatchesRun'
    BY <1>3 DEF WriterFails, WorkersMatchRun, LinkMatchesRun, QueueMatchesRun,
                FreshQueue, FreshHand, Blocked, queue, network
  <2> QED BY <2>1, <2>2
<1>4. CASE WriterStops
  <2>1. TypeOK'
    BY <1>4 DEF WriterStops, TypeOK, patience, queue, network
  <2>2. WorkersMatchRun' /\ LinkMatchesRun' /\ QueueMatchesRun'
    BY <1>4 DEF WriterStops, WorkersMatchRun, LinkMatchesRun, QueueMatchesRun,
                FreshQueue, FreshHand, Blocked, queue, network
  <2> QED BY <2>1, <2>2
<1>5. CASE HeartBeats
  <2>1. /\ Send("heart", Other) /\ heart = "run"
        /\ UNCHANGED <<main, patience, workers, shells, network>>
    BY <1>5 DEF HeartBeats
  <2> QED BY <1>m, <2>1, SendOnly DEF TypeOK
<1>6. CASE HeartStops
  <2>1. TypeOK'
    BY <1>6 DEF HeartStops, TypeOK, patience, queue, network
  <2>2. WorkersMatchRun' /\ LinkMatchesRun' /\ QueueMatchesRun'
    BY <1>6 DEF HeartStops, WorkersMatchRun, LinkMatchesRun, QueueMatchesRun,
                FreshQueue, FreshHand, Blocked, queue, network
  <2> QED BY <2>1, <2>2
<1> QED BY <1>1, <1>2, <1>3, <1>4, <1>5, <1>6 DEF WorkerStep

\* Every step keeps the invariant.
LEMMA LinkStep == LinkInv /\ [Next]_vars => LinkInv'
<1> SUFFICES ASSUME LinkInv, [Next]_vars PROVE LinkInv'
  OBVIOUS
<1>1. CASE RunStep
  BY <1>1, RunStepInv
<1>2. CASE WorkerStep
  BY <1>2, WorkerStepInv
<1>3. CASE LinkBreaks
  <2>1. TypeOK'
    BY <1>3 DEF LinkInv, LinkBreaks, TypeOK, patience, queue, workers
  <2>2. WorkersMatchRun' /\ LinkMatchesRun' /\ QueueMatchesRun'
    BY <1>3 DEF LinkInv, LinkBreaks, WorkersMatchRun, LinkMatchesRun,
                QueueMatchesRun, FreshQueue, FreshHand, Blocked, queue, workers
  <2> QED BY <2>1, <2>2 DEF LinkInv
<1>4. ASSUME NEW s \in Shells, ShellStarts(s) \/ ShellOutput(s) \/ ShellExits(s)
      PROVE  LinkInv'
  <2>1. PICK p \in {"main", s} : Send(p, Other)
    BY <1>4 DEF ShellStarts, ShellOutput, ShellExits
  <2>2. p \in Senders /\ p # "heart"
    BY <2>1 DEF Senders
  <2>3. /\ shells' \subseteq Shells
        /\ UNCHANGED <<main, patience, workers, network>>
    BY <1>4 DEF LinkInv, TypeOK, ShellStarts, ShellOutput, ShellExits
  <2> QED BY <2>1, <2>2, <2>3, SendOnly
<1>5. ASSUME NEW p \in Senders, SendTimeout(p)
      PROVE  LinkInv'
  <2>1. /\ waiting' \in Seq(Waiter)
        /\ FreshQueue => FreshQueue'
        /\ \A q \in Senders : ~Blocked(q) => ~Blocked(q)'
    BY <1>5, TimeoutFacts DEF LinkInv
  <2>2. TypeOK'
    BY <1>5, <2>1 DEF LinkInv, SendTimeout, TypeOK, Waiter, patience, workers, network
  <2>3. WorkersMatchRun' /\ LinkMatchesRun' /\ QueueMatchesRun'
    BY <1>5, <2>1 DEF LinkInv, SendTimeout, WorkersMatchRun, LinkMatchesRun,
                      QueueMatchesRun, FreshHand, Senders, workers, network
  <2> QED BY <2>2, <2>3 DEF LinkInv
<1>6. CASE UNCHANGED vars
  BY <1>6 DEF LinkInv, TypeOK, WorkersMatchRun, LinkMatchesRun, QueueMatchesRun,
              FreshQueue, FreshHand, Blocked, vars, patience, queue, workers, network
<1> QED BY <1>1, <1>2, <1>3, <1>4, <1>5, <1>6 DEF Next

LEMMA LinkInvariant == Spec => []LinkInv
<1> QED BY LinkInit, LinkStep, PTL DEF Spec

-----------------------------------------------------------------------------
\* The pauses

LEMMA LeastNumber ==
    ASSUME NEW T, T \subseteq Nat, T # {}
    PROVE  \E k \in T : \A j \in T : ~(j < k)
<1>1. \E k \in T : \A j \in T : <<j, k>> \notin OpToRel(<, Nat)
  BY WFMin, NatLessThanWellFounded
<1> QED BY <1>1 DEF OpToRel

\* g is what Power2 is to be, on 0..n
Doubles(g, n) == g \in [0..n -> Nat] /\ g[0] = 1 /\ \A i \in 1..n : g[i] = 2 * g[i - 1]

LEMMA DoublesExists == \A n \in Nat : \E g : Doubles(g, n)
<1> SUFFICES ASSUME \E n \in Nat : ~\E g : Doubles(g, n) PROVE FALSE
  OBVIOUS
<1> DEFINE T == {n \in Nat : ~\E g : Doubles(g, n)}
<1>1. PICK k \in T : \A j \in T : ~(j < k)
  BY LeastNumber
<1>2. CASE k = 0
  <2>1. PICK g : g = [i \in 0..0 |-> 1]
    OBVIOUS
  <2>2. Doubles(g, 0)
    BY <2>1 DEF Doubles
  <2> QED BY <1>1, <1>2, <2>2
<1>3. CASE k # 0
  <2>1. PICK j : j \in Nat /\ k = j + 1 /\ j < k
    <3>1. PICK j : j = k - 1
      OBVIOUS
    <3> QED BY <1>1, <1>3, <3>1
  <2>2. PICK g : Doubles(g, j)
    BY <1>1, <2>1
  <2>3. PICK h : h = [i \in 0..k |-> IF i = k THEN 2 * g[j] ELSE g[i]]
    OBVIOUS
  <2>4. h \in [0..k -> Nat] /\ h[0] = 1
    BY <2>1, <2>2, <2>3 DEF Doubles
  <2>5. ASSUME NEW i \in 1..k PROVE h[i] = 2 * h[i - 1]
    <3>1. CASE i = k
      BY <2>1, <2>3, <3>1
    <3>2. CASE i # k
      <4>1. i \in 1..j /\ i - 1 \in 0..k /\ i - 1 # k /\ i \in 0..k
        BY <2>1, <3>2
      <4> QED BY <2>2, <2>3, <3>2, <4>1 DEF Doubles
    <3> QED BY <3>1, <3>2
  <2> QED BY <1>1, <2>4, <2>5 DEF Doubles
<1> QED BY <1>2, <1>3

LEMMA DoublesOnce ==
    ASSUME NEW n \in Nat, NEW g, NEW h, Doubles(g, n), Doubles(h, n + 1)
    PROVE  \A i \in 0..n : g[i] = h[i]
<1> SUFFICES ASSUME \E i \in 0..n : g[i] # h[i] PROVE FALSE
  OBVIOUS
<1> DEFINE T == {i \in 0..n : g[i] # h[i]}
<1>1. PICK k \in T : \A j \in T : ~(j < k)
  <2>1. T \subseteq Nat /\ T # {}
    OBVIOUS
  <2> HIDE DEF T
  <2> QED BY <2>1, LeastNumber
<1>2. k # 0
  BY DEF Doubles
<1>3. PICK j : j = k - 1
  OBVIOUS
<1>4. j \in 0..n /\ j < k /\ k \in 1..n
  BY <1>1, <1>2, <1>3
<1>5. g[j] = h[j]
  BY <1>1, <1>4
<1>6. g[k] = 2 * g[j] /\ h[k] = 2 * h[j]
  BY <1>3, <1>4 DEF Doubles
<1> QED BY <1>5, <1>6

LEMMA Powers ==
    Power2[0] = 1 /\ \A n \in Nat : Power2[n] \in Nat /\ Power2[n + 1] = 2 * Power2[n]
<1> DEFINE G(n) == CHOOSE g : Doubles(g, n)
           F == [n \in Nat |-> G(n)[n]]
<1>1. \A n \in Nat : Doubles(G(n), n)
  BY DoublesExists
<1>2. ASSUME NEW n \in Nat PROVE F[n] = IF n = 0 THEN 1 ELSE 2 * F[n - 1]
  <2>1. CASE n = 0
    BY <1>1, <2>1 DEF Doubles
  <2>2. CASE n # 0
    <3>1. PICK m : m = n - 1 /\ m \in Nat /\ n = m + 1 /\ m \in 0..m /\ n \in 1..n
      BY <2>2
    <3>2. PICK a, b : a = G(n) /\ b = G(m) /\ F[n] = a[n] /\ F[m] = b[m]
      BY <3>1
    <3>3. Doubles(a, n) /\ Doubles(b, m)
      BY <1>1, <3>1, <3>2
    <3>4. a[m] = b[m]
      BY <3>1, <3>3, DoublesOnce
    <3>5. a[n] = 2 * a[m]
      BY <3>1, <3>3 DEF Doubles
    <3> QED BY <2>2, <3>1, <3>2, <3>4, <3>5
  <2> QED BY <2>1, <2>2
<1>3. F = [n \in Nat |-> IF n = 0 THEN 1 ELSE 2 * F[n - 1]]
  <2> HIDE DEF F
  <2>1. PICK H : H = [n \in Nat |-> IF n = 0 THEN 1 ELSE 2 * F[n - 1]]
    OBVIOUS
  <2>2. DOMAIN F = Nat /\ F = [n \in Nat |-> F[n]]
    BY DEF F
  <2> QED BY <1>2, <2>2
<1>4. Power2 = [n \in Nat |-> IF n = 0 THEN 1 ELSE 2 * Power2[n - 1]]
  <2> HIDE DEF F
  <2> QED BY <1>3 DEF Power2
<1> HIDE DEF F
<1>5. Power2[0] = 1 /\ \A n \in Nat : Power2[n + 1] = 2 * Power2[n]
  <2>1. \A n \in Nat : n + 1 \in Nat /\ n + 1 # 0 /\ (n + 1) - 1 = n
    OBVIOUS
  <2> QED BY <1>4, <2>1
<1>6. ASSUME NEW n \in Nat, Power2[n] \notin Nat PROVE FALSE
  <2> DEFINE T == {k \in Nat : Power2[k] \notin Nat}
  <2>1. PICK k \in T : \A j \in T : ~(j < k)
    BY <1>6, LeastNumber
  <2>2. PICK j : j \in Nat /\ k = j + 1 /\ j < k
    <3>1. PICK j : j = k - 1
      OBVIOUS
    <3>2. k # 0
      BY <1>5
    <3> QED BY <2>1, <3>1, <3>2
  <2>3. Power2[j] \in Nat
    BY <2>1, <2>2
  <2> QED BY <1>5, <2>2, <2>3
<1> QED BY <1>5, <1>6

\* The pause that follows n failures, counted no further than RetryBound
Pause(n) == Smaller(Power2[n], MaxBackoff)

LEMMA PauseFacts ==
    /\ Pause(0) = 1
    /\ \A n \in Nat : Doubled(Pause(n)) = Pause(n + 1)
    /\ \A n \in 0..RetryBound : /\ CountRetry(n) \in 1..RetryBound
                                 /\ Pause(CountRetry(n) - 1) = Pause(n)
<1>1. Pause(0) = 1
  BY Powers DEF Pause, Smaller
<1>2. ASSUME NEW n \in Nat PROVE Doubled(Pause(n)) = Pause(n + 1)
  <2>1. PICK p, q : p = Power2[n] /\ q = Power2[n + 1] /\ p \in Nat /\ q = 2 * p
    BY Powers
  <2> QED BY <2>1 DEF Pause, Doubled, Smaller
<1>3. ASSUME NEW n \in 0..RetryBound
      PROVE  CountRetry(n) \in 1..RetryBound /\ Pause(CountRetry(n) - 1) = Pause(n)
  <2>1. CASE n < RetryBound
    <3>1. CountRetry(n) = n + 1 /\ (n + 1) - 1 = n
      BY <2>1 DEF CountRetry, Smaller
    <3> QED BY <2>1, <3>1
  <2>2. CASE n = RetryBound
    <3>1. CountRetry(n) = n
      BY <2>2 DEF CountRetry, Smaller
    <3>2. PICK k : k = n - 1 /\ k \in Nat /\ n = k + 1
      BY <2>2
    <3>3. PICK p, q : p = Power2[k] /\ q = Power2[n] /\ p \in Nat /\ q = 2 * p
      BY <3>2, Powers
    <3>4. p >= MaxBackoff
      BY <2>2, <3>2, <3>3
    <3>5. Pause(k) = Pause(n)
      BY <3>3, <3>4 DEF Pause, Smaller
    <3> QED BY <2>2, <3>1, <3>2, <3>5
  <2> QED BY <2>1, <2>2
<1> QED BY <1>1, <1>2, <1>3

PauseInv ==
    /\ main = "sleep" => retries # 0 /\ backoff = Pause(retries - 1)
    /\ main \notin {"sleep", "stopped"} => backoff = Pause(retries)

LEMMA PauseStep == TypeOK /\ PauseInv /\ [Next]_vars => PauseInv'
<1> SUFFICES ASSUME TypeOK, PauseInv, [Next]_vars PROVE PauseInv'
  OBVIOUS
<1>1. retries \in 0..RetryBound
  BY DEF TypeOK
<1>2. ASSUME GiveUpOrSleep, backoff' = backoff, main \in {"connect", "drain"} PROVE PauseInv'
  <2>1. /\ retries' \in 1..RetryBound /\ Pause(retries' - 1) = backoff
        /\ main' \in {"sleep", "stopped"}
    BY <1>1, <1>2, PauseFacts DEF GiveUpOrSleep, PauseInv
  <2> QED BY <1>2, <2>1 DEF PauseInv
<1>3. ASSUME UNCHANGED patience,
             main' = main \/ {main, main'} \intersect {"sleep", "stopped"} = {}
      PROVE  PauseInv'
  BY <1>3 DEF PauseInv, patience
<1>4. CASE ConnectFails \/ Drain
  BY <1>2, <1>4 DEF ConnectFails, Drain
<1>5. CASE StartLoops
  <2>1. retries' = 0 /\ backoff' = 1 /\ main' = "read"
    BY <1>5 DEF StartLoops, BackoffOnSuccess
  <2> QED BY <2>1, PauseFacts DEF PauseInv
<1>6. CASE Wake
  <2>1. main = "sleep" /\ main' = "connect" /\ retries' = retries /\ backoff' = Doubled(backoff)
    BY <1>6 DEF Wake
  <2>2. PICK n \in Nat : n = retries - 1 /\ n + 1 = retries
    BY <1>1, <2>1 DEF PauseInv
  <2>3. backoff = Pause(n)
    BY <2>1, <2>2 DEF PauseInv
  <2>4. backoff' = Pause(retries')
    BY <2>1, <2>2, <2>3, PauseFacts
  <2> QED BY <2>1, <2>4 DEF PauseInv
<1>7. CASE ConnectOpens \/ Reply \/ ReadFails \/ WaitReturns
  BY <1>3, <1>7 DEF ConnectOpens, Reply, ReadFails, WaitReturns
<1>8. CASE \/ WorkerStep \/ LinkBreaks \/ UNCHANGED vars
           \/ \E s \in Shells : ShellStarts(s) \/ ShellOutput(s) \/ ShellExits(s)
           \/ \E p \in Senders : SendTimeout(p)
  <2>1. UNCHANGED patience /\ main' = main
    BY <1>8 DEF WorkerStep, WriterTakes, WriterWrites, WriterFails, WriterStops, HeartBeats,
                HeartStops, LinkBreaks, vars, patience, ShellStarts, ShellOutput, ShellExits,
                SendTimeout
  <2> QED BY <1>3, <2>1
<1> QED BY <1>4, <1>5, <1>6, <1>7, <1>8 DEF Next, RunStep

-----------------------------------------------------------------------------
\* The theorems

\* Every variable keeps its type; in particular the channel's buffer never
\* holds more than its capacity.
THEOREM LinkTypeCorrect == Spec => []TypeOK
<1>1. LinkInv => TypeOK
  BY DEF LinkInv
<1> QED BY <1>1, LinkInvariant, PTL

\* Run dials again only when both goroutines of the last connection are gone,
\* the heartbeat not even blocked in Send.
THEOREM NoStragglersCorrect == Spec => []NoStragglers
<1>1. LinkInv => NoStragglers
  BY DEF LinkInv, WorkersMatchRun, NoStragglers
<1> QED BY <1>1, LinkInvariant, PTL

\* A message sent for one connection is never in the channel, before it or at
\* the writer while a later one is up.
THEOREM LostMessagesCorrect == Spec => []LostMessagesStayLost
<1>1. LinkInv => LostMessagesStayLost
  BY DEF LinkInv, LinkMatchesRun, QueueMatchesRun, FreshQueue, FreshHand,
         LostMessagesStayLost
<1> QED BY <1>1, LinkInvariant, PTL

\* The n-th pause of a row of failed attempts is 2^(n-1) seconds, at most the
\* longest, although retries and backoff are counted in different places and
\* set back where a connection opens.
THEOREM PausesDouble == Spec => []PauseDoubles
<1>1. Init => PauseInv
  BY PauseFacts DEF Init, PauseInv
<1>2. PauseInv => PauseDoubles
  BY DEF PauseInv, Pause, PauseDoubles
<1> QED BY <1>1, <1>2, LinkTypeCorrect, PauseStep, PTL DEF Spec
=============================================================================
