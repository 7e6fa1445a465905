---------------------------- MODULE UploadOverlay ----------------------------
(***************************************************************************)
(* The image upload of one terminal as its user sees it (TerminalView.tsx  *)
(* and UploadOverlay.tsx): pasted and dropped images, the queue of sealed  *)
(* messages with the updates of the overlay between them, and the agent's  *)
(* answers (file_transfer.go), which E2ESession describes in full.  The    *)
(* chunks of a transfer are one message here.                              *)
(***************************************************************************)
EXTENDS Naturals, Sequences

CONSTANT MaxUploads     \* bound of the model: images read

VARIABLES
    upload,         \* uploadState, or None
    reading,        \* images whose bytes and hash are awaited
    begun,          \* transferIds given out: 1..begun
    sendQueue,
    up, down,       \* messages on their way to and from the agent
    pending,        \* the agent's pending transfer, or 0
    deaf,           \* the agent put a message aside and opens none after it
    saved, refused  \* history: transfers saved and refused by the agent

vars == <<upload, reading, begun, sendQueue, up, down, pending, deaf, saved, refused>>

None == [id |-> 0, status |-> "none", chunksSent |-> FALSE]
Statuses == {"none", "sending", "waiting", "complete", "error"}
Ids == 1..MaxUploads
Kinds == {"start", "chunk", "end", "mark", "lost", "refused", "complete"}
Messages == Seq([kind : Kinds, id : Ids])
Msg(kind, id) == [kind |-> kind, id |-> id]

TypeOK ==
    /\ upload \in [id : 0..MaxUploads, status : Statuses, chunksSent : BOOLEAN]
    /\ reading \in 0..MaxUploads /\ begun \in 0..MaxUploads /\ pending \in 0..begun
    /\ {sendQueue, up, down} \subseteq Messages
    /\ deaf \in BOOLEAN /\ saved \subseteq Ids /\ refused \subseteq Ids

Init ==
    /\ upload = None /\ reading = 0 /\ begun = 0
    /\ sendQueue = <<>> /\ up = <<>> /\ down = <<>>
    /\ pending = 0 /\ deaf = FALSE /\ saved = {} /\ refused = {}

agentVars == <<pending, deaf, saved, refused>>

-----------------------------------------------------------------------------
\* startImageTransfer up to its first await
TooLarge ==
    /\ upload' = [None EXCEPT !.status = "error"]
    /\ UNCHANGED reading
Begin ==
    /\ reading + begun < MaxUploads
    /\ reading' = reading + 1
    /\ UNCHANGED upload

\* A paste looks at the overlay, a drop does not
Paste == upload.status \in {"none", "error"} /\ (Begin \/ TooLarge)
Drop == Begin \/ TooLarge
Start == (Paste \/ Drop) /\ UNCHANGED <<begun, sendQueue, up, down, agentVars>>

\* The hash is known: the whole transfer is queued
Transfer(t) == <<Msg("start", t), Msg("chunk", t), Msg("end", t), Msg("mark", t)>>
ImageRead ==
    /\ reading > 0 /\ reading' = reading - 1
    /\ begun' = begun + 1
    /\ upload' = [id |-> begun', status |-> "sending", chunksSent |-> FALSE]
    /\ sendQueue' = sendQueue \o Transfer(begun')
    /\ UNCHANGED <<up, down, agentVars>>

\* setUploadState with prev?.transferId === transferId
BugAnyTransfer(t) == upload # None
Shown(t) == upload # None /\ upload.id = t
SetStatus(t, status) ==
    upload' = IF Shown(t) THEN [upload EXCEPT !.status = status] ELSE upload

SendNext ==
    /\ sendQueue # <<>> /\ sendQueue' = Tail(sendQueue)
    /\ LET next == Head(sendQueue) IN
         IF next.kind = "mark"
         THEN SetStatus(next.id, "waiting") /\ UNCHANGED up
         ELSE /\ \/ up' = Append(up, next)
                 \/ up' = Append(up, Msg("lost", next.id))    \* the socket is not open
              /\ upload' = IF next.kind = "chunk" /\ Shown(next.id)
                           THEN [upload EXCEPT !.chunksSent = TRUE] ELSE upload
    /\ UNCHANGED <<reading, begun, down, agentVars>>

-----------------------------------------------------------------------------
\* The agent: a message that follows one lost or put aside does not open
Gap(m) == m.kind = "lost" \/ (m.kind # "start" /\ pending # m.id)
AgentReceives ==
    /\ up # <<>> /\ up' = Tail(up)
    /\ LET m == Head(up)
           Refuse == /\ down' = Append(down, Msg("refused", m.id))
                     /\ refused' = refused \union {m.id} /\ UNCHANGED saved IN
         \/ /\ deaf \/ Gap(m) \/ m.kind = "chunk"    \* unreadable, unknown or too late
            /\ deaf' = TRUE /\ pending' = 0          \* from then on it does not matter
            /\ UNCHANGED <<down, saved, refused>>
         \/ /\ ~deaf /\ ~Gap(m) /\ m.kind = "start"
            /\ \/ pending = 0 /\ pending' = m.id /\ UNCHANGED <<down, saved, refused>>
               \/ Refuse /\ UNCHANGED pending
            /\ UNCHANGED deaf
         \/ /\ ~deaf /\ ~Gap(m) /\ m.kind = "chunk"
            /\ UNCHANGED <<down, saved, refused, pending, deaf>>
         \/ /\ ~deaf /\ ~Gap(m) /\ m.kind = "end" /\ pending' = 0
            /\ \/ /\ down' = Append(down, Msg("complete", m.id))
                  /\ saved' = saved \union {m.id} /\ UNCHANGED refused
               \/ Refuse
            /\ UNCHANGED deaf
    /\ UNCHANGED <<upload, reading, begun, sendQueue>>

\* The agent closes its connection: what is on its way is lost
Lost ==
    /\ up \o down # <<>> /\ up' = <<>> /\ down' = <<>> /\ deaf' = TRUE
    /\ UNCHANGED <<upload, reading, begun, sendQueue, pending, saved, refused>>

-----------------------------------------------------------------------------
\* The subscriptions to file.transfer.ack and file.transfer.complete
Answered ==
    /\ down # <<>> /\ down' = Tail(down)
    /\ LET m == Head(down) IN
         SetStatus(m.id, IF m.kind = "refused" THEN "error" ELSE "complete")
    /\ UNCHANGED <<reading, begun, sendQueue, up, agentVars>>

\* handleSendToTerminal, handleDismissUpload: the buttons of the overlay
Dismiss ==
    /\ upload.status \in {"complete", "error"}
    /\ upload' = None
    /\ UNCHANGED <<reading, begun, sendQueue, up, down, agentVars>>

Next == Start \/ ImageRead \/ SendNext \/ AgentReceives \/ Lost \/ Answered \/ Dismiss

Spec == Init /\ [][Next]_vars

-----------------------------------------------------------------------------
\* Whatever is pasted, dropped, refused or lost while another image is on its
\* way, the overlay speaks of the image it shows: a transfer shown as sending
\* will leave that state, one shown as waiting has been sent to the end, one
\* shown as complete was saved by the agent and one shown as failed was refused.
Queued(t) == \E i \in DOMAIN sendQueue : sendQueue[i].id = t
OverlayIsTrue ==
    CASE upload.status = "sending"  -> Queued(upload.id)
      [] upload.status = "waiting"  -> ~Queued(upload.id) /\ upload.chunksSent
      [] upload.status = "complete" -> upload.id \in saved
      [] upload.status = "error"    -> upload.id \in refused \union {0}
      [] OTHER -> TRUE
\* Inductive: the messages of all transfers are queued and sent in one order, so
\* that the queue holds those that are not sent yet; the overlay is where its own
\* transfer is in it.
SentCount == 4 * begun - Len(sendQueue)
PlaceOf(kind) == CASE kind = "start" -> 1 [] kind = "chunk" -> 2 [] kind = "end" -> 3 [] OTHER -> 4
QueueInOrder ==
    /\ sendQueue \in Seq([kind : {"start", "chunk", "end", "mark"}, id : Nat \ {0}])
    /\ Len(sendQueue) <= 4 * begun
    /\ \A i \in DOMAIN sendQueue :
         SentCount + i = 4 * (sendQueue[i].id - 1) + PlaceOf(sendQueue[i].kind)
AnswersAreTrue ==
    /\ up \in Seq([kind : Kinds, id : Nat \ {0}])
    /\ down \in Seq([kind : {"refused", "complete"}, id : Nat \ {0}])
    /\ \A i \in DOMAIN down :
         down[i].id \in IF down[i].kind = "complete" THEN saved ELSE refused
OverlayKeepsUp ==
    /\ upload \in [id : 0..begun, status : Statuses, chunksSent : BOOLEAN]
    /\ upload.status \in {"sending", "waiting", "complete"} => upload.id # 0
    /\ upload.id # 0 /\ SentCount >= 4 * upload.id - 2 => upload.chunksSent
    /\ upload.status = "sending" => SentCount < 4 * upload.id
    /\ upload.status = "waiting" => SentCount >= 4 * upload.id
    /\ upload.status = "complete" => upload.id \in saved
    /\ upload.status = "error" => upload.id \in refused \union {0}
UploadInv == begun \in Nat /\ QueueInOrder /\ AnswersAreTrue /\ OverlayKeepsUp
\* So is this, for the types: what is queued, under way or answered was begun.
OnlyBegun ==
    /\ reading + begun <= MaxUploads
    /\ {sendQueue, up, down} \subseteq Seq([kind : Kinds, id : 1..begun])
    /\ saved \union refused \subseteq 1..begun
=============================================================================
