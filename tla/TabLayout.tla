------------------------------ MODULE TabLayout ------------------------------
(***************************************************************************)
(* Which terminals of an agent are shown: the tabs, the active one and the *)
(* split view of packages/web/src/components/TerminalTabs.tsx.  The tab    *)
(* of a live session is closed in two steps, before and after the await of *)
(* its HMAC; everything else may happen in between.  React applies the     *)
(* updates of one event before the next.  Key pairs and the way sessions   *)
(* become known are in Terminals.                                          *)
(***************************************************************************)
EXTENDS Naturals, Sequences, FiniteSets, Functions, ArrayFilter

CONSTANTS
    Ids,            \* sessions
    None,           \* no tab, no split
    MaxClosing      \* bound of the model: closes waiting at once

VARIABLES
    tabs,           \* sessions: the ids in order
    active,         \* activeSessionId
    split,          \* the split view, or None
    focused,        \* focusedPane
    closing,        \* handleCloseTab waiting for the HMAC: the tab, and
                    \* whether it was active in the render it was called from
    known,          \* history: sessions that have had a tab
    late            \* history: pty.created came for one of those

vars == <<tabs, active, split, focused, closing, known, late>>

Pane == {"left", "right"}
Split == [right : SUBSET Ids, leftActive : Ids, rightActive : Ids]

TypeOK ==
    /\ tabs \in Seq(Ids) /\ IsInjective(tabs)
    /\ active \in Ids \union {None} /\ split \in Split \union {None} /\ focused \in Pane
    /\ closing \subseteq [sid : Ids, wasActive : BOOLEAN]
    /\ Range(tabs) \subseteq known /\ late \in BOOLEAN

HasTab(s) == s \in Range(tabs)

\* Mounted with the sessions the store has, or with none and one requested
Init ==
    /\ \E n \in 0..2 : tabs \in {q \in [1..n -> Ids] : IsInjective(q)}
    /\ active = IF tabs = <<>> THEN None ELSE tabs[1]
    /\ split = None /\ focused = "left"
    /\ closing = {} /\ known = Range(tabs) /\ late = FALSE

-----------------------------------------------------------------------------
BugLeftOnly(s) == [split EXCEPT !.rightActive = s]     \* not added to the right pane
InRightPane(s) == [split EXCEPT !.right = @ \union {s}, !.rightActive = s]

\* pty.created: a new tab goes to the focused pane
Created(s) ==
    /\ tabs' = IF HasTab(s) THEN tabs ELSE Append(tabs, s)
    /\ known' = known \union {s} /\ late' = (late \/ s \in known)
    /\ IF split = None
       THEN active' = (IF active = None THEN s ELSE active) /\ UNCHANGED split
       ELSE /\ split' = IF focused = "right" THEN InRightPane(s)
                        ELSE [split EXCEPT !.leftActive = s]
            /\ UNCHANGED active
    /\ UNCHANGED <<focused, closing>>

\* The effect on existingSessions: a list that has sessions without a tab, or
\* one whose first session may become the active one.  A list asked for
\* before a tab was closed still has it.
Listed(ss) ==
    /\ ss # <<>>
    /\ tabs' = tabs \o Only(ss, Ids \ Range(tabs))
    /\ active' = IF active = None THEN ss[1] ELSE active
    /\ known' = known \union Range(ss)
    /\ UNCHANGED <<split, focused, closing, late>>

\* The tail of handleCloseTab.  remaining is what the updater of setSessions
\* has left in it, which is nothing if React runs the updater only when it
\* renders, as it does while the component may have an update queued.
NextActive(was, sid, pane) == IF was = sid THEN pane[1] ELSE was

CloseWith(sid, wasActive, remaining) ==
    LET right == split.right \ {sid}
        l == Only(remaining, Ids \ right)
        r == Only(remaining, right)
        first == IF remaining = <<>> THEN None ELSE remaining[1]
    IN
    IF split # None
    THEN IF l = <<>> \/ r = <<>>
         THEN split' = None /\ active' = first
         ELSE /\ split' = [right |-> right,
                           leftActive |-> NextActive(split.leftActive, sid, l),
                           rightActive |-> NextActive(split.rightActive, sid, r)]
              /\ UNCHANGED active
    ELSE active' = (IF wasActive THEN first ELSE active) /\ UNCHANGED split

CloseEnds(sid, wasActive) ==
    /\ tabs' = Only(tabs, Ids \ {sid})
    /\ \E remaining \in {tabs', <<>>} : CloseWith(sid, wasActive, remaining)

\* An exited session, or one without the key for the HMAC
CloseNow(sid) ==
    /\ HasTab(sid)
    /\ CloseEnds(sid, active = sid)
    /\ UNCHANGED <<focused, closing, known, late>>

CloseBegins(sid) ==
    /\ HasTab(sid) /\ Cardinality(closing) < MaxClosing
    /\ closing' = closing \union {[sid |-> sid, wasActive |-> active = sid]}
    /\ UNCHANGED <<tabs, active, split, focused, known, late>>

CloseContinues(c) ==
    /\ closing' = closing \ {c}
    /\ CloseEnds(c.sid, c.wasActive)
    /\ UNCHANGED <<focused, known, late>>

LeftSessions == {s \in Range(tabs) : s \notin split.right}
RightSessions == {s \in Range(tabs) : s \in split.right}

\* A click on a tab
Activate(s) ==
    /\ IF split = None
       THEN HasTab(s) /\ active' = s /\ UNCHANGED <<split, focused>>
       ELSE /\ \/ s \in LeftSessions /\ focused' = "left" /\ split' = [split EXCEPT !.leftActive = s]
               \/ s \in RightSessions /\ focused' = "right" /\ split' = [split EXCEPT !.rightActive = s]
            /\ UNCHANGED active
    /\ UNCHANGED <<tabs, closing, known, late>>

\* A click on a pane, its + button or a terminal in it
Focus(pane) ==
    /\ split # None /\ focused # pane
    /\ focused' = pane
    /\ UNCHANGED <<tabs, active, split, closing, known, late>>

\* The first tab that is not the active one becomes the right pane
HandleSplit ==
    /\ IF split # None
       THEN /\ active' = IF focused = "left" THEN split.leftActive ELSE split.rightActive
            /\ split' = None
       ELSE /\ Len(tabs) >= 2 /\ active # None
            /\ LET r == Only(tabs, Ids \ {active})[1] IN
               split' = [right |-> {r}, leftActive |-> active, rightActive |-> r]
            /\ UNCHANGED active
    /\ UNCHANGED <<tabs, focused, closing, known, late>>

Next ==
    \/ \E s \in Ids : Created(s) \/ CloseNow(s) \/ CloseBegins(s) \/ Activate(s)
    \/ \E s, t \in Ids : Listed(<<s>>) \/ (s # t /\ Listed(<<s, t>>))
    \/ \E c \in closing : CloseContinues(c)
    \/ \E pane \in Pane : Focus(pane)
    \/ HandleSplit

Spec == Init /\ [][Next]_vars

-----------------------------------------------------------------------------
\* Properties

\* A split view has the right pane's terminal among the tabs of that pane and
\* the left pane's not among them, so that neither is shown twice or has its tab
\* in the other strip, whatever is created, closed and activated while closes
\* wait for their HMAC; only a late pty.created, which moves a tab to the
\* focused pane, can leave one on both sides.
PanesApart ==
    split # None =>
        /\ split.right \subseteq Range(tabs) /\ split.rightActive \in split.right
        /\ ~late => split.leftActive \notin split.right

-----------------------------------------------------------------------------
\* Inductive invariant: every session has one tab at most, and what is shown or
\* was has had one, so that pty.created for it is a late one.
LayoutInv ==
    /\ tabs \in Seq(known) /\ IsInjective(tabs) /\ known \subseteq Ids
    /\ active \in known \union {None}
    /\ split # None => split \in [right : SUBSET known, leftActive : known, rightActive : known]
    /\ PanesApart
=============================================================================
