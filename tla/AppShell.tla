------------------------------- MODULE AppShell -------------------------------
(***************************************************************************)
(* What fills the window of the app (MainApp of packages/web/src/App.tsx): *)
(* a page, a notice or the terminals of the selected machine, whose panels *)
(* stay mounted while they are hidden.  Which panels there are is kept in  *)
(* a ref that an effect updates after the render that needed it.  The      *)
(* selection is useAgentStore's.                                           *)
(***************************************************************************)
EXTENDS Naturals, FiniteSets

CONSTANTS
    Agents,
    None            \* no machine selected

VARIABLES
    agents,         \* the store's list: machine -> online
    connected,      \* of the WebSocket
    view,
    selectedAgentId,
    mountedAgentIds,    \* mountedAgentIdsRef
    panels          \* the TerminalTabs of the last render

vars == <<agents, connected, view, selectedAgentId, mountedAgentIds, panels>>

\* The pages are alike here; the role decides which can be reached
Views == {"page", "terminal"}
Lists == UNION {[S -> BOOLEAN] : S \in SUBSET Agents}

TypeOK ==
    /\ agents \in Lists /\ connected \in BOOLEAN /\ view \in Views
    /\ selectedAgentId \in Agents \union {None}
    /\ mountedAgentIds \subseteq Agents /\ panels \subseteq Agents

Init ==
    /\ agents = [a \in {} |-> TRUE] /\ connected = FALSE /\ view = "page"
    /\ selectedAgentId = None /\ mountedAgentIds = {} /\ panels = {}

Online(list) == {a \in DOMAIN list : list[a]}

\* A render with a list and a selection, and the effects after it: the panels are
\* those of the ref before, and a machine selected by the effect renders again
Mounted(list) == (mountedAgentIds \intersect DOMAIN list) \union Online(list)
Render(list, selected) ==
    /\ agents' = list
    /\ mountedAgentIds' = Mounted(list)
    /\ IF selected = None /\ Online(list) # {}
       THEN selectedAgentId' \in Online(list) /\ panels' = mountedAgentIds'
       ELSE selectedAgentId' = selected /\ panels' = mountedAgentIds \intersect DOMAIN list

-----------------------------------------------------------------------------
\* A fetch is answered, or a machine is told online
ListChanges ==
    /\ \E list \in Lists : list # agents /\ Render(list, selectedAgentId)
    /\ UNCHANGED <<connected, view>>

SocketChanges ==
    /\ connected' = ~connected
    /\ Render(agents, selectedAgentId)
    /\ UNCHANGED view

\* Sidebar, palette, dashboard
Navigate ==
    /\ view' \in Views \ {"terminal"}
    /\ Render(agents, selectedAgentId)
    /\ UNCHANGED connected

\* handleOpenAgent: the sidebar offers machines that are offline too
OpenAgent(a) ==
    /\ a \in DOMAIN agents
    /\ view' = "terminal"
    /\ Render(agents, a)
    /\ UNCHANGED connected

\* deleteAgent, from the notice that the selected machine is offline: another is
\* selected, an online one if there is; the list follows by a fetch
Notice ==
    IF view # "terminal" THEN {"page"}
    ELSE IF ~connected THEN {"connecting"}
    ELSE IF DOMAIN agents = {} THEN {"no agents registered"}
    ELSE IF selectedAgentId \notin DOMAIN agents THEN {"waiting for agent"}
    ELSE IF ~agents[selectedAgentId] THEN {"offline"} ELSE {}
DeleteAgent ==
    /\ Notice = {"offline"}
    /\ LET remaining == DOMAIN agents \ {selectedAgentId}
           next == IF Online(agents) # {} THEN Online(agents)
                   ELSE IF remaining # {} THEN remaining ELSE {None} IN
         \E n \in next : Render(agents, n)
    /\ UNCHANGED <<connected, view>>

Next ==
    \/ ListChanges \/ SocketChanges \/ Navigate \/ DeleteAgent
    \/ \E a \in Agents : OpenAgent(a)

Spec == Init /\ [][Next]_vars

-----------------------------------------------------------------------------
BugNoGate(a) ==                             \* not hidden while the socket is down
    view = "terminal" /\ a = selectedAgentId /\ agents[a]
Displayed(a) ==
    connected /\ view = "terminal" /\ a = selectedAgentId /\ agents[a]

\* Pages, notices and terminals share the window by display toggles of their own,
\* yet one of them fills it: never two, and never none unless a machine has just
\* come online for the first time and nothing was rendered since.
Filling == Notice \union {a \in panels : Displayed(a)}
OneContentShown ==
    /\ Cardinality(Filling) <= 1
    /\ panels = mountedAgentIds => Filling # {}
\* Inductive: panels are of machines in the list, and what is online is mounted by
\* the next render at the latest.
AppShellInv ==
    /\ panels \subseteq DOMAIN agents /\ mountedAgentIds \subseteq DOMAIN agents
    /\ Online(agents) \subseteq mountedAgentIds
    /\ \A a \in DOMAIN agents : agents[a] \in BOOLEAN
=============================================================================
