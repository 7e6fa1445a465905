---------------------------- MODULE CommandPalette ----------------------------
(***************************************************************************)
(* The command palette (packages/web/src/components/CommandPalette.tsx):   *)
(* machines and pages, filtered by a query in the order of their scores,   *)
(* shown in groups, with one selected by number.  The list also changes    *)
(* under it, as machines come and go.  Rows and effects are those of the   *)
(* last render, to which the keys are bound.                               *)
(***************************************************************************)
EXTENDS Integers, Sequences, SequencesExt, FiniteSets, ArrayFilter

CONSTANTS Machines, Pages       \* what can be jumped to

VARIABLES
    agents,         \* the machines of the store, each online or not
    open,
    matches,        \* the query: the items it matches with their scores, or NoQuery
    selectedIndex,
    settled         \* the effects of the last render have run

vars == <<agents, open, matches, selectedIndex, settled>>

Items == Machines \union Pages
NoQuery == [i \in Items |-> 3]          \* every item, all alike
Queries == [Items -> 0..2]

TypeOK ==
    /\ DOMAIN agents \subseteq Machines /\ \A a \in DOMAIN agents : agents[a] \in BOOLEAN
    /\ {open, settled} \subseteq BOOLEAN
    /\ matches \in Queries \union {NoQuery} /\ selectedIndex \in -1..(Cardinality(Items) - 1)

Init ==
    /\ agents = [a \in {} |-> TRUE] /\ open = FALSE /\ matches = NoQuery
    /\ selectedIndex = 0 /\ settled = TRUE

\* items: the machines, then the pages
AllItems == SetToSeq(DOMAIN agents) \o SetToSeq(Pages)

filtered ==
    LET Of(score) == Only(AllItems, {i \in Items : matches[i] = score})
    IN Of(3) \o Of(2) \o Of(1)

\* The rows, group by group: the groups in the order of their first items
rows ==
    LET first == IF filtered # <<>> /\ Head(filtered) \in Machines THEN Machines ELSE Pages
    IN Only(filtered, first) \o Only(filtered, Items \ first)

Highlighted == IF selectedIndex + 1 \in DOMAIN rows THEN rows[selectedIndex + 1] ELSE "none"

-----------------------------------------------------------------------------
\* Another render; its effects come before the next key
Rendered == settled' = FALSE

AgentsChange ==
    /\ \E S \in SUBSET Machines : agents' \in [S -> BOOLEAN]
    /\ agents' # agents
    /\ Rendered /\ UNCHANGED <<open, matches, selectedIndex>>

Toggle ==
    /\ open' = ~open
    /\ IF open' THEN matches' = NoQuery /\ selectedIndex' = 0
                ELSE UNCHANGED <<matches, selectedIndex>>
    /\ Rendered /\ UNCHANGED <<agents>>

Type ==
    /\ open /\ settled
    /\ matches' \in Queries \union {NoQuery} /\ selectedIndex' = 0
    /\ Rendered /\ UNCHANGED <<agents, open>>

BugNoClamp == selectedIndex
Clamped ==
    IF selectedIndex < Len(filtered) THEN selectedIndex
    ELSE IF filtered = <<>> THEN 0 ELSE Len(filtered) - 1
Effects ==
    /\ ~settled /\ settled' = TRUE
    /\ selectedIndex' = Clamped
    /\ UNCHANGED <<agents, open, matches>>

Least(a, b) == IF a < b THEN a ELSE b
ArrowDown == selectedIndex' = Least(Len(filtered) - 1, selectedIndex + 1)
ArrowUp == selectedIndex' = IF selectedIndex > 0 THEN selectedIndex - 1 ELSE 0
MouseEnter == \E i \in DOMAIN rows : selectedIndex' = i - 1
Move ==
    /\ open /\ settled
    /\ ArrowDown \/ ArrowUp \/ MouseEnter
    /\ Rendered /\ UNCHANGED <<agents, open, matches>>

\* What an item runs: a machine that is offline is not opened, nor does the
\* palette close
Run(item) ==
    /\ item \in DOMAIN agents => agents[item]
    /\ open' = FALSE
    /\ Rendered /\ UNCHANGED <<agents, matches, selectedIndex>>

Enter ==
    /\ open /\ settled /\ selectedIndex + 1 \in DOMAIN filtered
    /\ Run(filtered[selectedIndex + 1])
Click == open /\ \E i \in DOMAIN rows : Run(rows[i])

Next == AgentsChange \/ Toggle \/ Type \/ Effects \/ Move \/ Enter \/ Click

Spec == Init /\ [][Next]_vars

-----------------------------------------------------------------------------
\* Whatever comes and goes while the palette is open, once its effects have run
\* Enter runs the row that is highlighted, and there is one unless the list was
\* empty: as long as no item of one group scores between two of the other.
Ahead(G, H) == \A i \in G, j \in H : matches[i] * matches[j] > 0 => matches[i] >= matches[j] + 1
GroupsApart == matches = NoQuery \/ Ahead(Machines, Pages) \/ Ahead(Pages, Machines)
EnterRunsHighlighted ==
    open /\ settled /\ GroupsApart /\ filtered # <<>> /\ selectedIndex >= 0 =>
        selectedIndex < Len(filtered) /\ Highlighted = filtered[selectedIndex + 1]
\* Inductive: the effects have clamped the selection before the next key.
PaletteInv ==
    /\ DOMAIN agents \subseteq Machines /\ matches \in Queries \union {NoQuery}
    /\ selectedIndex \in Int
    /\ settled /\ filtered # <<>> => selectedIndex < Len(filtered)
=============================================================================
