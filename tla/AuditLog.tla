------------------------------- MODULE AuditLog -------------------------------
(***************************************************************************)
(* The audit log and the page that browses it: queryAuditLogs              *)
(* (packages/relay/src/db.ts), GET /api/audit (index.ts) and               *)
(* packages/web/src/components/AuditLogPage.tsx.  The log grows while it   *)
(* is read and the answers of calls arrive in any order.  A row is what    *)
(* its user is and its id its position.  The filter that only admins have  *)
(* stands for all of them.                                                 *)
(***************************************************************************)
EXTENDS Naturals, Sequences, FiniteSets, FiniteSetsExt, SequencesExt

CONSTANTS
    Me, Other,      \* users: the one whose page it is, another
    All,            \* no filter, no cursor, no call
    PageSize,
    MaxLogs,        \* bound of the model: rows of the log
    MaxCalls,       \* bound of the model: calls under way
    MaxDepth        \* bound of the model: length of the cursor stack

VARIABLES
    log,            \* table audit_log
    isAdmin,        \* whether Me is an admin
    \* the page
    filters,
    loading,
    logs,           \* the rows shown, by id
    hasMore,
    total,
    cursorStack,
    calls,          \* calls under way, the answers of those that are served
    shown           \* history: what the call asked whose rows are shown

page == <<filters, loading, logs, hasMore, total, cursorStack, shown>>
vars == <<log, isAdmin, page, calls>>

Users == {Me, Other}
Ids == 1..MaxLogs
Filter == {Me, All}
Answer == [logs : Seq(Ids), hasMore : BOOLEAN, total : 0..MaxLogs]
\* Calls that ask the same are numbered: their answers may differ.
Call == [number : 1..MaxCalls, filter : Filter, before : Ids \union {All},
         after : Ids \union {All}, answer : Answer \union {All}]
Asked == [filter : Filter, before : Ids \union {All}, after : Ids \union {All}]
Asks(c) == [filter |-> c.filter, before |-> c.before, after |-> c.after]

TypeOK ==
    /\ log \in Seq(Users) /\ isAdmin \in BOOLEAN
    /\ filters \in Filter
    /\ {loading, hasMore} \subseteq BOOLEAN /\ logs \in Seq(Ids) /\ total \in 0..MaxLogs
    /\ cursorStack \in Seq(Ids)
    /\ \A c \in calls : c \in Call
    /\ shown = All \/ shown \in Asked

-----------------------------------------------------------------------------
\* The relay

Matching(f) == {i \in DOMAIN log : f \in {All, log[i]}}

NewestFirst(ids) ==
    [n \in 1..Cardinality(ids) |-> CHOOSE i \in ids : Cardinality({j \in ids : j > i}) = n - 1]
MoreThan(ids, limit) == Cardinality(ids) > limit

Reversed(ids) == NewestFirst(ids)

QueryAuditLogs(f, before, after) ==
    LET match == Matching(f)
        rows == IF before # All THEN {i \in match : i < before}
                ELSE IF after # All THEN {i \in match : i > after} ELSE match
        ends == NewestFirst(rows)
        n == IF Cardinality(rows) < PageSize THEN Cardinality(rows) ELSE PageSize
    IN [logs |-> IF before = All /\ after # All
                 THEN Reversed(ToSet(SubSeq(ends, Len(ends) - n + 1, Len(ends))))
                 ELSE SubSeq(ends, 1, n),
        hasMore |-> MoreThan(rows, PageSize),
        total |-> IF before = All /\ after = All THEN Cardinality(match) ELSE 0]

BugTrustPage(c) == c.filter
UserOf(c) == IF isAdmin THEN c.filter ELSE Me

GetAudit(c) ==
    /\ c.answer = All
    /\ calls' = (calls \ {c}) \union
         {[c EXCEPT !.answer = QueryAuditLogs(UserOf(c), c.before, c.after)]}
    /\ UNCHANGED <<log, isAdmin, page>>

AuditRow(user) ==
    /\ Len(log) < MaxLogs
    /\ log' = Append(log, user)
    /\ UNCHANGED <<isAdmin, page, calls>>

-----------------------------------------------------------------------------
\* The page

FetchLogs(f, before, after) ==
    LET filter == IF isAdmin THEN f ELSE All
        alike == {c.number : c \in {d \in calls : <<d.filter, d.before, d.after>> =
                                                <<filter, before, after>>}}
    IN /\ Cardinality(calls) < MaxCalls
       /\ \E n \in 1..MaxCalls \ alike :
            /\ 1..(n - 1) \subseteq alike
            /\ calls' = calls \union {[number |-> n, filter |-> filter, before |-> before,
                                        after |-> after, answer |-> All]}
       /\ loading' = TRUE

\* The page is opened on a log that has at least a login; the bound leaves room for
\* one row more
Init ==
    /\ log \in [1..(MaxLogs - 1) -> Users]
    /\ isAdmin \in BOOLEAN
    /\ filters = All /\ loading = TRUE /\ logs = <<>> /\ hasMore = FALSE /\ total = 0
    /\ cursorStack = <<>> /\ shown = All
    /\ calls = {[number |-> 1, filter |-> All, before |-> All, after |-> All, answer |-> All]}

Answered(c) ==
    /\ c.answer # All
    /\ calls' = calls \ {c} /\ loading' = FALSE
    /\ logs' = c.answer.logs /\ hasMore' = c.answer.hasMore
    /\ total' = IF c.before = All /\ c.after = All THEN c.answer.total ELSE total
    /\ shown' = Asks(c)
    /\ UNCHANGED <<log, isAdmin, filters, cursorStack>>

\* The rows stay, and so does the cursor stack
CallFails(c) ==
    /\ calls' = calls \ {c} /\ loading' = FALSE
    /\ UNCHANGED <<log, isAdmin, filters, logs, hasMore, total, cursorStack, shown>>

\* The effect on fetchLogs.  A text filter is set 300 ms after it was typed.
SetFilters(f) ==
    /\ filters' = f /\ cursorStack' = <<>>
    /\ FetchLogs(f, All, All)
    /\ UNCHANGED <<log, isAdmin, logs, hasMore, total, shown>>

\* Disabled while loading, which any answer ends, also with other calls under way
Refresh ==
    /\ ~loading
    /\ FetchLogs(filters, All, All)
    /\ UNCHANGED <<log, isAdmin, filters, logs, hasMore, total, cursorStack, shown>>

HandleNextPage ==
    /\ logs # <<>> /\ hasMore /\ Len(cursorStack) < MaxDepth
    /\ cursorStack' = Append(cursorStack, logs[1])
    /\ FetchLogs(filters, Last(logs), All)
    /\ UNCHANGED <<log, isAdmin, filters, logs, hasMore, total, shown>>

HandlePrevPage ==
    /\ cursorStack # <<>>
    /\ cursorStack' = Front(cursorStack)
    /\ FetchLogs(filters, All, IF Len(cursorStack) = 1 THEN All ELSE Last(cursorStack))
    /\ UNCHANGED <<log, isAdmin, filters, logs, hasMore, total, shown>>

Next ==
    \/ \E user \in Users : AuditRow(user)
    \/ \E c \in calls : GetAudit(c) \/ Answered(c) \/ CallFails(c)
    \/ \E f \in Filter : SetFilters(f)
    \/ Refresh \/ HandleNextPage \/ HandlePrevPage

Spec == Init /\ [][Next]_vars

-----------------------------------------------------------------------------
\* Properties

\* Whatever page is asked for and however the log grows meanwhile, the rows
\* shown are consecutive among those the filters of their call match, newest
\* first; a user who is not an admin sees only rows of their own.  "Next" is
\* offered as long as there are older rows.  (After "Prev" to a page that is not
\* the first it is not: hasMore tells of newer rows then.)
Visible(f) == Matching(IF isAdmin THEN f ELSE Me)
Descending(q) == \A i, j \in DOMAIN q : i < j => q[i] > q[j]
IsPage(ids, rows, oldest) ==
    rows # <<>> =>
        /\ Len(rows) <= PageSize /\ Descending(rows)
        /\ ToSet(rows) = {i \in ids : Last(rows) <= i /\ i <= rows[1]}
        /\ oldest => \A i \in ids : Last(rows) <= i
Consecutive(c, rows, more) == IsPage(Visible(c.filter), rows, c.after = All /\ ~more)
ShownRowsAreConsecutive == Consecutive(shown, logs, hasMore)

-----------------------------------------------------------------------------
\* Inductive: so are the rows of every answer under way, and cursors are ids.
LogInv ==
    /\ log \in Seq(Users) /\ cursorStack \in Seq(Nat) /\ filters \in Filter
    /\ logs \in Seq(Nat) /\ Consecutive(shown, logs, hasMore)
    /\ \A c \in calls :
         /\ c \in [number : Nat, filter : Filter, before : Nat \union {All},
                   after : Nat \union {All}, answer : {c.answer}]
         /\ c.answer # All =>
              c.answer.logs \in Seq(Nat) /\ Consecutive(c, c.answer.logs, c.answer.hasMore)

\* For the types: the rows of the log are within its bound.
LogBounded == TypeOK /\ Len(log) <= MaxLogs
=============================================================================
