----------------------------- MODULE Preferences -----------------------------
(***************************************************************************)
(* The user's preferences: the state of useThemeProvider                   *)
(* (packages/web/src/hooks/useTheme.ts), set from the login's answer and   *)
(* by the settings page (SettingsPage.tsx), and the record at the relay    *)
(* (PUT /api/preferences), to which every choice sends all of them.  A     *)
(* field is told apart by two values, 0 its default.                     *)
(***************************************************************************)
EXTENDS Naturals, Sequences, FiniteSets

CONSTANT MaxPuts        \* bound of the model: choices made

VARIABLES
    prefs,          \* the state, what the user sees
    offered,        \* the login's answer, initialPreferences, has been taken over
    stored,         \* the record at the relay: the fields ever set
    puts,           \* requests on their way, by number
    made,           \* requests made
    handled,        \* history: the number of the last one the relay handled
    resetFonts,     \* history: the font was reset since the last other choice
    seen            \* history: what the user saw right after the last choice

vars == <<prefs, offered, stored, puts, made, handled, resetFonts, seen>>

\* uiTheme and terminalTheme are alike, and so are pasteImageTypes and pasteImageMaxSizeMB
Fields == {"terminalTheme", "fontSize", "fontFamily", "pasteImageTypes"}
Values == 0..1
Prefs == [Fields -> Values]

TypeOK ==
    /\ prefs \in Prefs /\ offered \in BOOLEAN
    /\ DOMAIN stored \subseteq Fields /\ \A f \in DOMAIN stored : stored[f] \in Values
    /\ made \in 0..MaxPuts /\ handled \in 0..made
    /\ DOMAIN puts \subseteq 1..made /\ \A n \in DOMAIN puts : puts[n] \in Prefs
    /\ resetFonts \in BOOLEAN /\ seen \in Prefs

Default == [f \in Fields |-> 0]
Init ==
    /\ prefs = Default /\ offered = FALSE
    /\ \E v \in Values, F \in SUBSET {"terminalTheme", "fontSize"} : stored = [f \in F |-> v]
    /\ puts = <<>> /\ made = 0 /\ handled = 0 /\ resetFonts = FALSE /\ seen = prefs

-----------------------------------------------------------------------------
\* The effect that takes over what the login's answer holds
Offer ==
    /\ ~offered
    /\ prefs' = [f \in Fields |-> IF f \in DOMAIN stored THEN stored[f] ELSE prefs[f]]
    /\ offered' = TRUE
    /\ UNCHANGED <<stored, puts, made, handled, resetFonts, seen>>

BugOnlyChoice(f, v) == [Default EXCEPT ![f] = v]      \* allPrefs of the first render
AllPrefs(f, v) == [prefs EXCEPT ![f] = v]

Put(ps) ==
    /\ made + Len(ps) <= MaxPuts
    /\ made' = made + Len(ps)
    /\ puts' = [n \in DOMAIN puts \union (made + 1)..made' |->
                  IF n > made THEN ps[n - made] ELSE puts[n]]

\* setTerminalThemeName and the like
Choose(f, v) ==
    /\ Put(<<AllPrefs(f, v)>>)
    /\ prefs' = [prefs EXCEPT ![f] = v]
    /\ resetFonts' = FALSE /\ seen' = prefs'
    /\ UNCHANGED <<offered, stored, handled>>

\* resetFont: the second request holds the size before the reset
ResetFont ==
    /\ prefs["fontSize"] # 0 \/ prefs["fontFamily"] # 0
    /\ Put(<<AllPrefs("fontSize", 0), AllPrefs("fontFamily", 0)>>)
    /\ prefs' = [prefs EXCEPT !["fontSize"] = 0, !["fontFamily"] = 0]
    /\ resetFonts' = TRUE /\ seen' = prefs'
    /\ UNCHANGED <<offered, stored, handled>>

\* The relay keeps what it knows of, over what it had
Kept == Fields \ {"pasteImageTypes"}
Handle(n) ==
    /\ stored' = [f \in Kept \union DOMAIN stored |-> IF f \in Kept THEN puts[n][f] ELSE stored[f]]
    /\ puts' = [m \in DOMAIN puts \ {n} |-> puts[m]]
    /\ handled' = n
    /\ UNCHANGED <<prefs, offered, made, resetFonts, seen>>

\* savePreferences does not look at the answer, nor at whether there is one
PutLost(n) ==
    /\ puts' = [m \in DOMAIN puts \ {n} |-> puts[m]]
    /\ UNCHANGED <<prefs, offered, stored, made, handled, resetFonts, seen>>

\* The app is loaded anew, or the user logs out and in, which leaves the state; the
\* app is shown before the login's answer comes
Login ==
    /\ offered /\ offered' = FALSE
    /\ prefs' \in {Default, prefs}
    /\ UNCHANGED <<stored, puts, made, handled, resetFonts, seen>>

Next ==
    \/ Offer \/ ResetFont \/ Login
    \/ \E f \in Fields, v \in Values : Choose(f, v)
    \/ \E n \in DOMAIN puts : Handle(n) \/ PutLost(n)

Spec == Init /\ [][Next]_vars

-----------------------------------------------------------------------------
\* If the request of the last choice was handled after those of the choices before
\* it, the relay holds what the user saw after that choice, the themes and the font
\* that were chosen earlier included, whichever earlier requests were lost or
\* overtook each other and whenever the login was answered; unless the font was
\* reset last.
ChoicesAreKept ==
    made > 0 /\ handled = made /\ ~resetFonts =>
        \A f \in Kept : f \in DOMAIN stored /\ stored[f] = seen[f]
\* Inductive: the last choice's request holds what the user saw, until the relay
\* has it; earlier ones have other numbers.
LastPutIsSeen ==
    made \in DOMAIN puts /\ ~resetFonts => \A f \in Kept : puts[made][f] = seen[f]
PreferencesInv ==
    /\ made \in Nat /\ handled \in 0..made /\ DOMAIN puts \subseteq 1..made
    /\ LastPutIsSeen /\ ChoicesAreKept
=============================================================================
