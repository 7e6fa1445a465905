------------------------------ MODULE Accounts ------------------------------
(***************************************************************************)
(* Accounts, cookies and the pages that use them: the setup, login, me,    *)
(* logout and users calls of the relay (packages/relay/src/index.ts,       *)
(* auth.ts, db.ts) and the browser tabs that make them (packages/web/src:  *)
(* App.tsx, SetupPage, LoginPage, UserManagementPage).  A call carries the *)
(* cookie of the moment it is sent; the relay serves it in one event and   *)
(* the answer arrives later, in any order with others.                     *)
(***************************************************************************)
EXTENDS Naturals, FiniteSets, Functions

CONSTANTS
    Names,          \* usernames
    Tabs,           \* browsers, each with its cookies and one tab of the app
    Nobody,         \* the value of what is not there
    MaxAccounts,    \* bound of the model: accounts ever created
    MaxVersion,     \* bound of the model: a token_version
    MaxCalls        \* bound of the model: calls of a tab under way

VARIABLES
    users,          \* table users: username -> row
    created,        \* ids handed out by AUTOINCREMENT
    setups,         \* history: setups that were accepted
    jar,            \* per tab: the cookie rttys-session, or Nobody
    app,            \* per tab: the state of App
    calls           \* calls under way

vars == <<users, created, setups, jar, app, calls>>

Roles == {"admin", "user"}
User == [id : 1..MaxAccounts, role : Roles, token_version : 0..MaxVersion]

\* The payload of the JWT.  id is history: the account it was issued to.
Cookie == [name : Names, role : Roles, tv : 0..MaxVersion, id : 1..MaxAccounts]

Ops == {"status", "boot", "me", "setup", "login", "logout",
        "create", "delete", "password"}
\* An answer may set the cookie, to Nobody when it clears it
Served == [ok : BOOLEAN, set : BOOLEAN, cookie : Cookie \union {Nobody},
           user : [name : Names, role : Roles] \union {Nobody}]
Call == [tab : Tabs, op : Ops, name : Names \union {Nobody},
         cookie : Cookie \union {Nobody}, answer : Served \union {Nobody}]
App == [authState : {"loading", "authenticated", "unauthenticated"},
        needsSetup : BOOLEAN,
        userInfo : [name : Names, role : Roles] \union {Nobody}]

TypeOK ==
    /\ DOMAIN users \subseteq Names /\ users \in [DOMAIN users -> User]
    /\ created \in 0..MaxAccounts /\ setups \in Nat
    /\ jar \in [Tabs -> Cookie \union {Nobody}]
    /\ app \in [Tabs -> App]
    /\ calls \subseteq Call

NoRows == [n \in {} |-> n]

\* A relay that is new, or whose users became admins when roles were added
Init ==
    /\ \/ users = NoRows /\ created = 0
       \/ /\ created = Cardinality(Names)
          /\ \E ids \in Bijection(Names, 1..created) :
               users = [n \in Names |-> [id |-> ids[n], role |-> "admin", token_version |-> 0]]
    /\ setups = 0
    /\ jar = [t \in Tabs |-> Nobody]
    /\ app = [t \in Tabs |-> [authState |-> "unauthenticated", needsSetup |-> FALSE,
                              userInfo |-> Nobody]]
    /\ calls = {}

-----------------------------------------------------------------------------
\* The relay

Unserved(op) == {c \in calls : c.op = op /\ c.answer = Nobody}

AnswerWith(c, a) == calls' = (calls \ {c}) \union {[c EXCEPT !.answer = a]}
Plain(ok) == [ok |-> ok, set |-> FALSE, cookie |-> Nobody, user |-> Nobody]
No(c)  == AnswerWith(c, Plain(FALSE))
Yes(c) == AnswerWith(c, Plain(TRUE))
SetAuthCookies(c, k) == AnswerWith(c, [Plain(TRUE) EXCEPT !.set = TRUE, !.cookie = k])
ClearAuthCookies(c, ok) == AnswerWith(c, [Plain(ok) EXCEPT !.set = TRUE])

HasUsers == DOMAIN users # {}

\* verifyJWT: the row of the name in the cookie, if there is one and its
\* token_version is the cookie's
Verified(k) ==
    /\ k # Nobody
    /\ k.name \in DOMAIN users
    /\ k.tv = users[k.name].token_version

BugRoleInToken(k) == k.role                 \* the role is read from the JWT
RoleOf(k) == users[k.name].role

\* requireAuth, requireAdmin, and requireCSRF: the two cookies come and go together
ByAdmin(c) == Verified(c.cookie) /\ RoleOf(c.cookie) = "admin"

GenerateJWT(n, row) == [name |-> n, role |-> row.role, tv |-> row.token_version,
                        id |-> row.id]

BugNoRole(role) == [id |-> created + 1, role |-> Nobody, token_version |-> 0]
                                            \* INSERT leaves the column NULL
NewRow(role) == [id |-> created + 1, role |-> role, token_version |-> 0]
CreateUser(n, role) ==
    /\ created < MaxAccounts
    /\ created' = created + 1
    /\ users' = [x \in DOMAIN users \union {n} |->
                   IF x = n THEN NewRow(role) ELSE users[x]]

SetupStatus(c) ==
    /\ c \in Unserved("status")
    /\ IF HasUsers THEN No(c) ELSE Yes(c)
    /\ UNCHANGED <<users, created, setups, jar, app>>

MaySetup == ~HasUsers

SetupInit(c) ==
    /\ c \in Unserved("setup")
    /\ \/ /\ MaySetup
          /\ CreateUser(c.name, "admin")
          /\ setups' = setups + 1
          /\ SetAuthCookies(c, GenerateJWT(c.name, NewRow("admin")))
       \/ /\ ~MaySetup
          /\ No(c)
          /\ UNCHANGED <<users, created, setups>>
    /\ UNCHANGED <<jar, app>>

\* The password is right or not; both are tried
Login(c) ==
    /\ c \in Unserved("login")
    /\ c.name \in DOMAIN users
    /\ SetAuthCookies(c, GenerateJWT(c.name, users[c.name]))
    /\ UNCHANGED <<users, created, setups, jar, app>>

\* GET /api/auth/me.  A cookie that is not accepted is cleared.
Me(c) ==
    /\ c \in Unserved("me") \union Unserved("boot")
    /\ IF Verified(c.cookie)
       THEN AnswerWith(c, [Plain(TRUE) EXCEPT
                             !.user = [name |-> c.cookie.name, role |-> RoleOf(c.cookie)]])
       ELSE IF c.cookie = Nobody THEN No(c) ELSE ClearAuthCookies(c, FALSE)
    /\ UNCHANGED <<users, created, setups, jar, app>>

Logout(c) ==
    /\ c \in Unserved("logout")
    /\ ClearAuthCookies(c, TRUE)
    /\ UNCHANGED <<users, created, setups, jar, app>>

\* username TEXT UNIQUE
UserCreate(c) ==
    /\ c \in Unserved("create")
    /\ ByAdmin(c) /\ c.name \notin DOMAIN users
    /\ CreateUser(c.name, "user")
    /\ Yes(c)
    /\ UNCHANGED <<setups, jar, app>>

BugDeleteAnyone(c) == TRUE                  \* without the test of oneself
MayDelete(c) == c.name # c.cookie.name

\* What it does to tokens, agents and sockets is in AgentHub and Router
UserDelete(c) ==
    /\ c \in Unserved("delete")
    /\ ByAdmin(c) /\ MayDelete(c) /\ c.name \in DOMAIN users
    /\ users' = Restrict(users, DOMAIN users \ {c.name})
    /\ Yes(c)
    /\ UNCHANGED <<created, setups, jar, app>>

UserPassword(c) ==
    /\ c \in Unserved("password")
    /\ ByAdmin(c) /\ c.name \in DOMAIN users
    /\ users[c.name].token_version < MaxVersion
    /\ users' = [users EXCEPT ![c.name].token_version = @ + 1]
    /\ Yes(c)
    /\ UNCHANGED <<created, setups, jar, app>>

\* A wrong password, a rate limit, a cookie or a name that is not accepted
Refuse(c) ==
    /\ c.answer = Nobody /\ c.op \notin {"status", "boot", "me", "logout"}
    /\ No(c)
    /\ UNCHANGED <<users, created, setups, jar, app>>

-----------------------------------------------------------------------------
\* The tab

Mine(t) == {c \in calls : c.tab = t}
Request(t, op, n) == [tab |-> t, op |-> op, name |-> n, cookie |-> jar[t], answer |-> Nobody]

Send(t, op, n) ==
    /\ Request(t, op, n) \notin calls
    /\ Cardinality(Mine(t)) < MaxCalls
    /\ calls' = calls \union {Request(t, op, n)}

\* The page is loaded: what was under way is abandoned, App asks status and me
Load(t) ==
    /\ app' = [app EXCEPT ![t] = [authState |-> "loading", needsSetup |-> FALSE,
                                  userInfo |-> Nobody]]
    /\ calls' = (calls \ Mine(t)) \union {Request(t, "status", Nobody), Request(t, "boot", Nobody)}
    /\ UNCHANGED <<users, created, setups, jar>>

Showing(t, page) ==
    LET a == app[t] IN
    page = IF a.authState = "loading" THEN "loading"
           ELSE IF a.needsSetup THEN "setup"
           ELSE IF a.authState = "unauthenticated" THEN "login" ELSE "main"

\* SetupPage and LoginPage disable their button while they wait; App's logout
\* does not.  The form is filled in well or the request is not made.
Waits(t, op) == \E c \in Mine(t) : c.op = op
SetupSubmit(t, n) == Showing(t, "setup") /\ ~Waits(t, "setup") /\ Send(t, "setup", n)
LoginSubmit(t, n) == Showing(t, "login") /\ ~Waits(t, "login") /\ Send(t, "login", n)
LogoutClick(t) == Showing(t, "main") /\ Send(t, "logout", Nobody)

\* The users page is shown to admins
UsersShown(t) == Showing(t, "main") /\ app[t].userInfo # Nobody /\ app[t].userInfo.role = "admin"
HandleCreate(t, n) == UsersShown(t) /\ Send(t, "create", n)
HandleDelete(t, n) == UsersShown(t) /\ Send(t, "delete", n)
HandleReset(t, n)  == UsersShown(t) /\ Send(t, "password", n)

Submit(t) ==
    /\ \/ LogoutClick(t)
       \/ \E n \in Names :
            \/ SetupSubmit(t, n) \/ LoginSubmit(t, n)
            \/ HandleCreate(t, n) \/ HandleDelete(t, n) \/ HandleReset(t, n)
    /\ UNCHANGED <<users, created, setups, jar, app>>

CookieAfter(t, a) == jar' = [jar EXCEPT ![t] = IF a.set THEN a.cookie ELSE @]

\* Promise.all of the two calls of Load
Booted(t) ==
    /\ \E s, m \in Mine(t) :
         /\ s.op = "status" /\ m.op = "boot" /\ s.answer # Nobody /\ m.answer # Nobody
         /\ app' = [app EXCEPT ![t] =
                      [authState |-> IF m.answer.ok THEN "authenticated" ELSE "unauthenticated",
                       needsSetup |-> s.answer.ok, userInfo |-> m.answer.user]]
         /\ CookieAfter(t, m.answer)
         /\ calls' = calls \ {s, m}
    /\ UNCHANGED <<users, created, setups>>

\* onLogin shows the app and asks me without waiting for the answer
Answered(t) ==
    /\ \E c \in Mine(t) :
         /\ c.answer # Nobody /\ c.op \notin {"status", "boot"}
         /\ CookieAfter(t, c.answer)
         /\ LET ok == c.answer.ok IN
            app' = [app EXCEPT ![t] =
              IF c.op = "setup" /\ ok
                THEN [@ EXCEPT !.needsSetup = FALSE, !.authState = "authenticated"]
              ELSE IF c.op = "login" /\ ok THEN [@ EXCEPT !.authState = "authenticated"]
              ELSE IF c.op = "me" /\ ok THEN [@ EXCEPT !.userInfo = c.answer.user]
              ELSE IF c.op = "logout"
                THEN [@ EXCEPT !.authState = "unauthenticated", !.userInfo = Nobody]
              ELSE @]
         /\ calls' = (calls \ {c}) \union
              (IF c.op = "login" /\ c.answer.ok
               THEN {[Request(t, "me", Nobody) EXCEPT !.cookie = c.answer.cookie]} ELSE {})
    /\ UNCHANGED <<users, created, setups>>

AfterFailure(a, boot) ==
    IF boot THEN [a EXCEPT !.authState = "unauthenticated", !.needsSetup = FALSE] ELSE a

\* The connection fails before or after the relay has served the call.  The
\* failure of one of the two boot calls is that of both.
CallFails(t) ==
    /\ \E c \in Mine(t) :
         LET boot == c.op \in {"status", "boot"} IN
         /\ app' = [app EXCEPT ![t] = AfterFailure(@, boot)]
         /\ calls' = calls \ (IF boot THEN {d \in Mine(t) : d.op \in {"status", "boot"}} ELSE {c})
    /\ UNCHANGED <<users, created, setups, jar>>

\* 24 hours after it was set
CookieExpires(t) ==
    /\ jar[t] # Nobody
    /\ jar' = [jar EXCEPT ![t] = Nobody]
    /\ UNCHANGED <<users, created, setups, app, calls>>

Serve(c) ==
    \/ SetupStatus(c) \/ SetupInit(c) \/ Login(c) \/ Me(c) \/ Logout(c)
    \/ UserCreate(c) \/ UserDelete(c) \/ UserPassword(c) \/ Refuse(c)

InTab(t) == Load(t) \/ Booted(t) \/ Answered(t) \/ CallFails(t) \/ CookieExpires(t)

Next ==
    \/ \E c \in calls : Serve(c)
    \/ \E t \in Tabs : Submit(t) \/ InTab(t)

Spec == Init /\ [][Next]_vars

-----------------------------------------------------------------------------
\* Properties

\* Of all the browsers that were shown the setup page one makes the first account;
\* from then on there is an admin, whichever of several admins delete each other
\* with calls that are under way at the same time: nobody could make accounts or
\* admins any more, and the relay is never set up again.
AdminSinceSetup ==
    /\ setups <= 1
    /\ setups = 1 \/ HasUsers => \E n \in DOMAIN users : users[n].role = "admin"

\* Beside the setup, rows of users change only for a call whose cookie was
\* issued to an account that exists and is an admin now: not for a deleted
\* admin, even if somebody was given the same name since (the JWT holds the
\* name, and a new row starts at the same token_version).
AdminIds == {users[n].id : n \in {m \in DOMAIN users : users[m].role = "admin"}}
UsersChangedByAdmin ==
    users' # users /\ HasUsers =>
        \E c \in calls \ calls' : c.cookie # Nobody /\ c.cookie.id \in AdminIds
OnlyAdminsChangeUsers == [][UsersChangedByAdmin]_vars
=============================================================================
