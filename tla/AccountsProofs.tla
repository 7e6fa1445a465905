--------------------------- MODULE AccountsProofs ---------------------------
(***************************************************************************)
(* Proofs about Accounts, for any number of names, tabs, accounts and      *)
(* calls.                                                                  *)
(***************************************************************************)
EXTENDS Accounts, TLAPS

\* Rows, calls and the jar have their fields and keys; what is in the fields does
\* not matter here.
Rows ==
    users = [n \in DOMAIN users |-> [id |-> users[n].id, role |-> users[n].role,
                                     token_version |-> users[n].token_version]]
Fields(c) == c = [tab |-> c.tab, op |-> c.op, name |-> c.name, cookie |-> c.cookie,
                  answer |-> c.answer]
Shapes ==
    /\ setups \in Nat
    /\ Rows
    /\ \A c \in calls : Fields(c)
    /\ jar = [t \in Tabs |-> jar[t]]

\* The cookies there are: in tabs, in calls, and in answers under way.
Around ==
    {jar[t] : t \in Tabs} \union {c.cookie : c \in calls}
      \union {c.answer.cookie : c \in {d \in calls : d.answer # Nobody}}

\* A cookie is of the account whose row its name finds, unless the row is of a
\* later account; those are no admins, since the only other way to become one is
\* the setup, before which there are no cookies.
OfItsAccount(k) ==
    \/ k = Nobody
    \/ /\ HasUsers
       /\ k.name \in DOMAIN users /\ users[k.name].role = "admin" => users[k.name].id = k.id

AccountsInv ==
    /\ Shapes
    /\ AdminSinceSetup
    /\ \A k \in Around : OfItsAccount(k)

LEMMA AccountsInit == Init => AccountsInv
<1> SUFFICES ASSUME Init PROVE AccountsInv
  OBVIOUS
<1>1. \A n \in DOMAIN users : users[n].role = "admin"
  BY DEF Init, NoRows
<1>2. Rows
  <2>1. CASE users = NoRows
    BY <2>1 DEF Rows, NoRows
  <2>2. ASSUME NEW ids,
               users = [n \in Names |-> [id |-> ids[n], role |-> "admin", token_version |-> 0]]
        PROVE  Rows
    BY <2>2 DEF Rows
  <2> QED BY <2>1, <2>2 DEF Init
<1>3. Shapes
  BY <1>2 DEF Init, Shapes
<1>4. AdminSinceSetup
  BY <1>1 DEF Init, AdminSinceSetup, HasUsers
<1>5. Around \subseteq {Nobody}
  BY DEF Init, Around
<1> QED BY <1>3, <1>4, <1>5 DEF AccountsInv, OfItsAccount

-----------------------------------------------------------------------------
\* The calls that change rows, and what each does to them
Rewrites(c) == SetupInit(c) \/ UserCreate(c) \/ UserDelete(c) \/ UserPassword(c)

LEMMA OthersKeepRows ==
    ASSUME [Next]_vars, \A c \in calls : ~Rewrites(c)
    PROVE  users' = users /\ setups' = setups
BY DEF Next, Serve, Rewrites, SetupStatus, Login, Me, Logout, Refuse, Submit, InTab, Load, Booted,
       Answered, CallFails, CookieExpires, vars

\* No row of an admin is made, but at the setup, and one is left
AdminsKept ==
    /\ HasUsers
    /\ \E n \in DOMAIN users' : users'[n].role = "admin"
    /\ \A n \in DOMAIN users' : users'[n].role = "admin" =>
          n \in DOMAIN users /\ users[n].role = "admin" /\ users'[n].id = users[n].id
    /\ setups' = setups

FirstAdmin(c) ==
    /\ ~HasUsers /\ setups = 0 /\ setups' = 1
    /\ users' = [x \in {c.name} |-> NewRow("admin")]

LEMMA SetupRows ==
    ASSUME AccountsInv, NEW c \in calls, SetupInit(c)
    PROVE  UNCHANGED <<users, setups>> \/ (Rows' /\ FirstAdmin(c))
<1> SUFFICES ASSUME MaySetup, CreateUser(c.name, "admin"), setups' = setups + 1
             PROVE  Rows' /\ FirstAdmin(c)
  BY DEF SetupInit
<1>1. ~HasUsers /\ DOMAIN users = {}
  BY DEF MaySetup, HasUsers
<1>2. setups = 0
  BY <1>1 DEF AccountsInv, AdminSinceSetup, Shapes
<1>3. users' = [x \in {c.name} |-> NewRow("admin")]
  BY <1>1 DEF CreateUser
<1> QED BY <1>1, <1>2, <1>3 DEF Rows, FirstAdmin, NewRow

LEMMA CreateRows ==
    ASSUME AccountsInv, NEW c \in calls, UserCreate(c)
    PROVE  Rows' /\ AdminsKept
<1>1. users' = [x \in DOMAIN users \union {c.name} |->
                  IF x = c.name THEN NewRow("user") ELSE users[x]]
  BY DEF UserCreate, CreateUser
<1>2. c.name \notin DOMAIN users /\ HasUsers /\ setups' = setups
  BY DEF UserCreate, ByAdmin, Verified, HasUsers
<1>3. PICK n \in DOMAIN users : users[n].role = "admin"
  BY <1>2 DEF AccountsInv, AdminSinceSetup
<1>4. NewRow("user").role = "user"
  BY DEF NewRow
<1>5. Rows'
  BY <1>1 DEF AccountsInv, Shapes, Rows, NewRow
<1> QED BY <1>1, <1>2, <1>3, <1>4, <1>5 DEF AdminsKept

LEMMA DeleteRows ==
    ASSUME AccountsInv, NEW c \in calls, UserDelete(c)
    PROVE  Rows' /\ AdminsKept
<1>1. users' = [x \in DOMAIN users \ {c.name} |-> users[x]]
  BY DEF UserDelete, Restrict
<1>2. HasUsers /\ setups' = setups
  BY DEF UserDelete, HasUsers
<1>3. /\ c.cookie.name \in DOMAIN users \ {c.name}
      /\ users[c.cookie.name].role = "admin"
  BY DEF UserDelete, ByAdmin, Verified, RoleOf, MayDelete
<1>4. Rows'
  BY <1>1 DEF AccountsInv, Shapes, Rows
<1> QED BY <1>1, <1>2, <1>3, <1>4 DEF AdminsKept

LEMMA PasswordRows ==
    ASSUME AccountsInv, NEW c \in calls, UserPassword(c)
    PROVE  Rows' /\ AdminsKept
<1>1. /\ c.name \in DOMAIN users /\ HasUsers /\ setups' = setups
      /\ users' = [users EXCEPT ![c.name].token_version = @ + 1]
  BY DEF UserPassword, HasUsers
<1>2. DOMAIN users' = DOMAIN users
  BY <1>1 DEF AccountsInv, Shapes, Rows
<1>3. \A n \in DOMAIN users :
         users[n] = [id |-> users[n].id, role |-> users[n].role,
                     token_version |-> users[n].token_version]
  BY DEF AccountsInv, Shapes, Rows
<1>4. \A n \in DOMAIN users :
         users'[n] = IF n = c.name
                     THEN [id |-> users[n].id, role |-> users[n].role,
                           token_version |-> users[n].token_version + 1]
                     ELSE users[n]
  BY <1>1, <1>3 DEF AccountsInv, Shapes, Rows
<1>5. \A n \in DOMAIN users : users'[n].role = users[n].role /\ users'[n].id = users[n].id
  <2> SUFFICES ASSUME NEW n \in DOMAIN users
               PROVE  users'[n].role = users[n].role /\ users'[n].id = users[n].id
    OBVIOUS
  <2>1. CASE n = c.name
    <3>1. users'[n] = [id |-> users[n].id, role |-> users[n].role,
                       token_version |-> users[n].token_version + 1]
      BY <1>4, <2>1
    <3> QED BY <3>1
  <2>2. CASE n # c.name
    BY <1>4, <2>2
  <2> QED BY <2>1, <2>2
<1>6. users' = [n \in DOMAIN users' |-> users'[n]]
  BY <1>1, <1>2 DEF AccountsInv, Shapes, Rows
<1>7. \A n \in DOMAIN users' :
         users'[n] = [id |-> users'[n].id, role |-> users'[n].role,
                      token_version |-> users'[n].token_version]
  BY <1>2, <1>3, <1>4
<1>8. Rows'
  BY <1>6, <1>7 DEF Rows
<1>9. PICK n \in DOMAIN users : users[n].role = "admin"
  BY <1>1 DEF AccountsInv, AdminSinceSetup
<1> QED BY <1>1, <1>2, <1>5, <1>8, <1>9 DEF AdminsKept

-----------------------------------------------------------------------------
LEMMA RowsStep ==
    ASSUME AccountsInv, [Next]_vars
    PROVE  \/ UNCHANGED <<users, setups>>
           \/ Rows' /\ AdminsKept
           \/ \E c \in calls : SetupInit(c) /\ Rows' /\ FirstAdmin(c)
<1>1. CASE \A c \in calls : ~Rewrites(c)
  BY <1>1, OthersKeepRows
<1>2. ASSUME NEW c \in calls, Rewrites(c)
      PROVE  \/ UNCHANGED <<users, setups>>
             \/ Rows' /\ AdminsKept
             \/ SetupInit(c) /\ Rows' /\ FirstAdmin(c)
  BY <1>2, SetupRows, CreateRows, DeleteRows, PasswordRows DEF Rewrites
<1> QED BY <1>1, <1>2

LEMMA AdminStep ==
    ASSUME AccountsInv, [Next]_vars
    PROVE  Rows' /\ setups' \in Nat /\ AdminSinceSetup'
<1>1. CASE UNCHANGED <<users, setups>>
  BY <1>1 DEF AccountsInv, Shapes, Rows, AdminSinceSetup, HasUsers
<1>2. CASE Rows' /\ AdminsKept
  BY <1>2 DEF AccountsInv, Shapes, AdminsKept, AdminSinceSetup, HasUsers
<1>3. ASSUME NEW c \in calls, Rows', FirstAdmin(c)
      PROVE  Rows' /\ setups' \in Nat /\ AdminSinceSetup'
  BY <1>3 DEF FirstAdmin, AdminSinceSetup, HasUsers, NewRow
<1> QED BY <1>1, <1>2, <1>3, RowsStep

\* A cookie that is about stays that of its account
LEMMA CookiesKept ==
    ASSUME AccountsInv, [Next]_vars, NEW k, OfItsAccount(k)
    PROVE  OfItsAccount(k)'
<1>1. CASE UNCHANGED <<users, setups>>
  BY <1>1 DEF OfItsAccount, HasUsers
<1>2. CASE AdminsKept
  BY <1>2 DEF OfItsAccount, HasUsers, AdminsKept
<1>3. ASSUME NEW c \in calls, FirstAdmin(c) PROVE OfItsAccount(k)'
  BY <1>3 DEF FirstAdmin, OfItsAccount
<1> QED BY <1>1, <1>2, <1>3, RowsStep

-----------------------------------------------------------------------------
\* The cookies of a call that is answered, and of the answer
LEMMA AnswerAround ==
    ASSUME Shapes, NEW c \in calls, NEW a, AnswerWith(c, a), UNCHANGED jar
    PROVE  /\ \A d \in calls' : Fields(d)
           /\ Around' \subseteq Around \union {a.cookie}
<1>1. Fields(c)
  BY DEF Shapes
<1> DEFINE d == [c EXCEPT !.answer = a]
<1>2. d = [tab |-> c.tab, op |-> c.op, name |-> c.name, cookie |-> c.cookie, answer |-> a]
  BY <1>1 DEF Fields
<1>3. Fields(d) /\ d.cookie = c.cookie /\ d.answer = a
  BY <1>2 DEF Fields
<1>4. calls' = (calls \ {c}) \union {d}
  BY DEF AnswerWith
<1> HIDE DEF d
<1>5. \A e \in calls' : Fields(e)
  BY <1>3, <1>4 DEF Shapes
<1>6. Around' \subseteq Around \union {a.cookie}
  BY <1>3, <1>4 DEF Around
<1> QED BY <1>5, <1>6

\* Calls that hand out no cookie
LEMMA PlainAround ==
    ASSUME Shapes, NEW c \in calls, NEW a, AnswerWith(c, a), UNCHANGED jar, a.cookie = Nobody
    PROVE  /\ \A d \in calls' : Fields(d)
           /\ \A k \in Around' : k \in Around \union {Nobody}
BY AnswerAround

LEMMA ServeAround ==
    ASSUME AccountsInv, NEW c \in calls, Serve(c)
    PROVE  /\ jar' = jar
           /\ \A d \in calls' : Fields(d)
           /\ \A k \in Around' : k \in Around \/ OfItsAccount(k)'
<1> USE DEF AccountsInv
<1>0. Plain(TRUE).cookie = Nobody /\ Plain(FALSE).cookie = Nobody
  BY DEF Plain
<1>1. OfItsAccount(Nobody)'
  BY DEF OfItsAccount
<1>2. ASSUME UNCHANGED jar, No(c) \/ Yes(c)
      PROVE  /\ \A d \in calls' : Fields(d)
             /\ \A k \in Around' : k \in Around \/ OfItsAccount(k)'
  BY <1>0, <1>1, <1>2, PlainAround DEF No, Yes
<1>3. ASSUME UNCHANGED jar, NEW ok, ClearAuthCookies(c, ok)
      PROVE  /\ \A d \in calls' : Fields(d)
             /\ \A k \in Around' : k \in Around \/ OfItsAccount(k)'
  <2>1. [Plain(ok) EXCEPT !.set = TRUE].cookie = Nobody
    BY DEF Plain
  <2> QED BY <1>1, <1>3, <2>1, PlainAround DEF ClearAuthCookies
<1>4. ASSUME UNCHANGED jar, NEW k, OfItsAccount(k)', SetAuthCookies(c, k)
      PROVE  /\ \A d \in calls' : Fields(d)
             /\ \A e \in Around' : e \in Around \/ OfItsAccount(e)'
  <2>1. [Plain(TRUE) EXCEPT !.set = TRUE, !.cookie = k].cookie = k
    BY DEF Plain
  <2> QED BY <1>4, <2>1, AnswerAround DEF SetAuthCookies
<1>5. CASE SetupStatus(c)
  BY <1>2, <1>5 DEF SetupStatus
<1>6. CASE SetupInit(c)
  <2>1. CASE MaySetup
    <3>0. PICK k : k = GenerateJWT(c.name, NewRow("admin"))
      OBVIOUS
    <3>1. SetAuthCookies(c, k) /\ UNCHANGED jar /\ CreateUser(c.name, "admin")
      BY <1>6, <2>1, <3>0 DEF SetupInit
    <3>2. users' = [x \in {c.name} |-> NewRow("admin")]
      BY <2>1, <3>1 DEF CreateUser, MaySetup, HasUsers
    <3>3. k.name = c.name /\ k.id = NewRow("admin").id
      BY <3>0 DEF GenerateJWT
    <3>4. OfItsAccount(k)'
      BY <3>2, <3>3 DEF OfItsAccount, HasUsers
    <3> QED BY <1>4, <3>1, <3>4
  <2>2. CASE ~MaySetup
    BY <1>2, <1>6, <2>2 DEF SetupInit
  <2> QED BY <2>1, <2>2
<1>7. CASE Login(c)
  <2>0. PICK k : k = GenerateJWT(c.name, users[c.name])
    OBVIOUS
  <2>1. SetAuthCookies(c, k) /\ UNCHANGED <<jar, users>> /\ c.name \in DOMAIN users
    BY <1>7, <2>0 DEF Login
  <2>2. k.name = c.name /\ k.id = users[c.name].id
    BY <2>0 DEF GenerateJWT
  <2>3. OfItsAccount(k)'
    BY <2>1, <2>2 DEF OfItsAccount, HasUsers
  <2> QED BY <1>4, <2>1, <2>3
<1>8. CASE Me(c)
  <2>1. CASE Verified(c.cookie)
    <3> DEFINE u == [name |-> c.cookie.name, role |-> RoleOf(c.cookie)]
    <3>1. [Plain(TRUE) EXCEPT !.user = u].cookie = Nobody
      BY DEF Plain
    <3> QED BY <1>1, <1>8, <2>1, <3>1, PlainAround DEF Me
  <2>2. CASE ~Verified(c.cookie)
    BY <1>2, <1>3, <1>8, <2>2 DEF Me
  <2> QED BY <2>1, <2>2
<1>9. CASE Logout(c)
  BY <1>3, <1>9 DEF Logout
<1>10. CASE UserCreate(c) \/ UserDelete(c) \/ UserPassword(c) \/ Refuse(c)
  BY <1>2, <1>10 DEF UserCreate, UserDelete, UserPassword, Refuse
<1>11. jar' = jar
  BY DEF Serve, SetupStatus, SetupInit, Login, Me, Logout, UserCreate, UserDelete, UserPassword, Refuse
<1> QED BY <1>5, <1>6, <1>7, <1>8, <1>9, <1>10, <1>11 DEF Serve

-----------------------------------------------------------------------------
\* The tabs: cookies only move between the jar, calls and answers
SameCookies ==
    /\ jar' = [t \in Tabs |-> jar'[t]]
    /\ \A c \in calls' : Fields(c)
    /\ \A k \in Around' : k \in Around \union {Nobody}

\* A call that is there after the step was there or is a new request
Unasked(c) == c.cookie \in Around /\ c.answer = Nobody
CallsMade == \A c \in calls' : c \in calls \/ (Fields(c) /\ Unasked(c))

LEMMA RequestFields ==
    ASSUME NEW t \in Tabs, NEW op, NEW n
    PROVE  /\ Fields(Request(t, op, n))
           /\ Unasked(Request(t, op, n))
BY DEF Request, Fields, Unasked, Around

LEMMA FewerCalls ==
    ASSUME Shapes, UNCHANGED jar, CallsMade
    PROVE  SameCookies
BY DEF CallsMade, Unasked, Shapes, SameCookies, Around

LEMMA JarStep ==
    ASSUME Shapes, NEW t \in Tabs, NEW a, a.cookie \in Around, CookieAfter(t, a), CallsMade
    PROVE  SameCookies
<1>1. jar' = [u \in Tabs |-> IF u = t /\ a.set THEN a.cookie ELSE jar[u]]
  BY DEF Shapes, CookieAfter
<1>2. \A u \in Tabs : jar'[u] \in Around
  BY <1>1 DEF Around
<1>3. jar' = [u \in Tabs |-> jar'[u]]
  BY <1>1
<1> QED BY <1>2, <1>3 DEF CallsMade, Unasked, Shapes, SameCookies, Around

LEMMA SubmitAround ==
    ASSUME Shapes, NEW t \in Tabs, Submit(t)
    PROVE  SameCookies
<1>1. PICK op, n : Send(t, op, n)
  BY DEF Submit, LogoutClick, SetupSubmit, LoginSubmit, HandleCreate, HandleDelete, HandleReset
<1>2. PICK d : d = Request(t, op, n)
  OBVIOUS
<1>3. calls' = calls \union {d} /\ jar' = jar
  BY <1>1, <1>2 DEF Send, Submit
<1>4. Fields(d) /\ Unasked(d)
  BY <1>2, RequestFields
<1>5. CallsMade
  BY <1>3, <1>4 DEF CallsMade
<1> QED BY <1>3, <1>5, FewerCalls

LEMMA InTabAround ==
    ASSUME Shapes, NEW t \in Tabs, InTab(t)
    PROVE  SameCookies
<1>1. CASE Load(t)
  <2>1. PICK d, e : d = Request(t, "status", Nobody) /\ e = Request(t, "boot", Nobody)
    OBVIOUS
  <2>2. calls' = (calls \ Mine(t)) \union {d, e} /\ jar' = jar
    BY <1>1, <2>1 DEF Load
  <2>3. Fields(d) /\ Unasked(d) /\ Fields(e) /\ Unasked(e)
    BY <2>1, RequestFields
  <2>4. CallsMade
    BY <2>2, <2>3 DEF CallsMade
  <2> QED BY <2>2, <2>4, FewerCalls
<1>2. CASE Booted(t)
  <2>1. PICK m \in Mine(t) : m.answer # Nobody /\ CookieAfter(t, m.answer) /\ calls' \subseteq calls
    BY <1>2 DEF Booted
  <2>2. m \in calls /\ m.answer.cookie \in Around
    BY <2>1 DEF Mine, Around
  <2>3. PICK a : a = m.answer
    OBVIOUS
  <2>4. CallsMade
    BY <2>1 DEF CallsMade
  <2>5. a.cookie \in Around /\ CookieAfter(t, a)
    BY <2>1, <2>2, <2>3
  <2> QED BY <2>4, <2>5, JarStep
<1>3. CASE Answered(t)
  <2>1. PICK c \in Mine(t) :
          /\ c.answer # Nobody /\ CookieAfter(t, c.answer)
          /\ calls' = (calls \ {c}) \union
               (IF c.op = "login" /\ c.answer.ok
                THEN {[Request(t, "me", Nobody) EXCEPT !.cookie = c.answer.cookie]} ELSE {})
    BY <1>3 DEF Answered
  <2>2. c.answer.cookie \in Around
    BY <2>1 DEF Mine, Around
  <2>3. PICK d : d = [Request(t, "me", Nobody) EXCEPT !.cookie = c.answer.cookie]
    OBVIOUS
  <2>4. d = [tab |-> t, op |-> "me", name |-> Nobody, cookie |-> c.answer.cookie, answer |-> Nobody]
    BY <2>3 DEF Request
  <2>5. Fields(d) /\ Unasked(d)
    BY <2>2, <2>4 DEF Fields, Unasked
  <2>6. \A e \in calls' : e \in calls \/ e = d
    BY <2>1, <2>3
  <2>7. PICK a : a = c.answer
    OBVIOUS
  <2>8. CallsMade
    BY <2>5, <2>6 DEF CallsMade
  <2>9. a.cookie \in Around /\ CookieAfter(t, a)
    BY <2>1, <2>2, <2>7
  <2> QED BY <2>8, <2>9, JarStep
<1>4. CASE CallFails(t)
  <2>1. calls' \subseteq calls /\ jar' = jar
    BY <1>4 DEF CallFails
  <2>2. CallsMade
    BY <2>1 DEF CallsMade
  <2> QED BY <2>1, <2>2, FewerCalls
<1>5. CASE CookieExpires(t)
  <2>1. jar' = [u \in Tabs |-> IF u = t THEN Nobody ELSE jar[u]] /\ calls' = calls
    BY <1>5 DEF CookieExpires, Shapes
  <2>2. \A u \in Tabs : jar'[u] \in Around \union {Nobody}
    BY <2>1 DEF Around
  <2>3. jar' = [u \in Tabs |-> jar'[u]]
    BY <2>1
  <2> QED BY <2>1, <2>2, <2>3 DEF Shapes, SameCookies, Around
<1> QED BY <1>1, <1>2, <1>3, <1>4, <1>5 DEF InTab

-----------------------------------------------------------------------------
LEMMA AccountsNext == AccountsInv /\ [Next]_vars => AccountsInv'
<1> SUFFICES ASSUME AccountsInv, [Next]_vars PROVE AccountsInv'
  OBVIOUS
<1>1. Rows' /\ setups' \in Nat /\ AdminSinceSetup'
  BY AdminStep
<1>2. /\ jar' = [t \in Tabs |-> jar'[t]]
      /\ \A c \in calls' : Fields(c)
      /\ \A k \in Around' : k \in Around \/ OfItsAccount(k)'
  <2>1. ASSUME NEW c \in calls, Serve(c) PROVE <1>2
    BY <2>1, ServeAround DEF AccountsInv, Shapes
  <2>2. ASSUME NEW t \in Tabs, Submit(t) \/ InTab(t) PROVE <1>2
    <3>1. SameCookies
      BY <2>2, SubmitAround, InTabAround DEF AccountsInv
    <3> QED BY <3>1 DEF SameCookies, OfItsAccount
  <2>3. CASE UNCHANGED vars
    BY <2>3 DEF vars, AccountsInv, Shapes, Around
  <2> QED BY <2>1, <2>2, <2>3 DEF Next
<1>3. \A k \in Around' : OfItsAccount(k)'
  <2> SUFFICES ASSUME NEW k \in Around' PROVE OfItsAccount(k)'
    OBVIOUS
  <2>1. CASE k \in Around
    BY <2>1, CookiesKept DEF AccountsInv
  <2> QED BY <1>2, <2>1
<1>4. (\A c \in calls : Fields(c))'
  BY <1>2 DEF Fields
<1> QED BY <1>1, <1>2, <1>3, <1>4 DEF AccountsInv, Shapes

\* There is an admin from the setup on, and there is one setup: two admins cannot
\* delete each other, and no two browsers set the relay up.
THEOREM AdminCorrect == Spec => []AdminSinceSetup
<1>1. AccountsInv => AdminSinceSetup
  BY DEF AccountsInv
<1> QED BY <1>1, AccountsInit, AccountsNext, PTL DEF Spec

LEMMA ChangeStep ==
    ASSUME Nobody # Plain(TRUE), AccountsInv, [Next]_vars
    PROVE  [UsersChangedByAdmin]_vars
<1> SUFFICES ASSUME users' # users, HasUsers
             PROVE  \E c \in calls \ calls' : c.cookie # Nobody /\ c.cookie.id \in AdminIds
  BY DEF UsersChangedByAdmin
<1>1. PICK c \in calls : UserCreate(c) \/ UserDelete(c) \/ UserPassword(c)
  BY OthersKeepRows DEF Rewrites, SetupInit, MaySetup
<1>2. c.answer = Nobody /\ Yes(c) /\ Verified(c.cookie) /\ users[c.cookie.name].role = "admin"
  BY <1>1 DEF UserCreate, UserDelete, UserPassword, Unserved, ByAdmin, RoleOf
<1>3. c \notin calls'
  <2>1. PICK d : d = [c EXCEPT !.answer = Plain(TRUE)]
    OBVIOUS
  <2>2. d.answer = Plain(TRUE)
    <3>1. c = [tab |-> c.tab, op |-> c.op, name |-> c.name, cookie |-> c.cookie, answer |-> c.answer]
      BY DEF AccountsInv, Shapes, Fields
    <3> QED BY <2>1, <3>1
  <2> QED BY <1>2, <2>1, <2>2 DEF Yes, AnswerWith
<1>4. c.cookie \in Around
  BY DEF Around
<1>5. c.cookie # Nobody /\ c.cookie.id = users[c.cookie.name].id
  BY <1>2, <1>4 DEF AccountsInv, OfItsAccount, Verified
<1> QED BY <1>2, <1>3, <1>5 DEF AdminIds, Verified

\* A row of users is changed by a call of an account that is an admin when the
\* relay serves it, whatever became of that account and its name meanwhile.
THEOREM ChangesCorrect ==
    ASSUME Nobody # Plain(TRUE)
    PROVE  Spec => OnlyAdminsChangeUsers
<1>1. AccountsInv /\ [Next]_vars => [UsersChangedByAdmin]_vars
  BY ChangeStep
<1> QED BY <1>1, AccountsInit, AccountsNext, PTL DEF Spec, OnlyAdminsChangeUsers

-----------------------------------------------------------------------------
\* Types.  The calls that make an account carry its name, and the bounds leave
\* room for the accounts that are there at first.
AccountsConstants ==
    MaxAccounts \in Nat /\ MaxVersion \in Nat /\ Cardinality(Names) \in 0..MaxAccounts
AccountsTyped ==
    /\ TypeOK
    /\ \A c \in calls : c.op \in {"setup", "create"} => c.name \in Names

LEMMA AccountsTypesInit ==
    ASSUME AccountsConstants, Init
    PROVE  AccountsTyped
<1> USE DEF AccountsConstants
<1>1. created \in 0..MaxAccounts /\ setups \in Nat /\ calls = {}
  BY DEF Init
<1>2. DOMAIN users \subseteq Names /\ users \in [DOMAIN users -> User]
  <2>1. CASE users = NoRows
    BY <2>1 DEF NoRows
  <2>2. ASSUME NEW ids \in Bijection(Names, 1..created),
               users = [n \in Names |-> [id |-> ids[n], role |-> "admin", token_version |-> 0]]
        PROVE  DOMAIN users \subseteq Names /\ users \in [DOMAIN users -> User]
    <3>1. ids \in [Names -> 1..created]
      BY DEF Bijection, Injection
    <3>2. \A n \in Names : ids[n] \in 1..MaxAccounts
      BY <1>1, <3>1
    <3>3. 0 \in 0..MaxVersion /\ "admin" \in Roles
      BY DEF Roles
    <3>4. \A n \in Names : [id |-> ids[n], role |-> "admin", token_version |-> 0] \in User
      BY <3>2, <3>3 DEF User
    <3> QED BY <2>2, <3>4
  <2> QED BY <2>1, <2>2 DEF Init
<1>3. jar \in [Tabs -> Cookie \union {Nobody}]
  BY DEF Init
<1>4. app \in [Tabs -> App]
  <2>1. [authState |-> "unauthenticated", needsSetup |-> FALSE, userInfo |-> Nobody] \in App
    BY DEF App
  <2> QED BY <2>1 DEF Init
<1> QED BY <1>1, <1>2, <1>3, <1>4 DEF AccountsTyped, TypeOK

\* The answers of the relay
LEMMA AnswersTyped ==
    /\ \A ok \in BOOLEAN : Plain(ok) \in Served /\ [Plain(ok) EXCEPT !.set = TRUE] \in Served
    /\ \A k \in Cookie : [Plain(TRUE) EXCEPT !.set = TRUE, !.cookie = k] \in Served
    /\ \A u \in [name : Names, role : Roles] : [Plain(TRUE) EXCEPT !.user = u] \in Served
BY DEF Plain, Served

LEMMA AnswerKeepsTypes ==
    ASSUME AccountsTyped, NEW c \in calls, NEW a \in Served, AnswerWith(c, a)
    PROVE  /\ calls' \subseteq Call
           /\ \A d \in calls' : d.op \in {"setup", "create"} => d.name \in Names
<1> USE DEF AccountsTyped, TypeOK
<1>1. PICK d : d = [c EXCEPT !.answer = a]
  OBVIOUS
<1>2. d \in Call /\ d.op = c.op /\ d.name = c.name
  BY <1>1 DEF Call
<1>3. calls' = (calls \ {c}) \union {d}
  BY <1>1 DEF AnswerWith
<1> QED BY <1>2, <1>3

\* The row of a new account
LEMMA CreateKeepsTypes ==
    ASSUME AccountsConstants, AccountsTyped, NEW n \in Names, NEW role \in Roles, CreateUser(n, role)
    PROVE  /\ DOMAIN users' \subseteq Names /\ users' \in [DOMAIN users' -> User]
           /\ created' \in 0..MaxAccounts /\ NewRow(role) \in User
<1> USE DEF AccountsTyped, TypeOK
<1>1. created + 1 \in 1..MaxAccounts /\ 0 \in 0..MaxVersion
  BY DEF CreateUser, AccountsConstants
<1>2. NewRow(role) \in User
  BY <1>1 DEF NewRow, User
<1>3. created' \in 0..MaxAccounts
  BY <1>1 DEF CreateUser, AccountsConstants
<1>4. PICK row \in User : row = NewRow(role)
  BY <1>2
<1>5. users' = [x \in DOMAIN users \union {n} |-> IF x = n THEN row ELSE users[x]]
  BY <1>4 DEF CreateUser
<1>6. DOMAIN users' = DOMAIN users \union {n} /\ \A x \in DOMAIN users : users[x] \in User
  BY <1>5
<1>7. users' \in [DOMAIN users' -> User]
  BY <1>4, <1>5, <1>6
<1> QED BY <1>2, <1>3, <1>6, <1>7

LEMMA ServeTypes ==
    ASSUME AccountsConstants, AccountsTyped, NEW c \in calls, Serve(c)
    PROVE  /\ AccountsTyped'
<1> USE DEF AccountsTyped, TypeOK
<1>0. /\ Call' = Call /\ Served' = Served /\ User' = User /\ Cookie' = Cookie /\ App' = App
  BY DEF Call, Served, User, Cookie, App, Roles, Ops
<1>1. c \in Call /\ c.name \in Names \union {Nobody} /\ c.cookie \in Cookie \union {Nobody}
  BY DEF Call
<1>2. ASSUME NEW a \in Served, AnswerWith(c, a), UNCHANGED <<jar, app>>,
             DOMAIN users' \subseteq Names, users' \in [DOMAIN users' -> User],
             created' \in 0..MaxAccounts, setups' \in Nat
      PROVE  AccountsTyped'
  <2>1. /\ calls' \subseteq Call
        /\ \A d \in calls' : d.op \in {"setup", "create"} => d.name \in Names
    BY <1>2, AnswerKeepsTypes
  <2> QED BY <1>0, <1>2, <2>1
<1>3. ASSUME NEW a \in Served, AnswerWith(c, a), UNCHANGED <<users, created, setups, jar, app>>
      PROVE  AccountsTyped'
  BY <1>2, <1>3
<1>4. Plain(TRUE) \in Served /\ Plain(FALSE) \in Served
  BY AnswersTyped
<1>5. ASSUME UNCHANGED <<users, created, setups, jar, app>>, Yes(c) \/ No(c)
      PROVE  AccountsTyped'
  BY <1>3, <1>4, <1>5 DEF Yes, No
<1>6. ASSUME UNCHANGED <<users, created, setups, jar, app>>, NEW ok \in BOOLEAN, ClearAuthCookies(c, ok)
      PROVE  AccountsTyped'
  BY <1>3, <1>6, AnswersTyped DEF ClearAuthCookies
<1>7. CASE SetupStatus(c) \/ Refuse(c)
  BY <1>5, <1>7 DEF SetupStatus, Refuse
<1>8. CASE SetupInit(c)
  <2>1. CASE MaySetup
    <3>1. c.name \in Names /\ "admin" \in Roles
      BY <1>8 DEF SetupInit, Unserved, Roles
    <3>2. PICK row, k : /\ row = NewRow("admin") /\ k = GenerateJWT(c.name, row)
                        /\ CreateUser(c.name, "admin") /\ SetAuthCookies(c, k)
                        /\ setups' = setups + 1 /\ UNCHANGED <<jar, app>>
      BY <1>8, <2>1 DEF SetupInit
    <3>3. /\ DOMAIN users' \subseteq Names /\ users' \in [DOMAIN users' -> User]
          /\ created' \in 0..MaxAccounts /\ row \in User
      BY <3>1, <3>2, CreateKeepsTypes
    <3>4. k \in Cookie
      BY <3>1, <3>2, <3>3 DEF GenerateJWT, Cookie, User
    <3>5. PICK a \in Served : AnswerWith(c, a)
      BY <3>2, <3>4, AnswersTyped DEF SetAuthCookies
    <3>6. setups' \in Nat
      BY <3>2
    <3> QED BY <1>2, <3>2, <3>3, <3>5, <3>6
  <2>2. CASE ~MaySetup
    BY <1>5, <1>8, <2>2 DEF SetupInit
  <2> QED BY <2>1, <2>2
<1>9. CASE Login(c)
  <2>1. PICK n, row, k : /\ n = c.name /\ n \in DOMAIN users /\ row = users[n]
                         /\ k = GenerateJWT(n, row) /\ SetAuthCookies(c, k)
                         /\ UNCHANGED <<users, created, setups, jar, app>>
    BY <1>9 DEF Login
  <2>2. n \in Names /\ row \in User
    BY <2>1
  <2>3. k \in Cookie
    BY <2>1, <2>2 DEF GenerateJWT, Cookie, User
  <2>4. PICK a \in Served : AnswerWith(c, a)
    BY <2>1, <2>3, AnswersTyped DEF SetAuthCookies
  <2> QED BY <1>3, <2>1, <2>4
<1>10. CASE Me(c)
  <2>1. UNCHANGED <<users, created, setups, jar, app>>
    BY <1>10 DEF Me
  <2>2. CASE Verified(c.cookie)
    <3>1. PICK u : /\ u = [name |-> c.cookie.name, role |-> RoleOf(c.cookie)]
                   /\ AnswerWith(c, [Plain(TRUE) EXCEPT !.user = u])
      BY <1>10, <2>2 DEF Me
    <3>2. PICK n \in DOMAIN users : n = c.cookie.name /\ RoleOf(c.cookie) = users[n].role
      BY <2>2 DEF Verified, RoleOf
    <3>3. n \in Names /\ users[n].role \in Roles
      BY <3>2 DEF User
    <3>4. u \in [name : Names, role : Roles]
      BY <3>1, <3>2, <3>3
    <3> QED BY <1>3, <2>1, <3>1, <3>4, AnswersTyped
  <2>3. CASE ~Verified(c.cookie)
    BY <1>5, <1>6, <1>10, <2>1, <2>3 DEF Me
  <2> QED BY <2>2, <2>3
<1>11. CASE Logout(c)
  BY <1>6, <1>11 DEF Logout
<1>12. CASE UserCreate(c)
  <2>1. c.name \in Names /\ "user" \in Roles
    BY <1>12 DEF UserCreate, Unserved, Roles
  <2>2. CreateUser(c.name, "user") /\ Yes(c) /\ UNCHANGED <<setups, jar, app>>
    BY <1>12 DEF UserCreate
  <2>3. /\ DOMAIN users' \subseteq Names /\ users' \in [DOMAIN users' -> User]
        /\ created' \in 0..MaxAccounts
    BY <2>1, <2>2, CreateKeepsTypes
  <2> QED BY <1>2, <1>4, <2>2, <2>3 DEF Yes
<1>13. CASE UserDelete(c)
  <2>1. /\ users' = [x \in DOMAIN users \ {c.name} |-> users[x]] /\ Yes(c)
        /\ UNCHANGED <<created, setups, jar, app>>
    BY <1>13 DEF UserDelete, Restrict
  <2>2. DOMAIN users' \subseteq Names /\ users' \in [DOMAIN users' -> User]
    BY <2>1
  <2> QED BY <1>2, <1>4, <2>1, <2>2 DEF Yes
<1>14. CASE UserPassword(c)
  <2>1. PICK n : n = c.name /\ n \in DOMAIN users /\ users[n].token_version < MaxVersion
    BY <1>14 DEF UserPassword
  <2>2. PICK v : v = users[n].token_version + 1 /\ v \in 0..MaxVersion
    <3>1. users[n].token_version \in 0..MaxVersion
      BY <2>1 DEF User
    <3> QED BY <2>1, <3>1 DEF AccountsConstants
  <2>3. PICK row : row = [users[n] EXCEPT !.token_version = v]
    OBVIOUS
  <2>0. row \in User
    BY <2>1, <2>2, <2>3 DEF User
  <2>4. /\ users' = [users EXCEPT ![n] = row] /\ Yes(c)
        /\ UNCHANGED <<created, setups, jar, app>>
    BY <1>14, <2>1, <2>2, <2>3 DEF UserPassword
  <2>5. DOMAIN users' \subseteq Names /\ users' \in [DOMAIN users' -> User]
    BY <2>0, <2>1, <2>4
  <2> QED BY <1>2, <1>4, <2>4, <2>5 DEF Yes
<1> QED BY <1>7, <1>8, <1>9, <1>10, <1>11, <1>12, <1>13, <1>14 DEF Serve

\* A request has a tab, an operation, a name and the cookie of the tab
LEMMA RequestTyped ==
    ASSUME AccountsTyped, NEW t \in Tabs, NEW op \in Ops, NEW n \in Names \union {Nobody}
    PROVE  Request(t, op, n) \in Call
<1>1. jar[t] \in Cookie \union {Nobody}
  BY DEF AccountsTyped, TypeOK
<1> QED BY <1>1 DEF Request, Call

LEMMA SubmitTypes ==
    ASSUME AccountsTyped, NEW t \in Tabs, Submit(t)
    PROVE  AccountsTyped'
<1> USE DEF AccountsTyped, TypeOK
<1>1. PICK op \in Ops, n \in Names \union {Nobody} :
         Send(t, op, n) /\ (op \in {"setup", "create"} => n \in Names)
  <2>1. CASE LogoutClick(t)
    BY <2>1 DEF LogoutClick, Ops
  <2>2. ASSUME NEW n \in Names, \/ SetupSubmit(t, n) \/ LoginSubmit(t, n) \/ HandleCreate(t, n)
                                \/ HandleDelete(t, n) \/ HandleReset(t, n)
        PROVE  \E op \in Ops : Send(t, op, n)
    BY <2>2 DEF SetupSubmit, LoginSubmit, HandleCreate, HandleDelete, HandleReset, Ops
  <2> QED BY <2>1, <2>2 DEF Submit
<1>0. PICK d : d = Request(t, op, n)
  OBVIOUS
<1>2. d = Request(t, op, n) /\ d \in Call /\ d.op = op /\ d.name = n
  BY <1>0, RequestTyped DEF Request
<1>3. calls' = calls \union {d} /\ UNCHANGED <<users, created, setups, jar, app>>
  BY <1>1, <1>2 DEF Send, Submit
<1>4. /\ calls' \subseteq Call
      /\ \A e \in calls' : e.op \in {"setup", "create"} => e.name \in Names
  BY <1>1, <1>2, <1>3
<1>5. /\ Call' = Call /\ User' = User /\ Cookie' = Cookie /\ App' = App
  BY DEF Call, Served, User, Cookie, App, Roles, Ops
<1> QED BY <1>3, <1>4, <1>5

LEMMA InTabTypes ==
    ASSUME AccountsTyped, NEW t \in Tabs, InTab(t)
    PROVE  AccountsTyped'
<1> USE DEF AccountsTyped, TypeOK
<1>0. /\ Call' = Call /\ User' = User /\ Cookie' = Cookie /\ App' = App
  BY DEF Call, Served, User, Cookie, App, Roles, Ops
<1>1. UNCHANGED <<users, created, setups>>
  BY DEF InTab, Load, Booted, Answered, CallFails, CookieExpires
<1>2. ASSUME app' \in [Tabs -> App], jar' \in [Tabs -> Cookie \union {Nobody}],
             \A d \in calls' : d \in calls \/ (d \in Call /\ d.op \notin {"setup", "create"})
      PROVE  AccountsTyped'
  BY <1>0, <1>1, <1>2
<1>3. ASSUME NEW c \in Mine(t), c.answer # Nobody
      PROVE  /\ c.answer \in Served
             /\ CookieAfter(t, c.answer) => jar' \in [Tabs -> Cookie \union {Nobody}]
  <2>1. PICK a \in Served : a = c.answer
    BY <1>3 DEF Mine, Call
  <2>2. a.cookie \in Cookie \union {Nobody} /\ jar[t] \in Cookie \union {Nobody}
    BY DEF Served
  <2> QED BY <2>1, <2>2 DEF CookieAfter
<1>4. app[t] \in App
  OBVIOUS
<1>5. CASE Load(t)
  <2>1. PICK d, e : d = Request(t, "status", Nobody) /\ e = Request(t, "boot", Nobody)
    OBVIOUS
  <2>2. d \in Call /\ e \in Call /\ d.op = "status" /\ e.op = "boot"
    BY <2>1, RequestTyped DEF Ops, Request
  <2>0. PICK b : b = [authState |-> "loading", needsSetup |-> FALSE, userInfo |-> Nobody]
    OBVIOUS
  <2>3. b = [authState |-> "loading", needsSetup |-> FALSE, userInfo |-> Nobody] /\ b \in App
    BY <2>0 DEF App
  <2>4. calls' = (calls \ Mine(t)) \union {d, e} /\ jar' = jar /\ app' = [app EXCEPT ![t] = b]
    BY <1>5, <2>1, <2>3 DEF Load
  <2>5. app' \in [Tabs -> App]
    BY <2>3, <2>4
  <2> QED BY <1>2, <2>2, <2>4, <2>5
<1>6. CASE Booted(t)
  <2>1. PICK s \in Mine(t), m \in Mine(t) :
          /\ s.answer # Nobody /\ m.answer # Nobody /\ calls' = calls \ {s, m}
          /\ app' = [app EXCEPT ![t] =
                       [authState |-> IF m.answer.ok THEN "authenticated" ELSE "unauthenticated",
                        needsSetup |-> s.answer.ok, userInfo |-> m.answer.user]]
          /\ CookieAfter(t, m.answer)
    BY <1>6 DEF Booted
  <2>2. s.answer \in Served /\ m.answer \in Served
    BY <1>3, <2>1
  <2>3. s.answer.ok \in BOOLEAN /\ m.answer.user \in [name : Names, role : Roles] \union {Nobody}
    BY <2>2 DEF Served
  <2>4. PICK b : b = [authState |-> IF m.answer.ok THEN "authenticated" ELSE "unauthenticated",
                      needsSetup |-> s.answer.ok, userInfo |-> m.answer.user]
    OBVIOUS
  <2>5. b \in App
    BY <2>3, <2>4 DEF App
  <2>6. app' \in [Tabs -> App]
    BY <2>1, <2>4, <2>5
  <2>7. jar' \in [Tabs -> Cookie \union {Nobody}]
    BY <1>3, <2>1
  <2> QED BY <1>2, <2>1, <2>6, <2>7
<1>7. CASE Answered(t)
  <2> DEFINE after(a, c) ==
        LET ok == c.answer.ok IN
        IF c.op = "setup" /\ ok
          THEN [a EXCEPT !.needsSetup = FALSE, !.authState = "authenticated"]
        ELSE IF c.op = "login" /\ ok THEN [a EXCEPT !.authState = "authenticated"]
        ELSE IF c.op = "me" /\ ok THEN [a EXCEPT !.userInfo = c.answer.user]
        ELSE IF c.op = "logout"
          THEN [a EXCEPT !.authState = "unauthenticated", !.userInfo = Nobody]
        ELSE a
  <2>1. PICK c \in Mine(t) :
          /\ c.answer # Nobody /\ CookieAfter(t, c.answer)
          /\ app' = [app EXCEPT ![t] = after(app[t], c)]
          /\ calls' = (calls \ {c}) \union
               (IF c.op = "login" /\ c.answer.ok
                THEN {[Request(t, "me", Nobody) EXCEPT !.cookie = c.answer.cookie]} ELSE {})
    BY <1>7 DEF Answered
  <2>2. c.answer \in Served
    BY <1>3, <2>1
  <2>3. /\ c.answer.user \in [name : Names, role : Roles] \union {Nobody}
        /\ c.answer.cookie \in Cookie \union {Nobody}
    BY <2>2 DEF Served
  <2>4. PICK b : b = after(app[t], c)
    OBVIOUS
  <2>5. b \in App
    BY <1>4, <2>3, <2>4 DEF App
  <2>6. app' \in [Tabs -> App]
    BY <2>1, <2>4, <2>5
  <2>7. PICK d : d = [Request(t, "me", Nobody) EXCEPT !.cookie = c.answer.cookie]
    OBVIOUS
  <2>8. d \in Call /\ d.op = "me"
    BY <2>3, <2>7 DEF Request, Call, Ops
  <2>9. \A e \in calls' : e \in calls \/ e = d
    BY <2>1, <2>7
  <2>10. jar' \in [Tabs -> Cookie \union {Nobody}]
    BY <1>3, <2>1
  <2> QED BY <1>2, <2>6, <2>8, <2>9, <2>10
<1>8. CASE CallFails(t)
  <2>1. PICK boot, b : /\ b = AfterFailure(app[t], boot) /\ app' = [app EXCEPT ![t] = b]
                       /\ calls' \subseteq calls /\ jar' = jar
    BY <1>8 DEF CallFails
  <2>2. b \in App
    BY <2>1 DEF AfterFailure, App
  <2>3. app' \in [Tabs -> App]
    BY <2>1, <2>2
  <2> QED BY <1>2, <2>1, <2>3
<1>9. CASE CookieExpires(t)
  <2>1. jar' = [jar EXCEPT ![t] = Nobody] /\ UNCHANGED <<app, calls>>
    BY <1>9 DEF CookieExpires
  <2>2. jar' \in [Tabs -> Cookie \union {Nobody}]
    BY <2>1
  <2> QED BY <1>2, <2>1, <2>2
<1> QED BY <1>5, <1>6, <1>7, <1>8, <1>9 DEF InTab

LEMMA AccountsTypes ==
    ASSUME AccountsConstants, AccountsTyped, [Next]_vars
    PROVE  AccountsTyped'
<1>1. CASE UNCHANGED vars
  BY <1>1 DEF vars, AccountsTyped, TypeOK, Call, Served, User, Cookie, App, Roles, Ops
<1> QED BY <1>1, ServeTypes, SubmitTypes, InTabTypes DEF Next
=============================================================================
