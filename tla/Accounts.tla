------------------------------ MODULE Accounts ------------------------------
(***************************************************************************)
(* The table users, the sessions and the audit log: local and Entra        *)
(* sign-in and sign-out (app/routes/auth.py, app/auth), every request that *)
(* needs a session, and the commands of app/manage_users.py.               *)
(*                                                                         *)
(* A session is nothing but a cookie.  A request works on the copy it came *)
(* with, and its answer writes the whole cookie again if the request       *)
(* changed it or somebody is signed in.                                    *)
(* Every write is a transaction of its own, and raises if the database     *)
(* stays locked; log_auth_event swallows that, all others answer 500.      *)
(*                                                                         *)
(* User names are taken in lower case, as the queries compare them, and    *)
(* passwords are told apart by nothing but being right for a row.          *)
(***************************************************************************)
EXTENDS Integers, FiniteSets

CONSTANTS
    Names,          \* user names
    Browsers,       \* cookie jars
    Threads,        \* threads that serve requests
    Consoles,       \* terminals where manage_users runs
    None,           \* nobody, nothing
    MaxUsers,       \* rows of users, enough for one of each provider and name
    MaxPasswords,   \* BOUND: passwords a local user has had
    MaxLocks        \* BOUND: times the database is locked for long

ASSUME AccountsAssumption ==
    /\ IsFiniteSet(Names) /\ MaxUsers \in Nat /\ MaxUsers >= 2 * Cardinality(Names)
    /\ MaxPasswords \in Nat \ {0} /\ MaxLocks \in Nat
    /\ None \notin 1..MaxUsers /\ None \notin Browsers

VARIABLES
    users,          \* rows of users, by id
    cookie,         \* what each browser keeps
    web,            \* what each thread is doing
    cli,            \* what each console has still to log
    signedIn,       \* ids with a login_success in auth_audit_log
    told,           \* the local accounts as auth_audit_log tells them
    locked, locks   \* somebody holds the write lock for long; how often

vars == <<users, cookie, web, cli, signedIn, told, locked, locks>>
lockVars == <<locked, locks>>
----------------------------------------------------------------------------
Ids == 1..MaxUsers
Roles == {"administrator", "scheduler_user"}
Providers == {"local", "entra"}
Row == [name: Names, provider: Providers, role: Roles, enabled: BOOLEAN,
        password: 0..MaxPasswords]              \* 0: NULL
Account == [role: Roles \cup {None}, enabled: BOOLEAN \cup {None}]
Untold == [role |-> None, enabled |-> None]
Cookie == [user: Ids \cup {None}, flow: BOOLEAN]
Empty == [user |-> None, flow |-> FALSE]

Events == {"login_success", "other"}     \* other: failures, logout, access_denied
Request == [pc: {"free", "verify", "stamp", "flow", "upsert", "update", "insert", "log",
                 "handler", "reply"},
            b: Browsers \cup {None}, jar: Cookie, \* the copy of the cookie
            changed: BOOLEAN,                     \* session.modified
            id: Ids \cup {None}, name: Names \cup {None},
            role: Roles \cup {None}, event: Events \cup {None}]
Free == [pc |-> "free", b |-> None, jar |-> Empty, changed |-> FALSE, id |-> None,
         name |-> None, role |-> None, event |-> None]

(* What a console has to log: of which user, and what it tells of it.      *)
Entry == [id: Ids, tells: Account]
Console == {None} \cup Entry

ASSUME NoneAssumption ==
    /\ None \notin Row /\ None \notin Entry
    /\ None \notin Roles /\ None \notin Events /\ None \notin BOOLEAN

TypeOK ==
    /\ users \in [Ids -> Row \cup {None}]
    /\ cookie \in [Browsers -> Cookie]
    /\ web \in [Threads -> Request]
    /\ \A t \in Threads : web[t].pc # "free" => web[t].b \in Browsers
    /\ cli \in [Consoles -> Console]
    /\ signedIn \subseteq Ids
    /\ told \in [Ids -> Account]
    /\ locked \in BOOLEAN /\ locks \in 0..MaxLocks

Init ==
    /\ users = [i \in Ids |-> None]
    /\ cookie = [b \in Browsers |-> Empty]
    /\ web = [t \in Threads |-> Free]
    /\ cli = [c \in Consoles |-> None]
    /\ signedIn = {} /\ told = [i \in Ids |-> Untold]
    /\ locked = FALSE /\ locks = 0
----------------------------------------------------------------------------
Known == {i \in Ids : users[i] # None}
Find(name, provider) == {i \in Known : users[i].name = name /\ users[i].provider = provider}

(* INSERT INTO users; the unique index on (lower(username), auth_provider) *)
(* refuses a second row.                                                   *)
RefusedNever(name, provider) == FALSE           \* mutant of Refused
Refused(name, provider) == Find(name, provider) # {}
NextId == Cardinality(Known) + 1
Insert(row) ==
    /\ ~locked /\ ~Refused(row.name, row.provider)
    /\ NextId \in Ids
    /\ users' = [users EXCEPT ![NextId] = row]

(* current_user.is_authenticated: load_user finds an enabled row.          *)
AuthenticatedOnce(jar) == jar.user # None       \* mutant of Authenticated
Authenticated(jar) == jar.user # None /\ users[jar.user].enabled

(* login_user does nothing for a user that is not active.                  *)
LoginUserNamed(id) == [user |-> users[id].name, flow |-> FALSE]      \* mutant of LoginUser
LoginUser(id) == [user |-> IF users[id].enabled THEN id ELSE None, flow |-> FALSE]

Idle(t) == web[t].pc = "free"
Goto(t, r) == web' = [web EXCEPT ![t] = r]
Come(t, b, pc, jar) == [Free EXCEPT !.pc = pc, !.b = b, !.jar = jar]
ToLog(r, event) == [r EXCEPT !.pc = "log", !.event = event]

(* The answer, whether it is a page, an error or a 500: save_session.      *)
Answer(t, r) ==
    /\ Goto(t, Free)
    /\ cookie' = IF r.changed \/ r.jar.user # None
                 THEN [cookie EXCEPT ![r.b] = r.jar] ELSE cookie
----------------------------------------------------------------------------
(* POST /login.  The row is read, the password is hashed, which takes long,*)
(* the row is read again and the session starts anew.                      *)
LoginRead(t, b, name, password) ==
    /\ Idle(t)
    /\ ~Authenticated(cookie[b])
    /\ LET r == Come(t, b, "verify", cookie[b])
           right == {i \in Find(name, "local") :
                        users[i].enabled /\ users[i].password = password}
       IN  \/ \E i \in right : Goto(t, [r EXCEPT !.id = i])
           \/ right = {} /\ Goto(t, ToLog(r, "other"))
    /\ UNCHANGED <<users, cookie, cli, signedIn, told, lockVars>>

LoginVerified(t) ==
    /\ web[t].pc = "verify"
    /\ Goto(t, [web[t] EXCEPT !.pc = "stamp", !.jar = LoginUser(web[t].id), !.changed = TRUE])
    /\ UNCHANGED <<users, cookie, cli, signedIn, told, lockVars>>

(* update_last_login; a 500 leaves the new session in place.               *)
LoginStampSilent(t) ==              \* mutant of LoginStamp
    /\ web[t].pc = "stamp"
    /\ Answer(t, web[t])
    /\ UNCHANGED <<users, cli, signedIn, told, lockVars>>
LoginStamp(t) ==
    /\ web[t].pc = "stamp"
    /\ IF locked THEN Answer(t, web[t])
       ELSE Goto(t, ToLog(web[t], "login_success")) /\ UNCHANGED cookie
    /\ UNCHANGED <<users, cli, signedIn, told, lockVars>>

(* log_auth_event, the last thing before the answer.                       *)
Log(t) ==
    /\ web[t].pc = "log"
    /\ signedIn' = IF web[t].event = "login_success" /\ ~locked
                   THEN signedIn \cup {web[t].id} ELSE signedIn
    /\ Answer(t, web[t])
    /\ UNCHANGED <<users, cli, told, lockVars>>

(* GET /logout.                                                            *)
Logout(t, b) ==
    /\ Idle(t)
    /\ Goto(t, [ToLog(Come(t, b, "log", Empty), "other") EXCEPT !.changed = TRUE])
    /\ UNCHANGED <<users, cookie, cli, signedIn, told, lockVars>>

(* Any other request: @login_required, its work, its answer.               *)
Enter(t, b) ==
    /\ Idle(t)
    /\ Goto(t, Come(t, b, IF Authenticated(cookie[b]) THEN "handler" ELSE "reply", cookie[b]))
    /\ UNCHANGED <<users, cookie, cli, signedIn, told, lockVars>>

(* GET /login keeps in the session where to go afterwards.                 *)
LoginPage(t, b) ==
    /\ Idle(t)
    /\ ~Authenticated(cookie[b])
    /\ Goto(t, [Come(t, b, "reply", cookie[b]) EXCEPT !.changed = TRUE])
    /\ UNCHANGED <<users, cookie, cli, signedIn, told, lockVars>>

Reply(t) ==
    /\ web[t].pc \in {"handler", "reply"}
    /\ Answer(t, web[t])
    /\ UNCHANGED <<users, cli, signedIn, told, lockVars>>
----------------------------------------------------------------------------
(* GET /auth/login_entra, and the callback with what Entra makes of it.    *)
EntraLogin(t, b) ==
    /\ Idle(t)
    /\ Goto(t, [Come(t, b, "reply", [cookie[b] EXCEPT !.flow = TRUE]) EXCEPT !.changed = TRUE])
    /\ UNCHANGED <<users, cookie, cli, signedIn, told, lockVars>>

Callback(t, b) ==
    /\ Idle(t)
    /\ cookie[b].flow
    /\ Goto(t, [Come(t, b, "flow", [cookie[b] EXCEPT !.flow = FALSE]) EXCEPT !.changed = TRUE])
    /\ UNCHANGED <<users, cookie, cli, signedIn, told, lockVars>>

CallbackRefused(t) ==
    /\ web[t].pc = "flow"
    /\ Goto(t, ToLog(web[t], "other"))
    /\ UNCHANGED <<users, cookie, cli, signedIn, told, lockVars>>

CallbackClaims(t, name, role) ==
    /\ web[t].pc = "flow"
    /\ Goto(t, [web[t] EXCEPT !.pc = "upsert", !.name = name, !.role = role])
    /\ UNCHANGED <<users, cookie, cli, signedIn, told, lockVars>>

(* upsert_entra_user: look, then update or insert.                         *)
UpsertRead(t) ==
    /\ web[t].pc = "upsert"
    /\ LET found == Find(web[t].name, "entra")
       IN  \/ \E i \in found : Goto(t, [web[t] EXCEPT !.pc = "update", !.id = i])
           \/ found = {} /\ Goto(t, [web[t] EXCEPT !.pc = "insert"])
    /\ UNCHANGED <<users, cookie, cli, signedIn, told, lockVars>>

UpsertUpdate(t) ==
    /\ web[t].pc = "update" /\ ~locked
    /\ users' = [users EXCEPT ![web[t].id].role = web[t].role]
    /\ Goto(t, ToLog([web[t] EXCEPT !.jar = LoginUser(web[t].id),
                                    !.name = None, !.role = None], "login_success"))
    /\ UNCHANGED <<cookie, cli, signedIn, told, lockVars>>

UpsertInsert(t) ==
    /\ web[t].pc = "insert"
    /\ Insert([name |-> web[t].name, provider |-> "entra", role |-> web[t].role,
               enabled |-> TRUE, password |-> 0])
    /\ Goto(t, ToLog([web[t] EXCEPT !.id = NextId, !.name = None, !.role = None,
                                    !.jar = [user |-> NextId, flow |-> FALSE]], "login_success"))
    /\ UNCHANGED <<cookie, cli, signedIn, told, lockVars>>

(* Locked, or another callback inserted the row first: 500.                *)
UpsertFails(t) ==
    /\ \/ web[t].pc \in {"update", "insert"} /\ locked
       \/ web[t].pc = "insert" /\ Refused(web[t].name, "entra")
    /\ Answer(t, web[t])
    /\ UNCHANGED <<users, cli, signedIn, told, lockVars>>
----------------------------------------------------------------------------
(* manage_users: one statement, then log_auth_event.                       *)
Owes(c, id, tells) == cli' = [cli EXCEPT ![c] = [id |-> id, tells |-> tells]]

CmdCreate(c, name, role) ==
    /\ cli[c] = None
    /\ Insert([name |-> name, provider |-> "local", role |-> role,
               enabled |-> TRUE, password |-> 1])
    /\ Owes(c, NextId, [role |-> role, enabled |-> TRUE])
    /\ UNCHANGED <<cookie, web, signedIn, told, lockVars>>

(* UPDATE users SET ... of the local user of that name, if there is one.   *)
SetUser(c, i, row, tells) ==
    /\ cli[c] = None /\ ~locked
    /\ users' = [users EXCEPT ![i] = row]
    /\ Owes(c, i, tells)
    /\ UNCHANGED <<cookie, web, signedIn, told, lockVars>>

CmdSetEnabled(c, name, enabled) ==          \* disable, enable
    \E i \in Find(name, "local") :
        SetUser(c, i, [users[i] EXCEPT !.enabled = enabled], [Untold EXCEPT !.enabled = enabled])
CmdResetPassword(c, name) ==
    \E i \in Find(name, "local") :
        /\ users[i].password < MaxPasswords
        /\ SetUser(c, i, [users[i] EXCEPT !.password = @ + 1], Untold)
CmdChangeRole(c, name, role) ==
    \E i \in Find(name, "local") :
        SetUser(c, i, [users[i] EXCEPT !.role = role], [Untold EXCEPT !.role = role])

(* The entry is written, unless the database is locked.                    *)
ToldFirst(account, tells) ==        \* mutant of Told
    [f \in DOMAIN account |-> IF account[f] # None THEN account[f] ELSE tells[f]]
Told(account, tells) ==
    [f \in DOMAIN account |-> IF tells[f] = None THEN account[f] ELSE tells[f]]
CmdLog(c) ==
    /\ cli[c] # None
    /\ told' = IF locked THEN told
               ELSE [told EXCEPT ![cli[c].id] = Told(@, cli[c].tells)]
    /\ cli' = [cli EXCEPT ![c] = None]
    /\ UNCHANGED <<users, cookie, web, signedIn, lockVars>>

(* Another transaction holds the lock for longer than busy_timeout.        *)
Lock ==
    /\ ~locked /\ locks < MaxLocks
    /\ locked' = TRUE /\ locks' = locks + 1
    /\ UNCHANGED <<users, cookie, web, cli, signedIn, told>>
Unlock ==
    /\ locked
    /\ locked' = FALSE
    /\ UNCHANGED <<users, cookie, web, cli, signedIn, told, locks>>
----------------------------------------------------------------------------
Begin(t) ==
    \E b \in Browsers :
        \/ \E name \in Names, password \in 0..MaxPasswords : LoginRead(t, b, name, password)
        \/ Logout(t, b) \/ Enter(t, b) \/ LoginPage(t, b)
        \/ EntraLogin(t, b) \/ Callback(t, b)

(* What a thread does until it has answered.                               *)
Serve(t) ==
    \/ LoginVerified(t) \/ LoginStamp(t) \/ Log(t) \/ Reply(t)
    \/ CallbackRefused(t)
    \/ \E name \in Names, role \in Roles : CallbackClaims(t, name, role)
    \/ UpsertRead(t) \/ UpsertUpdate(t) \/ UpsertInsert(t) \/ UpsertFails(t)

Command(c) ==
    \E name \in Names :
        \/ \E role \in Roles : CmdCreate(c, name, role) \/ CmdChangeRole(c, name, role)
        \/ \E enabled \in BOOLEAN : CmdSetEnabled(c, name, enabled)
        \/ CmdResetPassword(c, name)

Next ==
    \/ \E t \in Threads : Begin(t) \/ Serve(t)
    \/ \E c \in Consoles : Command(c) \/ CmdLog(c)
    \/ Lock \/ Unlock

Spec == Init /\ [][Next]_vars

(* Threads run on; nobody has to ask for anything.                         *)
FairSpec == Spec /\ \A t \in Threads : WF_vars(Serve(t))
----------------------------------------------------------------------------
(* Two callbacks of the same new user, or two consoles, both see that there*)
(* is no such user; there is never a second row for it, of either provider.*)
OneRowEach ==
    \A i, j \in Known :
        users[i].name = users[j].name /\ users[i].provider = users[j].provider => i = j

(* SECURITY.md: "Events logged: login success".                            *)
SignInsAreLogged == \A b \in Browsers : cookie[b].user \in signedIn \cup {None}

(* ... which is true as long as nobody kept the database locked.           *)
SignInsAreLoggedUnlessLocked == locks = 0 => SignInsAreLogged

(* The audit log tells how local accounts stand: read in order, its entries*)
(* give each account's role and whether it is enabled, once the one console*)
(* has come to an end.                                                     *)
AuditTellsAccounts ==
    locks = 0 => \A i \in Known :
        \/ users[i].provider = "entra"
        \/ \E c \in Consoles : cli[c] # None
        \/ told[i] = [role |-> users[i].role, enabled |-> users[i].enabled]

(* Disabling an account ends its sessions, also one whose sign-in was on   *)
(* its way and whatever cookies come back late: from some point on nothing *)
(* is done for it, until it is enabled again.                              *)
Served(i) == \E t \in Threads : web[t].pc = "handler" /\ web[t].jar.user = i
DisabledIsOut ==
    \A i \in Ids : (<>[](i \in Known /\ ~users[i].enabled)) => <>[]~Served(i)

(* SECURITY.md: "Events logged: ... role assignment changes".              *)
RoleChangesAreLogged ==
    [][\A i \in Known : users'[i].role # users[i].role =>
        \E c \in Consoles : cli'[c] # None /\ cli'[c].id = i
                               /\ cli'[c].tells.role = users'[i].role]_vars

(* SECURITY.md: "Events logged: login success", of sign-ins that took place.*)
LoggedMeansSignedIn ==
    \A t \in Threads : web[t].event = "login_success" => web[t].jar.user = web[t].id
=============================================================================
