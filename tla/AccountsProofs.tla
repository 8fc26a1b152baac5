--------------------------- MODULE AccountsProofs ---------------------------
(***************************************************************************)
(* Accounts' safety properties, for all sets of names, browsers, threads   *)
(* and consoles and all bounds, whoever signs in, is created, renamed in   *)
(* role or disabled at the same time.                                      *)
(***************************************************************************)
EXTENDS Accounts, FiniteSetTheorems, TLAPS

Numbered == \E n \in 0..MaxUsers : Known = 1..n

(* Whom a request speaks of, given the rows of users: existing rows, and,  *)
(* where a callback updates one, a row of Entra's.                         *)
HoldsRows(us, r) ==
    /\ r.pc # "free" => r.b \in Browsers
    /\ r.jar.user # None => us[r.jar.user] # None
    /\ r.pc \in {"verify", "stamp", "update"} \/ r.event = "login_success" =>
            r.id \in Ids /\ us[r.id] # None
    /\ r.event = "login_success" => r.pc = "log"
    /\ r.pc = "update" => us[r.id].provider = "entra"
    /\ r.pc \in {"upsert", "update", "insert"} => r.name \in Names /\ r.role \in Roles

Held ==
    /\ \A b \in Browsers : cookie[b].user # None => users[cookie[b].user] # None
    /\ \A t \in Threads : HoldsRows(users, web[t])

(* Whoever a request has signed in is in the log already, unless the       *)
(* request itself is still to write it there.                              *)
InLog(logged, r) ==
    \/ r.jar.user \in logged \cup {None}
    \/ r.jar.user = r.id /\ (r.pc = "stamp" \/ r.event = "login_success")

Logged ==
    locks = 0 =>
        /\ ~locked
        /\ \A b \in Browsers : cookie[b].user \in signedIn \cup {None}
        /\ \A t \in Threads : InLog(signedIn, web[t])

(* What the log will tell once the console has written its entry.          *)
OneConsole == \A c, d \in Consoles : c = d
WillTell(i) == [role |-> users[i].role, enabled |-> users[i].enabled]
Audit ==
    OneConsole /\ locks = 0 =>
        \A i \in Known : users[i].provider = "local" =>
            IF \E c \in Consoles : cli[c] # None /\ cli[c].id = i
            THEN \A c \in Consoles : Told(told[i], cli[c].tells) = WillTell(i)
            ELSE told[i] = WillTell(i)

IInv == TypeOK /\ Numbered /\ OneRowEach /\ Held /\ Logged /\ Audit
----------------------------------------------------------------------------
(***************************************************************************)
(* The table users: ids are given in order, rows are never removed.        *)
(***************************************************************************)
LEMMA NextIdFresh ==
    ASSUME Numbered
    PROVE  \E n \in 0..MaxUsers : Known = 1..n /\ NextId = n + 1 /\ NextId \notin Known
  <1>1. PICK n \in 0..MaxUsers : Known = 1..n
    BY DEF Numbered
  <1>2. n \in Nat /\ Cardinality(1..n) = n
    <2>1. n \in Nat /\ 1 \in Int /\ n \in Int
      BY AccountsAssumption
    <2> QED BY <2>1, FS_Interval
  <1>3. NextId = n + 1
    BY <1>1, <1>2 DEF NextId
  <1> QED BY <1>1, <1>2, <1>3

(* What an update or an insertion leaves as it was.                        *)
Grown ==
    \A i \in Ids : users[i] # None =>
        /\ users'[i] # None
        /\ users'[i].name = users[i].name /\ users'[i].provider = users[i].provider

LEMMA InsertFacts ==
    ASSUME IInv, NEW row \in Row, Insert(row)
    PROVE  /\ users' \in [Ids -> Row \cup {None}] /\ Numbered' /\ OneRowEach' /\ Grown
           /\ NextId \in Ids \ Known /\ users'[NextId] = row
           /\ \A i \in Ids \ {NextId} : users'[i] = users[i]
           /\ Known' = Known \cup {NextId}
  <1> USE NoneAssumption DEF IInv
  <1>1. PICK n \in 0..MaxUsers : Known = 1..n /\ NextId = n + 1 /\ NextId \notin Known
    BY NextIdFresh
  <1>2. /\ NextId \in Ids /\ users' = [users EXCEPT ![NextId] = row]
        /\ users \in [Ids -> Row \cup {None}] /\ ~Refused(row.name, row.provider)
    BY DEF Insert, TypeOK
  <1>3. /\ users' \in [Ids -> Row \cup {None}] /\ users'[NextId] = row
        /\ \A i \in Ids \ {NextId} : users'[i] = users[i]
    BY <1>2
  <1>4. Known' = Known \cup {NextId}
    BY <1>2, <1>3 DEF Known
  <1>5. Numbered'
    <2>1. n + 1 \in 0..MaxUsers
      BY <1>1, <1>2, AccountsAssumption DEF Ids
    <2>2. 1..(n + 1) = 1..n \cup {n + 1}
      BY <1>1, AccountsAssumption
    <2> QED BY <1>1, <1>4, <2>1, <2>2 DEF Numbered
  <1>6. OneRowEach'
    <2>1. \A i \in Known : ~(users[i].name = row.name /\ users[i].provider = row.provider)
      BY <1>2 DEF Refused, Find
    <2>2. \A i \in Known : i # NextId /\ i \in Ids
      BY <1>1 DEF Known
    <2> QED BY <1>3, <1>4, <2>1, <2>2 DEF OneRowEach
  <1>7. Grown
    BY <1>1, <1>2, <1>3 DEF Grown, Known
  <1> QED BY <1>1, <1>2, <1>3, <1>4, <1>5, <1>6, <1>7

LEMMA UpdateFacts ==
    ASSUME IInv, NEW i \in Known, NEW row \in Row,
           row.name = users[i].name, row.provider = users[i].provider,
           users' = [users EXCEPT ![i] = row]
    PROVE  /\ users' \in [Ids -> Row \cup {None}] /\ Numbered' /\ OneRowEach' /\ Grown
           /\ users'[i] = row /\ \A j \in Ids \ {i} : users'[j] = users[j]
           /\ Known' = Known
  <1> USE NoneAssumption DEF IInv
  <1>1. /\ i \in Ids /\ users[i] # None /\ users' \in [Ids -> Row \cup {None}]
        /\ users'[i] = row /\ \A j \in Ids \ {i} : users'[j] = users[j]
    BY DEF TypeOK, Known
  <1>2. Known' = Known
    BY <1>1 DEF Known
  <1>3. Numbered' /\ OneRowEach' /\ Grown
    BY <1>1, <1>2 DEF Numbered, OneRowEach, Grown, Known
  <1> QED BY <1>1, <1>2, <1>3
----------------------------------------------------------------------------
(***************************************************************************)
(* The steps of a request, in three parts: what it does to the rows, what  *)
(* it goes on to be, and what its answer makes of the cookie.              *)
(***************************************************************************)
LEMMA HoldsOn ==
    ASSUME Grown, NEW r \in Request, HoldsRows(users, r)
    PROVE  HoldsRows(users', r)
  BY DEF Grown, HoldsRows, Request, Cookie

LEMMA FreeFacts ==
    /\ Free \in Request /\ Empty \in Cookie /\ Free.pc = "free"
    /\ \A us, logged : HoldsRows(us, Free) /\ InLog(logged, Free)
  <1>1. Free \in Request /\ Empty \in Cookie
    <2>1. Empty \in Cookie
      BY DEF Empty, Cookie
    <2>2. FALSE \in BOOLEAN
      OBVIOUS
    <2> QED BY <2>1, <2>2 DEF Free, Request
  <1>2. /\ Free.pc = "free" /\ Free.event = None /\ Free.jar = Empty /\ Empty.user = None
    BY DEF Free, Empty
  <1>3. "login_success" # None
    BY NoneAssumption DEF Events
  <1> QED BY <1>1, <1>2, <1>3 DEF HoldsRows, InLog

LEMMA ThreadStep ==
    ASSUME IInv, NEW t \in Threads, NEW r \in Request, web' = [web EXCEPT ![t] = r],
           HoldsRows(users', r), locks = 0 => InLog(signedIn', r),
           users' \in [Ids -> Row \cup {None}], Numbered', OneRowEach', Grown,
           cookie' \in [Browsers -> Cookie],
           \A b \in Browsers : cookie'[b].user # None => users'[cookie'[b].user] # None,
           locks = 0 => \A b \in Browsers : cookie'[b].user \in signedIn' \cup {None},
           signedIn \subseteq signedIn', signedIn' \subseteq Ids,
           Audit', UNCHANGED <<cli, told, lockVars>>
    PROVE  IInv'
  <1> USE DEF IInv, lockVars
  <1>w. web'[t] = r /\ \A s \in Threads \ {t} : web'[s] = web[s]
    BY DEF TypeOK
  <1>1. TypeOK'
    BY <1>w DEF TypeOK, HoldsRows
  <1>2. Held'
    <2>1. \A s \in Threads : HoldsRows(users', web'[s])
      BY <1>w, HoldsOn DEF Held, TypeOK
    <2> QED BY <2>1 DEF Held, HoldsRows
  <1>3. Logged'
    <2>1. locks = 0 => \A s \in Threads : InLog(signedIn', web'[s])
      BY <1>w DEF Logged, InLog
    <2> QED BY <2>1 DEF Logged, InLog
  <1> QED BY <1>1, <1>2, <1>3

(* Rows, console and the entries of the log that tell of accounts are left *)
(* alone.                                                                  *)
LEMMA RowsFrame ==
    ASSUME IInv, UNCHANGED <<users, cli, told, lockVars>>
    PROVE  /\ users' \in [Ids -> Row \cup {None}] /\ Numbered' /\ OneRowEach' /\ Grown
           /\ Audit' /\ Known' = Known
  BY DEF IInv, TypeOK, Numbered, OneRowEach, Grown, Audit, OneConsole, WillTell, Told, Known, lockVars

(* A step that only brings the request further.                            *)
LEMMA ReadStep ==
    ASSUME IInv, NEW t \in Threads, NEW r \in Request, Goto(t, r),
           HoldsRows(users, r), locks = 0 => InLog(signedIn, r),
           UNCHANGED <<users, cookie, cli, signedIn, told, lockVars>>
    PROVE  IInv'
  <1>1. /\ cookie' \in [Browsers -> Cookie] /\ signedIn' \subseteq Ids /\ HoldsRows(users', r)
        /\ \A b \in Browsers : cookie'[b].user # None => users'[cookie'[b].user] # None
        /\ locks = 0 => \A b \in Browsers : cookie'[b].user \in signedIn' \cup {None}
    BY DEF IInv, TypeOK, Held, Logged
  <1> QED BY <1>1, RowsFrame, ThreadStep DEF Goto

(* The answer: the cookie becomes the copy, or stays.                      *)
LEMMA AnswerStep ==
    ASSUME IInv, NEW t \in Threads, web[t].pc # "free", Answer(t, web[t]),
           signedIn \subseteq signedIn', signedIn' \subseteq Ids,
           locks = 0 => web[t].jar.user \in signedIn' \cup {None},
           UNCHANGED <<users, cli, told, lockVars>>
    PROVE  IInv'
  <1> DEFINE r == web[t]
  <1>1. r \in Request /\ r.jar \in Cookie /\ r.b \in Browsers /\ HoldsRows(users, r)
    BY DEF IInv, TypeOK, Held, Request
  <1>2. /\ cookie' \in [Browsers -> Cookie]
        /\ \A b \in Browsers : cookie'[b] \in {cookie[b], r.jar}
    BY <1>1 DEF Answer, IInv, TypeOK
  <1>3. \A b \in Browsers : cookie'[b].user # None => users'[cookie'[b].user] # None
    BY <1>1, <1>2 DEF IInv, Held, HoldsRows
  <1>4. locks = 0 => \A b \in Browsers : cookie'[b].user \in signedIn' \cup {None}
    BY <1>2 DEF IInv, Logged
  <1>5. web' = [web EXCEPT ![t] = Free]
    BY DEF Answer, Goto
  <1> QED BY <1>2, <1>3, <1>4, <1>5, FreeFacts, RowsFrame, ThreadStep
----------------------------------------------------------------------------
(* Requests, as they come.                                                 *)
LEMMA BeginStep ==
    ASSUME IInv, NEW t \in Threads, Begin(t)
    PROVE  IInv'
  <1> DEFINE Quiet(r) == r \in Request /\ HoldsRows(users, r) /\ (locks = 0 => InLog(signedIn, r))
  <1>q. ASSUME NEW r, Quiet(r), Goto(t, r), UNCHANGED <<users, cookie, cli, signedIn, told, lockVars>>
        PROVE  IInv'
    BY <1>q, ReadStep
  <1>c. ASSUME NEW b \in Browsers, NEW jar \in Cookie,
               jar.user = cookie[b].user \/ jar.user = None
        PROVE  /\ jar.user # None => users[jar.user] # None
               /\ locks = 0 => jar.user \in signedIn \cup {None}
    BY <1>c DEF IInv, Held, Logged
  <1>b. \A b \in Browsers : cookie[b] \in Cookie
    BY DEF IInv, TypeOK
  <1>p. {"verify", "log", "handler", "reply", "flow"} \subseteq
            {"free", "verify", "stamp", "flow", "upsert", "update", "insert", "log", "handler", "reply"}
    OBVIOUS
  <1> USE DEF Come, Free
  <1>1. ASSUME NEW b \in Browsers, NEW name \in Names, NEW password \in 0..MaxPasswords,
               LoginRead(t, b, name, password)
        PROVE  IInv'
    <2> DEFINE r == Come(t, b, "verify", cookie[b])
               right == {i \in Find(name, "local") : users[i].enabled /\ users[i].password = password}
    <2>1. UNCHANGED <<users, cookie, cli, signedIn, told, lockVars>>
      BY <1>1 DEF LoginRead
    <2>2. CASE \E i \in right : Goto(t, [r EXCEPT !.id = i])
      <3>1. PICK i \in right : Goto(t, [r EXCEPT !.id = i])
        BY <2>2
      <3>2. i \in Ids /\ users[i] # None
        BY DEF Find, Known
      <3>3. Quiet([r EXCEPT !.id = i])
        BY <1>b, <1>c, <3>2, NoneAssumption DEF Request, HoldsRows, InLog, Events
      <3> QED BY <1>q, <2>1, <3>1, <3>3
    <2>3. CASE Goto(t, ToLog(r, "other"))
      <3>1. Quiet(ToLog(r, "other"))
        BY <1>b, <1>c DEF Request, HoldsRows, InLog, ToLog, Events
      <3> QED BY <1>q, <2>1, <2>3, <3>1
    <2> QED BY <1>1, <2>2, <2>3 DEF LoginRead
  <1>2. ASSUME NEW b \in Browsers, Logout(t, b) PROVE IInv'
    <2> DEFINE r == [ToLog(Come(t, b, "log", Empty), "other") EXCEPT !.changed = TRUE]
    <2>1. Quiet(r)
      BY <1>p DEF Request, HoldsRows, InLog, ToLog, Events, Empty, Cookie
    <2> QED BY <1>2, <1>q, <2>1 DEF Logout
  <1>3. ASSUME NEW b \in Browsers, Enter(t, b) PROVE IInv'
    <2> DEFINE pc == IF Authenticated(cookie[b]) THEN "handler" ELSE "reply"
    <2>1. pc \in {"handler", "reply"}
      OBVIOUS
    <2> HIDE DEF pc
    <2>2. Quiet(Come(t, b, pc, cookie[b]))
      BY <1>b, <1>c, <2>1, NoneAssumption DEF Request, HoldsRows, InLog, Events
    <2> QED BY <1>3, <1>q, <2>2 DEF Enter, pc
  <1>4. ASSUME NEW b \in Browsers, LoginPage(t, b) PROVE IInv'
    <2>1. Quiet([Come(t, b, "reply", cookie[b]) EXCEPT !.changed = TRUE])
      BY <1>b, <1>c, NoneAssumption DEF Request, HoldsRows, InLog, Events
    <2> QED BY <1>4, <1>q, <2>1 DEF LoginPage
  <1>5. ASSUME NEW b \in Browsers, EntraLogin(t, b) PROVE IInv'
    <2> DEFINE jar == [cookie[b] EXCEPT !.flow = TRUE]
    <2>1. jar \in Cookie /\ jar.user = cookie[b].user
      BY <1>b DEF Cookie
    <2> HIDE DEF jar
    <2>2. Quiet([Come(t, b, "reply", jar) EXCEPT !.changed = TRUE])
      BY <1>c, <2>1, NoneAssumption DEF Request, HoldsRows, InLog, Events
    <2> QED BY <1>5, <1>q, <2>2 DEF EntraLogin, jar
  <1>6. ASSUME NEW b \in Browsers, Callback(t, b) PROVE IInv'
    <2> DEFINE jar == [cookie[b] EXCEPT !.flow = FALSE]
    <2>1. jar \in Cookie /\ jar.user = cookie[b].user
      BY <1>b DEF Cookie
    <2> HIDE DEF jar
    <2>2. Quiet([Come(t, b, "flow", jar) EXCEPT !.changed = TRUE])
      BY <1>c, <2>1, NoneAssumption DEF Request, HoldsRows, InLog, Events
    <2> QED BY <1>6, <1>q, <2>2 DEF Callback, jar
  <1> QED BY <1>1, <1>2, <1>3, <1>4, <1>5, <1>6 DEF Begin

(* Rows of Entra's users are none of the log's business.                   *)
LEMMA AuditFrame ==
    ASSUME IInv, UNCHANGED <<cli, told, lockVars>>,
           \A i \in Ids : users'[i] # None /\ users'[i].provider = "local" => users'[i] = users[i]
    PROVE  Audit'
  BY DEF IInv, Audit, OneConsole, WillTell, Told, Known, lockVars

(* What a request or a console may do to a cookie's user.                  *)
LEMMA CookiesGrow ==
    ASSUME IInv, Grown, UNCHANGED cookie
    PROVE  /\ cookie' \in [Browsers -> Cookie]
           /\ \A b \in Browsers : cookie'[b].user # None => users'[cookie'[b].user] # None
  BY DEF IInv, TypeOK, Held, Grown, Cookie

(* Requests, as they go on.                                                *)
LEMMA ServeStep ==
    ASSUME IInv, NEW t \in Threads, Serve(t)
    PROVE  IInv'
  <1> DEFINE r == web[t]
  <1>r. /\ r \in Request /\ HoldsRows(users, r) /\ (locks = 0 => InLog(signedIn, r) /\ ~locked)
        /\ r.jar \in Cookie /\ signedIn \subseteq Ids
    BY DEF IInv, TypeOK, Held, Logged, Request
  <1> HIDE DEF r
  <1> USE NoneAssumption
  <1>1. CASE LoginVerified(t)
    <2> DEFINE q == [r EXCEPT !.pc = "stamp", !.jar = LoginUser(r.id), !.changed = TRUE]
    <2>1. r.id \in Ids /\ users[r.id] # None /\ r.b \in Browsers /\ r.event # "login_success"
      BY <1>1, <1>r DEF LoginVerified, HoldsRows, r
    <2>2. LoginUser(r.id) \in Cookie /\ LoginUser(r.id).user \in {r.id, None}
      BY <2>1 DEF LoginUser, Cookie
    <2>3. q \in Request /\ HoldsRows(users, q) /\ InLog(signedIn, q)
      BY <1>r, <2>1, <2>2 DEF Request, HoldsRows, InLog
    <2> QED BY <1>1, <2>3, ReadStep DEF LoginVerified, r
  <1>2. CASE LoginStamp(t)
    <2>1. CASE locked
      <3>1. locks # 0
        BY <1>r, <2>1
      <3> QED BY <1>2, <1>r, <2>1, <3>1, AnswerStep DEF LoginStamp
    <2>2. CASE ~locked
      <3> DEFINE q == ToLog(r, "login_success")
      <3>1. q \in Request /\ HoldsRows(users, q) /\ (locks = 0 => InLog(signedIn, q))
        BY <1>2, <1>r DEF LoginStamp, ToLog, Request, Events, HoldsRows, InLog, r
      <3> QED BY <1>2, <2>2, <3>1, ReadStep DEF LoginStamp, r
    <2> QED BY <2>1, <2>2
  <1>3. CASE Log(t)
    <2>1. r.pc = "log" /\ Answer(t, r) /\ UNCHANGED <<users, cli, told, lockVars>>
      BY <1>3 DEF Log, r
    <2>2. signedIn' = IF r.event = "login_success" /\ ~locked THEN signedIn \cup {r.id} ELSE signedIn
      BY <1>3 DEF Log, r
    <2>3. signedIn \subseteq signedIn' /\ signedIn' \subseteq Ids
      BY <1>r, <2>2 DEF HoldsRows
    <2>4. locks = 0 => r.jar.user \in signedIn' \cup {None}
      BY <1>r, <2>1, <2>2 DEF InLog
    <2> QED BY <2>1, <2>3, <2>4, AnswerStep DEF r
  <1>4. CASE Reply(t)
    <2>1. locks = 0 => r.jar.user \in signedIn \cup {None}
      BY <1>4, <1>r DEF Reply, InLog, HoldsRows, r
    <2> QED BY <1>4, <1>r, <2>1, AnswerStep DEF Reply, r
  <1>5. CASE CallbackRefused(t)
    <2> DEFINE q == ToLog(r, "other")
    <2>1. q \in Request /\ HoldsRows(users, q) /\ (locks = 0 => InLog(signedIn, q))
      BY <1>5, <1>r DEF CallbackRefused, ToLog, Request, Events, HoldsRows, InLog, r
    <2> QED BY <1>5, <2>1, ReadStep DEF CallbackRefused, r
  <1>6. ASSUME NEW name \in Names, NEW role \in Roles, CallbackClaims(t, name, role) PROVE IInv'
    <2> DEFINE q == [r EXCEPT !.pc = "upsert", !.name = name, !.role = role]
    <2>1. q \in Request /\ HoldsRows(users, q) /\ (locks = 0 => InLog(signedIn, q))
      BY <1>6, <1>r DEF CallbackClaims, Request, HoldsRows, InLog, r
    <2> QED BY <1>6, <2>1, ReadStep DEF CallbackClaims, r
  <1>7. CASE UpsertRead(t)
    <2>1. UNCHANGED <<users, cookie, cli, signedIn, told, lockVars>> /\ r.pc = "upsert"
      BY <1>7 DEF UpsertRead, r
    <2>2. ASSUME NEW i \in Find(r.name, "entra"), Goto(t, [r EXCEPT !.pc = "update", !.id = i])
          PROVE  IInv'
      <3> DEFINE q == [r EXCEPT !.pc = "update", !.id = i]
      <3>1. i \in Ids /\ users[i] # None /\ users[i].provider = "entra"
        BY DEF Find, Known
      <3>2. q \in Request /\ HoldsRows(users, q) /\ (locks = 0 => InLog(signedIn, q))
        BY <1>r, <2>1, <3>1 DEF Request, HoldsRows, InLog
      <3> QED BY <2>1, <2>2, <3>2, ReadStep
    <2>3. CASE Goto(t, [r EXCEPT !.pc = "insert"])
      <3> DEFINE q == [r EXCEPT !.pc = "insert"]
      <3>1. q \in Request /\ HoldsRows(users, q) /\ (locks = 0 => InLog(signedIn, q))
        BY <1>r, <2>1 DEF Request, HoldsRows, InLog
      <3> QED BY <2>1, <2>3, <3>1, ReadStep
    <2> QED BY <1>7, <2>2, <2>3 DEF UpsertRead, r
  <1>8. CASE UpsertFails(t)
    <2>1. locks = 0 => r.jar.user \in signedIn \cup {None}
      BY <1>8, <1>r DEF UpsertFails, InLog, HoldsRows, r
    <2>2. r.pc # "free" /\ Answer(t, r) /\ UNCHANGED <<users, cli, signedIn, told, lockVars>>
      BY <1>8 DEF UpsertFails, r
    <2> QED BY <1>r, <2>1, <2>2, AnswerStep DEF r
  <1>9. CASE UpsertUpdate(t)
    <2> DEFINE row == [users[r.id] EXCEPT !.role = r.role]
               q == ToLog([r EXCEPT !.jar = LoginUser(r.id), !.name = None, !.role = None],
                          "login_success")
    <2>1. /\ r.pc = "update" /\ UNCHANGED <<cookie, cli, signedIn, told, lockVars>>
          /\ users' = [users EXCEPT ![r.id].role = r.role] /\ web' = [web EXCEPT ![t] = q]
      BY <1>9 DEF UpsertUpdate, Goto, r
    <2>2. /\ r.id \in Known /\ r.role \in Roles /\ r.b \in Browsers /\ r.id \in Ids
          /\ users[r.id].provider = "entra" /\ users[r.id] \in Row
      BY <1>r, <2>1 DEF HoldsRows, Known, IInv, TypeOK
    <2>3. row \in Row /\ row.name = users[r.id].name /\ row.provider = "entra"
      BY <2>2 DEF Row
    <2>4. users' = [users EXCEPT ![r.id] = row]
      BY <2>1
    <2> HIDE DEF row
    <2>5. /\ users' \in [Ids -> Row \cup {None}] /\ Numbered' /\ OneRowEach' /\ Grown
          /\ users'[r.id] = row /\ \A j \in Ids \ {r.id} : users'[j] = users[j]
      BY <2>2, <2>3, <2>4, UpdateFacts
    <2>6. Audit'
      BY <2>1, <2>3, <2>5, AuditFrame
    <2>7. LoginUser(r.id) \in Cookie /\ LoginUser(r.id).user \in {r.id, None}
      BY <2>2 DEF LoginUser, Cookie
    <2>8. q \in Request /\ HoldsRows(users', q) /\ InLog(signedIn', q)
      BY <1>r, <2>2, <2>3, <2>5, <2>7 DEF Request, HoldsRows, InLog, ToLog, Events
    <2> QED BY <1>r, <2>1, <2>5, <2>6, <2>8, CookiesGrow, ThreadStep DEF IInv, Logged
  <1>10. CASE UpsertInsert(t)
    <2> DEFINE row == [name |-> r.name, provider |-> "entra", role |-> r.role,
                       enabled |-> TRUE, password |-> 0]
               q == ToLog([r EXCEPT !.id = NextId, !.name = None, !.role = None,
                                    !.jar = [user |-> NextId, flow |-> FALSE]], "login_success")
    <2>1. /\ r.pc = "insert" /\ UNCHANGED <<cookie, cli, signedIn, told, lockVars>>
          /\ Insert(row) /\ web' = [web EXCEPT ![t] = q]
      BY <1>10 DEF UpsertInsert, Goto, r
    <2>2. r.role \in Roles /\ r.name \in Names /\ r.b \in Browsers
      BY <1>r, <2>1 DEF HoldsRows
    <2>3. row \in Row /\ row.provider = "entra"
      <3>1. TRUE \in BOOLEAN /\ 0 \in 0..MaxPasswords
        BY AccountsAssumption
      <3> QED BY <2>2, <3>1 DEF Row, Providers
    <2> HIDE DEF row
    <2>5. /\ users' \in [Ids -> Row \cup {None}] /\ Numbered' /\ OneRowEach' /\ Grown
          /\ NextId \in Ids /\ users'[NextId] = row /\ \A j \in Ids \ {NextId} : users'[j] = users[j]
      BY <2>1, <2>3, InsertFacts
    <2>6. Audit'
      BY <2>1, <2>3, <2>5, AuditFrame
    <2>7. [user |-> NextId, flow |-> FALSE] \in Cookie
      BY <2>5 DEF Cookie
    <2>8. q \in Request /\ HoldsRows(users', q) /\ InLog(signedIn', q)
      BY <1>r, <2>2, <2>3, <2>5, <2>7 DEF Request, HoldsRows, InLog, ToLog, Events
    <2> QED BY <1>r, <2>1, <2>5, <2>6, <2>8, CookiesGrow, ThreadStep DEF IInv, Logged
  <1> QED BY <1>1, <1>2, <1>3, <1>4, <1>5, <1>6, <1>7, <1>8, <1>9, <1>10 DEF Serve

----------------------------------------------------------------------------
(***************************************************************************)
(* The consoles.                                                           *)
(***************************************************************************)
LEMMA ToldFacts ==
    ASSUME NEW account \in Account, NEW tells \in Account
    PROVE  /\ Told(account, tells) \in Account
           /\ Told(account, tells) =
                [role |-> IF tells.role = None THEN account.role ELSE tells.role,
                 enabled |-> IF tells.enabled = None THEN account.enabled ELSE tells.enabled]
  BY DEF Told, Account

(* A command changes or inserts the row of a local user, and owes the log  *)
(* an entry which makes it tell of the row as it is now.                   *)
LEMMA CommandStep ==
    ASSUME IInv, NEW c \in Consoles, NEW i \in Ids, NEW tells \in Account,
           cli[c] = None, Owes(c, i, tells),
           users' \in [Ids -> Row \cup {None}], Numbered', OneRowEach', Grown,
           \A j \in Ids \ {i} : users'[j] = users[j], users'[i] # None,
           OneConsole /\ locks = 0 => Told(told[i], tells) = WillTell(i)',
           UNCHANGED <<cookie, web, signedIn, told, lockVars>>
    PROVE  IInv'
  <1> USE DEF IInv, lockVars
  <1>1. /\ [id |-> i, tells |-> tells] \in Entry
        /\ cli' = [cli EXCEPT ![c] = [id |-> i, tells |-> tells]]
    BY DEF Entry, Owes
  <1>2. /\ cli'[c] # None /\ cli'[c].id = i /\ cli'[c].tells = tells
        /\ \A d \in Consoles \ {c} : cli'[d] = cli[d]
    BY <1>1, NoneAssumption DEF TypeOK
  <1>3. TypeOK'
    BY <1>1, CookiesGrow DEF TypeOK, Console
  <1>4. Held'
    <2>1. \A t \in Threads : HoldsRows(users', web[t])
      BY HoldsOn DEF Held, TypeOK
    <2> QED BY <2>1, CookiesGrow DEF Held, HoldsRows
  <1>5. Logged'
    BY DEF Logged, InLog
  <1>6. Audit'
    <2> SUFFICES ASSUME OneConsole, locks = 0, NEW j \in Ids, users'[j] # None, users'[j].provider = "local"
                 PROVE  IF \E d \in Consoles : cli'[d] # None /\ cli'[d].id = j
                        THEN \A d \in Consoles : Told(told[j], cli'[d].tells) = WillTell(j)'
                        ELSE told[j] = WillTell(j)'
      BY DEF Audit, OneConsole, Known, Told
    <2>1. \A d \in Consoles : d = c
      BY DEF OneConsole
    <2>2. CASE j = i
      BY <1>2, <2>1, <2>2
    <2>3. CASE j # i
      <3>1. users'[j] = users[j] /\ j \in Known
        BY <2>3 DEF Known
      <3>2. told[j] = WillTell(j)
        BY <2>1, <3>1 DEF Audit
      <3>3. WillTell(j)' = WillTell(j)
        BY <3>1 DEF WillTell
      <3> QED BY <1>2, <2>1, <2>3, <3>2, <3>3
    <2> QED BY <2>2, <2>3
  <1> QED BY <1>3, <1>4, <1>5, <1>6

LEMMA SetUserStep ==
    ASSUME IInv, NEW c \in Consoles, NEW name \in Names, NEW i \in Find(name, "local"),
           NEW row \in Row, row.name = users[i].name, row.provider = users[i].provider,
           NEW tells \in Account, SetUser(c, i, row, tells),
           Told(WillTell(i), tells) = [role |-> row.role, enabled |-> row.enabled]
    PROVE  IInv'
  <1>1. i \in Ids /\ i \in Known /\ users[i].provider = "local"
    BY DEF Find, Known
  <1>2. /\ cli[c] = None /\ Owes(c, i, tells) /\ users' = [users EXCEPT ![i] = row]
        /\ UNCHANGED <<cookie, web, signedIn, told, lockVars>>
    BY DEF SetUser
  <1>3. /\ users' \in [Ids -> Row \cup {None}] /\ Numbered' /\ OneRowEach' /\ Grown
        /\ users'[i] = row /\ \A j \in Ids \ {i} : users'[j] = users[j]
    BY <1>1, <1>2, UpdateFacts
  <1>4. users'[i] # None
    BY <1>3, NoneAssumption
  <1>5. WillTell(i)' = [role |-> row.role, enabled |-> row.enabled]
    BY <1>3 DEF WillTell
  <1>6. OneConsole /\ locks = 0 => told[i] = WillTell(i)
    BY <1>1, <1>2 DEF IInv, Audit, OneConsole
  <1> QED BY <1>1, <1>2, <1>3, <1>4, <1>5, <1>6, CommandStep

LEMMA CommandsStep ==
    ASSUME IInv, NEW c \in Consoles, Command(c)
    PROVE  IInv'
  <1> USE NoneAssumption
  <1>u. Untold \in Account /\ Untold.role = None /\ Untold.enabled = None
    BY DEF Untold, Account
  <1>f. ASSUME NEW name \in Names, NEW i \in Find(name, "local")
        PROVE  /\ users[i] \in Row /\ WillTell(i) \in Account
               /\ WillTell(i).role = users[i].role /\ WillTell(i).enabled = users[i].enabled
    <2>1. users[i] \in Row
      BY DEF Find, Known, IInv, TypeOK
    <2>2. users[i].role \in Roles /\ users[i].enabled \in BOOLEAN
      BY <2>1 DEF Row
    <2> QED BY <2>1, <2>2 DEF WillTell, Account
  <1>1. ASSUME NEW name \in Names, NEW role \in Roles, CmdCreate(c, name, role) PROVE IInv'
    <2> DEFINE row == [name |-> name, provider |-> "local", role |-> role,
                       enabled |-> TRUE, password |-> 1]
               tells == [role |-> role, enabled |-> TRUE]
    <2>1. /\ cli[c] = None /\ Insert(row) /\ Owes(c, NextId, tells)
          /\ UNCHANGED <<cookie, web, signedIn, told, lockVars>>
      BY <1>1 DEF CmdCreate
    <2>2. row \in Row /\ row.role = role /\ row.enabled = TRUE
      <3>1. TRUE \in BOOLEAN /\ 1 \in 0..MaxPasswords
        BY AccountsAssumption
      <3> QED BY <3>1 DEF Row, Providers
    <2>3. tells \in Account /\ tells.role = role /\ tells.enabled = TRUE
      <3>1. TRUE \in BOOLEAN
        OBVIOUS
      <3> QED BY <3>1 DEF Account
    <2> HIDE DEF row
    <2>4. /\ users' \in [Ids -> Row \cup {None}] /\ Numbered' /\ OneRowEach' /\ Grown
          /\ NextId \in Ids /\ users'[NextId] = row /\ \A j \in Ids \ {NextId} : users'[j] = users[j]
      BY <2>1, <2>2, InsertFacts
    <2>5. users'[NextId] # None
      BY <2>2, <2>4
    <2>6. \A i \in Ids : Told(told[i], tells) = tells
      <3>1. \A i \in Ids : told[i] \in Account
        BY DEF IInv, TypeOK
      <3>2. TRUE # None
        OBVIOUS
      <3> QED BY <2>3, <3>1, <3>2, ToldFacts
    <2>7. \A i \in Ids : users'[i] = row => [role |-> users'[i].role, enabled |-> users'[i].enabled] = tells
      BY <2>2
    <2> DEFINE n == NextId
    <2>8. Told(told[n], tells) = [role |-> users'[n].role, enabled |-> users'[n].enabled]
      BY <2>4, <2>6, <2>7
    <2> HIDE DEF n, tells
    <2> QED BY <2>1, <2>3, <2>4, <2>5, <2>8, CommandStep DEF WillTell, n
  <1>2. ASSUME NEW name \in Names, NEW role \in Roles, CmdChangeRole(c, name, role) PROVE IInv'
    <2> DEFINE tells == [Untold EXCEPT !.role = role]
    <2>1. PICK i \in Find(name, "local") : SetUser(c, i, [users[i] EXCEPT !.role = role], tells)
      BY <1>2 DEF CmdChangeRole
    <2> DEFINE row == [users[i] EXCEPT !.role = role]
    <2>2. /\ row \in Row /\ row.name = users[i].name /\ row.provider = users[i].provider
          /\ row.role = role /\ row.enabled = users[i].enabled
      BY <1>f DEF Row
    <2>3. tells \in Account /\ tells.role = role /\ tells.enabled = None
      BY <1>u DEF Account
    <2> HIDE DEF row, tells
    <2>4. Told(WillTell(i), tells) = [role |-> row.role, enabled |-> row.enabled]
      <3>1. Told(WillTell(i), tells) =
                [role |-> IF tells.role = None THEN WillTell(i).role ELSE tells.role,
                 enabled |-> IF tells.enabled = None THEN WillTell(i).enabled ELSE tells.enabled]
        BY <1>f, <2>3, ToldFacts
      <3> QED BY <1>f, <2>2, <2>3, <3>1
    <2> QED BY <2>1, <2>2, <2>3, <2>4, SetUserStep DEF row
  <1>3. ASSUME NEW name \in Names, NEW enabled \in BOOLEAN, CmdSetEnabled(c, name, enabled) PROVE IInv'
    <2> DEFINE tells == [Untold EXCEPT !.enabled = enabled]
    <2>1. PICK i \in Find(name, "local") : SetUser(c, i, [users[i] EXCEPT !.enabled = enabled], tells)
      BY <1>3 DEF CmdSetEnabled
    <2> DEFINE row == [users[i] EXCEPT !.enabled = enabled]
    <2>2. /\ row \in Row /\ row.name = users[i].name /\ row.provider = users[i].provider
          /\ row.role = users[i].role /\ row.enabled = enabled
      BY <1>f DEF Row
    <2>3. tells \in Account /\ tells.role = None /\ tells.enabled = enabled /\ enabled # None
      BY <1>u DEF Account
    <2> HIDE DEF row, tells
    <2>4. Told(WillTell(i), tells) = [role |-> row.role, enabled |-> row.enabled]
      <3>1. Told(WillTell(i), tells) =
                [role |-> IF tells.role = None THEN WillTell(i).role ELSE tells.role,
                 enabled |-> IF tells.enabled = None THEN WillTell(i).enabled ELSE tells.enabled]
        BY <1>f, <2>3, ToldFacts
      <3> QED BY <1>f, <2>2, <2>3, <3>1
    <2> QED BY <2>1, <2>2, <2>3, <2>4, SetUserStep DEF row
  <1>4. ASSUME NEW name \in Names, CmdResetPassword(c, name) PROVE IInv'
    <2>1. PICK i \in Find(name, "local") :
            users[i].password < MaxPasswords /\ SetUser(c, i, [users[i] EXCEPT !.password = @ + 1], Untold)
      BY <1>4 DEF CmdResetPassword
    <2> DEFINE row == [users[i] EXCEPT !.password = @ + 1]
    <2>2. users[i].password + 1 \in 0..MaxPasswords
      BY <1>f, <2>1, AccountsAssumption DEF Row
    <2>3. /\ row \in Row /\ row.name = users[i].name /\ row.provider = users[i].provider
          /\ row.role = users[i].role /\ row.enabled = users[i].enabled
      BY <1>f, <2>2 DEF Row
    <2> HIDE DEF row
    <2>4. Told(WillTell(i), Untold) = [role |-> row.role, enabled |-> row.enabled]
      <3>1. Told(WillTell(i), Untold) =
                [role |-> IF Untold.role = None THEN WillTell(i).role ELSE Untold.role,
                 enabled |-> IF Untold.enabled = None THEN WillTell(i).enabled ELSE Untold.enabled]
        BY <1>f, <1>u, ToldFacts
      <3> QED BY <1>f, <1>u, <2>3, <3>1
    <2> QED BY <1>u, <2>1, <2>3, <2>4, SetUserStep DEF row
  <1> QED BY <1>1, <1>2, <1>3, <1>4 DEF Command

(* The entry is written, or lost because the database is locked.           *)
LEMMA CmdLogStep ==
    ASSUME IInv, NEW c \in Consoles, CmdLog(c)
    PROVE  IInv'
  <1> USE DEF IInv, lockVars
  <1>1. /\ cli[c] \in Entry /\ cli' = [cli EXCEPT ![c] = None]
        /\ told' = IF locked THEN told ELSE [told EXCEPT ![cli[c].id] = Told(told[cli[c].id], cli[c].tells)]
        /\ UNCHANGED <<users, cookie, web, signedIn, lockVars>>
    BY DEF CmdLog, TypeOK, Console
  <1>2. cli[c].id \in Ids /\ cli[c].tells \in Account
    BY <1>1 DEF Entry
  <1>3. Told(told[cli[c].id], cli[c].tells) \in Account
    BY <1>2, ToldFacts DEF TypeOK
  <1>4. TypeOK'
    BY <1>1, <1>3 DEF TypeOK, Console
  <1>5. Held' /\ Logged' /\ Numbered' /\ OneRowEach'
    BY <1>1 DEF Held, HoldsRows, Logged, InLog, Numbered, OneRowEach, Known
  <1>6. Audit'
    <2> SUFFICES ASSUME OneConsole, locks = 0, NEW j \in Ids, users[j] # None, users[j].provider = "local"
                 PROVE  told'[j] = WillTell(j) /\ \A d \in Consoles : cli'[d] = None
      BY <1>1 DEF Audit, OneConsole, Known, WillTell
    <2>1. \A d \in Consoles : d = c
      BY DEF OneConsole
    <2>2. ~locked /\ cli[c] # None
      BY <1>1, NoneAssumption DEF Logged
    <2>3. \A d \in Consoles : cli'[d] = None
      BY <1>1, <2>1 DEF TypeOK
    <2>4. told' = [told EXCEPT ![cli[c].id] = Told(told[cli[c].id], cli[c].tells)]
      BY <1>1, <2>2
    <2>5. CASE j = cli[c].id
      <3>1. Told(told[j], cli[c].tells) = WillTell(j)
        BY <2>2, <2>5 DEF Audit, Known
      <3> QED BY <2>3, <2>4, <2>5, <3>1 DEF TypeOK
    <2>6. CASE j # cli[c].id
      <3>1. told[j] = WillTell(j)
        BY <2>1, <2>6 DEF Audit, Known
      <3> QED BY <2>3, <2>4, <2>6, <3>1 DEF TypeOK
    <2> QED BY <2>5, <2>6
  <1> QED BY <1>4, <1>5, <1>6

(* Whoever locks the database is counted.                                  *)
LEMMA LockStep ==
    ASSUME IInv, Lock \/ Unlock
    PROVE  IInv'
  <1> USE DEF IInv
  <1>1. UNCHANGED <<users, cookie, web, cli, signedIn, told>>
    BY DEF Lock, Unlock
  <1>2. locked' \in BOOLEAN /\ locks' \in 0..MaxLocks
    <2>1. CASE Lock
      <3>1. TRUE \in BOOLEAN
        OBVIOUS
      <3> QED BY <2>1, <3>1, AccountsAssumption DEF Lock, TypeOK
    <2>2. CASE Unlock
      <3>1. FALSE \in BOOLEAN
        OBVIOUS
      <3> QED BY <2>2, <3>1 DEF Unlock, TypeOK
    <2> QED BY <2>1, <2>2
  <1>3. locks' = 0 => locks = 0 /\ (~locked => ~locked')
    BY AccountsAssumption DEF Lock, Unlock, TypeOK
  <1>4. TypeOK' /\ Held' /\ Numbered' /\ OneRowEach'
    BY <1>1, <1>2 DEF TypeOK, Held, HoldsRows, Numbered, OneRowEach, Known
  <1>5. Logged'
    BY <1>1, <1>3 DEF Logged, InLog
  <1>6. Audit'
    BY <1>1, <1>3 DEF Audit, OneConsole, WillTell, Told, Known
  <1> QED BY <1>4, <1>5, <1>6

LEMMA InitIInv == Init => IInv
  <1> SUFFICES ASSUME Init PROVE IInv
    OBVIOUS
  <1>1. Known = {}
    BY DEF Init, Known
  <1>2. TypeOK
    <2>1. Untold \in Account
      BY DEF Untold, Account
    <2>2. locked \in BOOLEAN
      BY DEF Init
    <2>3. cookie \in [Browsers -> Cookie] /\ web \in [Threads -> Request]
      BY FreeFacts DEF Init
    <2> QED BY <2>1, <2>2, <2>3, FreeFacts, AccountsAssumption DEF Init, TypeOK, Console
  <1>3. Numbered
    <2>1. 0 \in 0..MaxUsers /\ 1..0 = {}
      BY AccountsAssumption
    <2> QED BY <1>1, <2>1 DEF Numbered
  <1>4. OneRowEach /\ Audit
    BY <1>1 DEF OneRowEach, Audit
  <1>5. Held /\ Logged
    BY FreeFacts DEF Init, Held, Logged, Empty
  <1> QED BY <1>2, <1>3, <1>4, <1>5 DEF IInv

LEMMA NextIInv == IInv /\ [Next]_vars => IInv'
  <1> SUFFICES ASSUME IInv, [Next]_vars PROVE IInv'
    OBVIOUS
  <1>1. CASE UNCHANGED vars
    BY <1>1 DEF vars, lockVars, IInv, TypeOK, Numbered, OneRowEach, Held, HoldsRows, Logged, InLog, Audit, OneConsole, WillTell, Told, Known
  <1> QED BY <1>1, BeginStep, ServeStep, CommandsStep, CmdLogStep, LockStep DEF Next

----------------------------------------------------------------------------
(* The invariant is one of the specification.                              *)
THEOREM Inductive == Spec => []IInv
  BY InitIInv, NextIInv, PTL DEF Spec

(* All variables keep their types.                                         *)
THEOREM TypeCorrect == Spec => []TypeOK
  <1>1. IInv => TypeOK
    BY DEF IInv
  <1> QED BY <1>1, Inductive, PTL

(* No user has two rows, however many callbacks and consoles insert them.  *)
THEOREM UsersUnique == Spec => []OneRowEach
  <1>1. IInv => OneRowEach
    BY DEF IInv
  <1> QED BY <1>1, Inductive, PTL

(* As long as nobody has kept the database locked, every cookie of a signed*)
(* in user is of somebody whose sign-in the log has.                       *)
THEOREM SignInsLogged == Spec => []SignInsAreLoggedUnlessLocked
  <1>1. IInv => SignInsAreLoggedUnlessLocked
    BY DEF IInv, Logged, SignInsAreLoggedUnlessLocked, SignInsAreLogged
  <1> QED BY <1>1, Inductive, PTL

(* With one console the entries of the log, read in order, end with the    *)
(* role and the state of every local account.                              *)
THEOREM AuditTrail ==
    ASSUME OneConsole
    PROVE  Spec => []AuditTellsAccounts
  <1>1. IInv => AuditTellsAccounts
    <2> SUFFICES ASSUME IInv, locks = 0, NEW i \in Known, users[i].provider # "entra",
                        ~\E c \in Consoles : cli[c] # None
                 PROVE  told[i] = [role |-> users[i].role, enabled |-> users[i].enabled]
      BY DEF AuditTellsAccounts
    <2>1. users[i].provider = "local"
      BY DEF IInv, TypeOK, Known, Row, Providers
    <2> QED BY <2>1 DEF IInv, Audit, WillTell
  <1> QED BY <1>1, Inductive, PTL
=============================================================================
