---------------------------- MODULE Invitations ----------------------------
(***************************************************************************)
(* The table meeting_invitees and the emails that the web process sends    *)
(* for it (app/email_service.py and the requests of app/routes/meetings.py *)
(* that change it).                                                        *)
(*                                                                         *)
(* create, update and edit mail inside their write transaction: the first  *)
(* DML statement takes SQLite's write lock, every invitee still 'pending'  *)
(* is mailed and marked in the transaction, and the commit comes last.     *)
(* Meanwhile readers see the rows as they were, and whoever else wants to  *)
(* write waits, up to busy_timeout.  resend mails first and writes then.   *)
(* table is what is committed, draft what the holder of the lock sees.     *)
(*                                                                         *)
(* A row is <<address, n>>, the n-th ever inserted for the address (taken  *)
(* in lower case, as the handlers compare it) in its meeting; a key is not *)
(* issued again, unless the transaction that issued it is rolled back.     *)
(* Requests without a list of invitees change none and are left out.       *)
(***************************************************************************)
EXTENDS Integers, FiniteSets

CONSTANTS
    Meetings,       \* ids of the rows of meetings
    Addresses,      \* email addresses
    Threads,        \* threads that serve requests
    None,           \* nobody, no row
    MailOn,         \* the setting O365_ENABLED
    MaxRows,        \* BOUND: rows ever inserted for an address of a meeting
    MaxMails,       \* BOUND: emails to one address about one meeting
    MaxCrashes      \* BOUND: deaths of a web process

ASSUME InvitationsAssumption ==
    /\ MailOn \in BOOLEAN
    /\ MaxRows \in Nat /\ MaxMails \in Nat /\ MaxCrashes \in Nat
    /\ None \notin Meetings /\ None \notin Threads
    /\ None \notin Addresses \X (1..MaxRows)

VARIABLES
    table,      \* meetings and meeting_invitees, as committed
    draft,      \* the same tables as the transaction in progress sees them
    writer,     \* the thread that holds the write lock
    web,        \* what each thread is doing
    mails,      \* emails delivered, by meeting and address
    crashes     \* web processes that died

vars == <<table, draft, writer, web, mails, crashes>>
----------------------------------------------------------------------------
Keys == Addresses \X (1..MaxRows)
EmailStatus == {"pending", "sent", "error"}
Tables == [status: [Meetings -> {"unused", "scheduled", "moved", "deleted"}],
           rows: [Meetings -> [Keys -> EmailStatus \cup {"unused", "deleted"}]]]

Changing == {"mail"}                                \* with the write lock
Resending == {"resend", "record", "failed"}         \* without it
ThreadState == [pc: {"free", "write"} \cup Changing \cup Resending,
                m: Meetings \cup {None},
                row: Keys \cup {None},              \* resend: the invitee read
                todo: SUBSET Keys]                  \* rows still to be mailed
Free == [pc |-> "free", m |-> None, row |-> None, todo |-> {}]

WellFormed(r) ==
    /\ r.pc # "free" => r.m \in Meetings
    /\ r.pc \in Resending => r.row \in Keys

TypeOK ==
    /\ table \in Tables /\ draft \in Tables
    /\ writer \in Threads \cup {None}
    /\ web \in [Threads -> ThreadState]
    /\ \A t \in Threads : WellFormed(web[t])
    /\ mails \in [Meetings -> [Addresses -> 0..MaxMails]]
    /\ crashes \in 0..MaxCrashes

EmptyTables == [status |-> [m \in Meetings |-> "unused"],
                rows |-> [m \in Meetings |-> [k \in Keys |-> "unused"]]]
Init ==
    /\ table = EmptyTables /\ draft = EmptyTables
    /\ writer = None
    /\ web = [t \in Threads |-> Free]
    /\ mails = [m \in Meetings |-> [a \in Addresses |-> 0]]
    /\ crashes = 0
----------------------------------------------------------------------------
Exists(db, m) == db.status[m] \in {"scheduled", "moved"}
Invited(db, m) == {k \in Keys : db.rows[m][k] \in EmailStatus}
With(db, m, s) == {k \in Keys : db.rows[m][k] = s}
SentTo(db, m) == {k[1] : k \in With(db, m, "sent")}

Goto(t, r) == web' = [web EXCEPT ![t] = r]
Reply(t) == Goto(t, Free)
Idle(t) == web[t].pc = "free"

(* UPDATE meeting_invitees SET email_status = s WHERE id = k.              *)
SetStatus(db, m, k, s) ==
    IF k \in Invited(db, m) THEN [db EXCEPT !.rows[m][k] = s] ELSE db

(* A statement that is a transaction of its own: it waits for the lock.    *)
CommitAtOnce(db) ==
    /\ writer = None
    /\ table' = db /\ draft' = db
    /\ UNCHANGED writer

(* The keys that INSERTs for the addresses L get.                          *)
NextKeys(db, m, L) ==
    {k \in Keys : /\ k[1] \in L
                  /\ db.rows[m][k] = "unused"
                  /\ \A i \in 1..(k[2] - 1) : db.rows[m][<<k[1], i>>] # "unused"}
CanInsert(db, m, L) == \A a \in L : \E i \in 1..MaxRows : db.rows[m][<<a, i>>] = "unused"

(* DELETE the rows of m and INSERT one for each address of L: who has been *)
(* mailed stays 'sent', everybody else is 'pending'.                       *)
KeptNobody(db, m) == {}              \* mutant of Kept
Kept(db, m) == SentTo(db, m)
NewRowsKept(db, m, L) ==            \* mutant of NewRows
    [k \in Keys |->
        IF k \in NextKeys(db, m, L) THEN IF k[1] \in Kept(db, m) THEN "sent" ELSE "pending"
        ELSE db.rows[m][k]]
NewRows(db, m, L) ==
    [k \in Keys |->
        IF k \in NextKeys(db, m, L) THEN IF k[1] \in Kept(db, m) THEN "sent" ELSE "pending"
        ELSE IF k \in Invited(db, m) THEN "deleted"
        ELSE db.rows[m][k]]

(* send_invites_for_meeting: the rows it selects.                          *)
ToMailEverybody(db, m) == IF MailOn THEN Invited(db, m) ELSE {}    \* mutant of ToMail
ToMailOnce(db, m) ==                                               \* mutant of ToMail
    IF MailOn THEN {k \in With(db, m, "pending") : k[2] = 1} ELSE {}
ToMail(db, m) == IF MailOn THEN With(db, m, "pending") ELSE {}

(* Thread t has the lock and has written the rows of m; it goes on to mail.*)
BeginMailing(t, m, db) ==
    /\ writer = None
    /\ writer' = t
    /\ draft' = db
    /\ Goto(t, [Free EXCEPT !.pc = "mail", !.m = m, !.todo = ToMail(db, m)])
    /\ UNCHANGED <<table, mails, crashes>>

(* POST /api/meetings.                                                     *)
Create(t, m, L) ==
    /\ Idle(t)
    /\ table.status[m] = "unused" /\ CanInsert(table, m, L)
    /\ BeginMailing(t, m, [table EXCEPT !.status[m] = "scheduled",
                                        !.rows[m] = NewRows(table, m, L)])

(* .../update, in any status.                                              *)
Update(t, m, L) ==
    /\ Idle(t)
    /\ Exists(table, m) /\ CanInsert(table, m, L)
    /\ BeginMailing(t, m, [table EXCEPT !.rows[m] = NewRows(table, m, L)])

(* .../edit: the status is read before the transaction begins; if the      *)
(* meeting is gone by then, the INSERTs fail.                              *)
EditRead(t, m) ==
    /\ Idle(t)
    /\ table.status[m] = "scheduled"
    /\ Goto(t, [Free EXCEPT !.pc = "write", !.m = m])
    /\ UNCHANGED <<table, draft, writer, mails, crashes>>

EditWrite(t, L) ==
    /\ web[t].pc = "write"
    /\ Exists(table, web[t].m) /\ CanInsert(table, web[t].m, L)
    /\ BeginMailing(t, web[t].m,
            [table EXCEPT !.rows[web[t].m] = NewRows(table, web[t].m, L)])

(* A call to Graph.  One that fails, or times out, may have been delivered.*)
Deliver(m, a) ==
    /\ mails[m][a] < MaxMails
    /\ mails' = [mails EXCEPT ![m][a] = @ + 1]
Call(m, a, ok) ==
    \/ MailOn /\ Deliver(m, a)
    \/ ~ok /\ UNCHANGED mails

(* One round of the loop of send_invites_for_meeting.                      *)
OutcomeOptimist(ok) == "sent"        \* mutant of Outcome
OutcomeUnknown(ok) == IF ok THEN "sent" ELSE "unknown"    \* mutant of Outcome
Outcome(ok) == IF ok THEN "sent" ELSE "error"
MailStopsAtError(t, k, ok) ==           \* mutant of Mail
    /\ web[t].pc = "mail" /\ k \in web[t].todo
    /\ Call(web[t].m, k[1], ok)
    /\ IF ok
       THEN /\ draft' = SetStatus(draft, web[t].m, k, "sent")
            /\ Goto(t, [web[t] EXCEPT !.todo = @ \ {k}])
            /\ UNCHANGED writer
       ELSE draft' = table /\ writer' = None /\ Reply(t)
    /\ UNCHANGED <<table, crashes>>

MailRetries(t, k, ok) ==                \* mutant of Mail
    /\ web[t].pc = "mail" /\ k \in web[t].todo
    /\ Call(web[t].m, k[1], ok)
    /\ draft' = SetStatus(draft, web[t].m, k, Outcome(ok))
    /\ Goto(t, [web[t] EXCEPT !.todo = IF ok THEN @ \ {k} ELSE @])
    /\ UNCHANGED <<table, writer, crashes>>

Mail(t, k, ok) ==
    /\ web[t].pc = "mail" /\ k \in web[t].todo
    /\ Call(web[t].m, k[1], ok)
    /\ draft' = SetStatus(draft, web[t].m, k, Outcome(ok))
    /\ Goto(t, [web[t] EXCEPT !.todo = @ \ {k}])
    /\ UNCHANGED <<table, writer, crashes>>

Commit(t) ==
    /\ web[t].pc = "mail" /\ web[t].todo = {}
    /\ table' = draft
    /\ writer' = None
    /\ Reply(t)
    /\ UNCHANGED <<draft, mails, crashes>>
----------------------------------------------------------------------------
(* .../invitees/<id>/resend: read, mail, then write by id.                 *)
Resend(t, m, k) ==
    /\ Idle(t)
    /\ Exists(table, m) /\ k \in Invited(table, m)
    /\ Goto(t, [Free EXCEPT !.pc = "resend", !.m = m, !.row = k])
    /\ UNCHANGED <<table, draft, writer, mails, crashes>>

ResendCall(t, ok) ==
    /\ web[t].pc = "resend"
    /\ ok => MailOn
    /\ Call(web[t].m, web[t].row[1], ok)
    /\ Goto(t, [web[t] EXCEPT !.pc = IF ok THEN "record" ELSE "failed"])
    /\ UNCHANGED <<table, draft, writer, crashes>>

ResendWrite(t) ==
    /\ web[t].pc \in {"record", "failed"}
    /\ CommitAtOnce(SetStatus(table, web[t].m, web[t].row, Outcome(web[t].pc = "record")))
    /\ Reply(t)
    /\ UNCHANGED <<mails, crashes>>

(* "database is locked", after busy_timeout: resend records an error, all  *)
(* others, and resend if it happens again, answer 500.                     *)
LockedOut(t) ==
    /\ writer \notin {None, t}
    /\ web[t].pc \in {"write", "record", "failed"}
    /\ IF web[t].pc = "record" THEN Goto(t, [web[t] EXCEPT !.pc = "failed"])
       ELSE Reply(t)
    /\ UNCHANGED <<table, draft, writer, mails, crashes>>

(* The meeting is gone when edit's transaction begins.                     *)
EditTooLate(t) ==
    /\ web[t].pc = "write"
    /\ ~Exists(table, web[t].m)
    /\ Reply(t)
    /\ UNCHANGED <<table, draft, writer, mails, crashes>>
----------------------------------------------------------------------------
Delete(m) ==
    /\ Exists(table, m)
    /\ CommitAtOnce([table EXCEPT !.status[m] = "deleted", !.rows[m] =
            [k \in Keys |-> IF k \in Invited(table, m) THEN "deleted" ELSE @[k]]])
    /\ UNCHANGED <<web, mails, crashes>>

(* The worker claims the meeting.                                          *)
Claimed(m) ==
    /\ table.status[m] = "scheduled"
    /\ CommitAtOnce([table EXCEPT !.status[m] = "moved"])
    /\ UNCHANGED <<web, mails, crashes>>

(* The process dies; SQLite rolls its transaction back.                    *)
Die(t) ==
    /\ crashes < MaxCrashes
    /\ ~Idle(t)
    /\ crashes' = crashes + 1
    /\ Reply(t)
    /\ IF writer = t THEN writer' = None /\ draft' = table
       ELSE UNCHANGED <<writer, draft>>
    /\ UNCHANGED <<table, mails>>

Begin(t) ==
    \E m \in Meetings :
        \/ \E L \in SUBSET Addresses : Create(t, m, L) \/ Update(t, m, L)
        \/ EditRead(t, m)
        \/ \E k \in Keys : Resend(t, m, k)

(* What a thread does until it has answered.                               *)
Serve(t) ==
    \/ \E L \in SUBSET Addresses : EditWrite(t, L)
    \/ \E k \in Keys, ok \in BOOLEAN : Mail(t, k, ok)
    \/ Commit(t)
    \/ \E ok \in BOOLEAN : ResendCall(t, ok)
    \/ ResendWrite(t)
    \/ LockedOut(t)
    \/ EditTooLate(t)

Next ==
    \/ \E t \in Threads : Begin(t) \/ Serve(t) \/ Die(t)
    \/ \E m \in Meetings : Delete(m) \/ Claimed(m)

Spec == Init /\ [][Next]_vars
FairSpec == Spec /\ \A t \in Threads : WF_vars(Serve(t))
----------------------------------------------------------------------------
(* Whoever a committed row calls 'sent' has been mailed about this meeting,*)
(* whatever failed, was repeated or was copied to a new row since.         *)
RecordedMeansMailed ==
    \A m \in Meetings : \A a \in SentTo(table, m) : mails[m][a] > 0

(* No address is on the list of a meeting twice although the schema has no *)
(* UNIQUE constraint: the lock is held from the DELETE to the commit.      *)
OneRowEach ==
    \A m \in Meetings : \A k, l \in Invited(table, m) : k[1] = l[1] => k = l

(* With email on, nobody is left waiting for an invitation: by the time a  *)
(* list is committed, every row of it has an outcome.                      *)
NobodyLeftPending ==
    MailOn => \A m \in Meetings : With(table, m, "pending") = {}

(* As long as no process has died, nobody has an email about a meeting     *)
(* that never listed them: no transaction is given up after it has mailed. *)
MailedIsKnown ==
    crashes = 0 => \A m \in Meetings, a \in Addresses :
        mails[m][a] > 0 => \E i \in 1..MaxRows : draft.rows[m][<<a, i>>] # "unused"

(* create, update and edit mail nobody who is recorded as mailed, not even *)
(* when a resend of another thread records it meanwhile.                   *)
NoSecondMail ==
    [][\A t \in Threads, m \in Meetings, a \in Addresses :
        web[t].pc = "mail" /\ web'[t] # web[t] /\ mails'[m][a] # mails[m][a]
            => a \notin SentTo(table, m)]_vars

(* What is recorded as sent stays recorded as long as the address is on    *)
(* the list, unless a resend failed.                                       *)
SentIsKept ==
    [][\A m \in Meetings : \A a \in SentTo(table, m) :
        \/ a \in SentTo(table', m)
        \/ a \notin {k[1] : k \in Invited(table', m)}
        \/ \E t \in Threads : web[t].pc = "failed" /\ web'[t] = Free]_vars

(* Every request is answered, and with that the write lock given back,     *)
(* however many emails fail and whoever waits for it.                      *)
EveryRequestAnswered == \A t \in Threads : ~Idle(t) ~> Idle(t)
=============================================================================
