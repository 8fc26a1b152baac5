-------------------------- MODULE InvitationsProofs --------------------------
(***************************************************************************)
(* Invitations' safety properties, for all sets of meetings, addresses and *)
(* threads and all bounds: whatever fails, is sent again, or dies half way *)
(* through a transaction.                                                  *)
(***************************************************************************)
EXTENDS Invitations, TLAPS

OneRow(db) ==
    \A m \in Meetings : \A k, l \in Invited(db, m) : k[1] = l[1] => k = l

SentIsMailed(db, delivered) ==
    \A m \in Meetings, k \in Keys :
        db.rows[m][k] = "sent" => delivered[m][k[1]] > 0

(* Nobody else writes while somebody mails.                                *)
Lock ==
    /\ writer = None => draft = table
    /\ \A t \in Threads : web[t].pc = "mail" <=> writer = t

(* What is recorded, or about to be recorded, has been delivered.          *)
Delivered ==
    /\ SentIsMailed(table, mails) /\ SentIsMailed(draft, mails)
    /\ \A t \in Threads : web[t].pc = "record" => mails[web[t].m][web[t].row[1]] > 0

(* Who is still to be mailed.                                              *)
Waiting ==
    \A t \in Threads : web[t].pc = "mail" =>
        /\ \A k \in web[t].todo : k[1] \notin SentTo(table, web[t].m)
        /\ MailOn => \A m \in Meetings, k \in Keys :
                draft.rows[m][k] = "pending" => m = web[t].m /\ k \in web[t].todo

IInv == TypeOK /\ Lock /\ OneRow(table) /\ OneRow(draft) /\ Delivered /\ Waiting /\ NobodyLeftPending
----------------------------------------------------------------------------
(***************************************************************************)
(* The operators on tables.                                                *)
(***************************************************************************)
LEMMA KeyFacts ==
    ASSUME NEW k \in Keys
    PROVE  /\ k[1] \in Addresses /\ k[2] \in 1..MaxRows
           /\ k = <<k[1], k[2]>> /\ k # None
  BY InvitationsAssumption DEF Keys

(* Each address is inserted under one key, an unused one.                  *)
LEMMA NextKeysUnique ==
    ASSUME NEW db \in Tables, NEW m \in Meetings, NEW L,
           NEW k \in NextKeys(db, m, L), NEW l \in NextKeys(db, m, L), k[1] = l[1]
    PROVE  k = l
  <1>k. k \in Keys /\ l \in Keys
    BY DEF NextKeys
  <1>1. ~(k[2] < l[2])
    <2> SUFFICES ASSUME k[2] < l[2] PROVE FALSE
      OBVIOUS
    <2>1. k[2] \in 1..(l[2] - 1)
      BY <1>k, KeyFacts, InvitationsAssumption
    <2> QED BY <2>1, <1>k, KeyFacts DEF NextKeys
  <1>2. ~(l[2] < k[2])
    <2> SUFFICES ASSUME l[2] < k[2] PROVE FALSE
      OBVIOUS
    <2>1. l[2] \in 1..(k[2] - 1)
      BY <1>k, KeyFacts, InvitationsAssumption
    <2> QED BY <2>1, <1>k, KeyFacts DEF NextKeys
  <1> QED BY <1>1, <1>2, <1>k, KeyFacts, InvitationsAssumption

(* A new list of invitees: one row for each, 'sent' if the old list had it *)
(* so, and else 'pending'.                                                 *)
LEMMA NewRowsFacts ==
    ASSUME NEW db \in Tables, NEW m \in Meetings, NEW L, NEW new \in Tables,
           new.rows[m] = NewRows(db, m, L),
           \A n \in Meetings \ {m} : new.rows[n] = db.rows[n]
    PROVE  /\ OneRow(db) => OneRow(new)
           /\ \A delivered : SentIsMailed(db, delivered) => SentIsMailed(new, delivered)
           /\ \A k \in Keys : new.rows[m][k] = "pending" => k[1] \notin SentTo(db, m)
  <1>1. Invited(new, m) = NextKeys(db, m, L)
    BY DEF Invited, NewRows, NextKeys, EmailStatus
  <1>2. \A n \in Meetings \ {m} : Invited(new, n) = Invited(db, n)
    BY DEF Invited
  <1>3. OneRow(db) => OneRow(new)
    BY <1>1, <1>2, NextKeysUnique DEF OneRow
  <1>4. \A k \in Keys :
            /\ new.rows[m][k] = "sent" => k[1] \in SentTo(db, m)
            /\ new.rows[m][k] = "pending" => k[1] \notin SentTo(db, m)
    <2>1. ASSUME NEW k \in NextKeys(db, m, L)
          PROVE  new.rows[m][k] = IF k[1] \in SentTo(db, m) THEN "sent" ELSE "pending"
      BY DEF NewRows, NextKeys, Kept
    <2>2. ASSUME NEW k \in Keys \ NextKeys(db, m, L)
          PROVE  new.rows[m][k] \notin {"sent", "pending"}
      BY <1>1 DEF Invited, EmailStatus
    <2> QED BY <2>1, <2>2
  <1>5. ASSUME NEW delivered, SentIsMailed(db, delivered) PROVE SentIsMailed(new, delivered)
    <2> SUFFICES ASSUME NEW n \in Meetings, NEW k \in Keys, new.rows[n][k] = "sent"
                 PROVE  delivered[n][k[1]] > 0
      BY DEF SentIsMailed
    <2>1. CASE n # m
      BY <1>5, <2>1 DEF SentIsMailed
    <2>2. CASE n = m
      <3>1. k[1] \in SentTo(db, m)
        BY <1>4, <2>2
      <3>2. PICK l \in With(db, m, "sent") : l[1] = k[1]
        BY <3>1 DEF SentTo
      <3>3. delivered[m][l[1]] > 0
        BY <1>5 DEF SentIsMailed, With
      <3> QED BY <2>2, <3>2, <3>3
    <2> QED BY <2>1, <2>2
  <1> QED BY <1>3, <1>4, <1>5

LEMMA NewRowsType ==
    ASSUME NEW db \in Tables, NEW m \in Meetings, NEW L
    PROVE  NewRows(db, m, L) \in [Keys -> EmailStatus \cup {"unused", "deleted"}]
  BY DEF NewRows, Tables, EmailStatus

(* SetStatus changes one row, if it is there, and inserts and deletes none.*)
LEMMA SetStatusFacts ==
    ASSUME NEW db \in Tables, NEW m \in Meetings, NEW k \in Keys, NEW s \in EmailStatus
    PROVE  /\ SetStatus(db, m, k, s) \in Tables
           /\ \A n \in Meetings : Invited(SetStatus(db, m, k, s), n) = Invited(db, n)
           /\ \A n \in Meetings, l \in Keys :
                SetStatus(db, m, k, s).rows[n][l] =
                    IF n = m /\ l = k /\ k \in Invited(db, m) THEN s ELSE db.rows[n][l]
  <1>1. SetStatus(db, m, k, s) \in Tables
    BY DEF SetStatus, Tables, EmailStatus
  <1>2. \A n \in Meetings, l \in Keys :
            SetStatus(db, m, k, s).rows[n][l] =
                IF n = m /\ l = k /\ k \in Invited(db, m) THEN s ELSE db.rows[n][l]
    BY DEF SetStatus, Tables
  <1>3. \A n \in Meetings : Invited(SetStatus(db, m, k, s), n) = Invited(db, n)
    BY <1>2 DEF Invited
  <1> QED BY <1>1, <1>2, <1>3

(* So it keeps the rows unique and, if the address was mailed, truthful.   *)
LEMMA SetStatusKeeps ==
    ASSUME NEW db \in Tables, NEW m \in Meetings, NEW k \in Keys, NEW s \in EmailStatus,
           NEW delivered, s = "sent" => delivered[m][k[1]] > 0
    PROVE  /\ OneRow(db) => OneRow(SetStatus(db, m, k, s))
           /\ SentIsMailed(db, delivered) => SentIsMailed(SetStatus(db, m, k, s), delivered)
  BY SetStatusFacts DEF OneRow, SentIsMailed

(* Calls to Graph only add to what has been delivered.                     *)
LEMMA CallFacts ==
    ASSUME TypeOK, NEW m \in Meetings, NEW a \in Addresses, NEW ok \in BOOLEAN, Call(m, a, ok)
    PROVE  /\ mails' \in [Meetings -> [Addresses -> 0..MaxMails]]
           /\ \A n \in Meetings, b \in Addresses :
                /\ mails'[n][b] >= mails[n][b]
                /\ mails'[n][b] # mails[n][b] => n = m /\ b = a
           /\ ok => mails'[m][a] > 0
  BY InvitationsAssumption DEF Call, Deliver, TypeOK

LEMMA MailedMonotone ==
    ASSUME NEW db \in Tables, TypeOK, mails' \in [Meetings -> [Addresses -> 0..MaxMails]],
           \A n \in Meetings, b \in Addresses : mails'[n][b] >= mails[n][b],
           SentIsMailed(db, mails)
    PROVE  SentIsMailed(db, mails')
  <1> SUFFICES ASSUME NEW m \in Meetings, NEW k \in Keys, db.rows[m][k] = "sent"
               PROVE  mails'[m][k[1]] > 0
    BY DEF SentIsMailed
  <1>1. k[1] \in Addresses /\ mails[m][k[1]] > 0
    BY KeyFacts DEF SentIsMailed
  <1>2. mails[m][k[1]] \in Nat /\ mails'[m][k[1]] \in Nat /\ mails'[m][k[1]] >= mails[m][k[1]]
    BY <1>1, InvitationsAssumption DEF TypeOK
  <1> QED BY <1>1, <1>2
----------------------------------------------------------------------------
(***************************************************************************)
(* The invariant holds at first, and every step keeps it.                  *)
(***************************************************************************)
LEMMA InitIInv == Init => IInv
  <1> SUFFICES ASSUME Init PROVE IInv
    OBVIOUS
  <1>1. TypeOK
    <2>1. EmptyTables \in Tables
      BY DEF EmptyTables, Tables
    <2>2. Free \in ThreadState /\ Free.pc = "free"
      BY DEF Free, ThreadState
    <2>3. mails \in [Meetings -> [Addresses -> 0..MaxMails]]
      BY InvitationsAssumption DEF Init
    <2> QED BY <2>1, <2>2, <2>3, InvitationsAssumption DEF Init, TypeOK, WellFormed, Resending
  <1>2. \A m \in Meetings, k \in Keys : table.rows[m][k] = "unused"
    BY DEF Init, EmptyTables
  <1>3. Lock
    BY InvitationsAssumption DEF Init, Lock, Free
  <1>4. OneRow(table) /\ OneRow(draft)
    BY <1>2 DEF Init, OneRow, Invited, EmailStatus
  <1>5. Delivered /\ Waiting
    BY <1>2 DEF Init, Delivered, Waiting, SentIsMailed, Free
  <1>6. NobodyLeftPending
    BY <1>2 DEF NobodyLeftPending, With
  <1> QED BY <1>1, <1>3, <1>4, <1>5, <1>6 DEF IInv

LEMMA ThreadTypes ==
    ASSUME TypeOK, NEW t \in Threads
    PROVE  /\ web[t] \in ThreadState
           /\ web[t].pc # "free" => web[t].m \in Meetings
           /\ web[t].pc \in Resending => web[t].row \in Keys
           /\ Free \in ThreadState /\ Free.pc = "free"
           /\ t # None
  BY InvitationsAssumption DEF TypeOK, WellFormed, ThreadState, Free

(* A thread takes the lock, writes the rows of a meeting, and goes on to   *)
(* mail: all those, and only those, who have no email about it yet.        *)
LEMMA BeginMailingStep ==
    ASSUME IInv, NEW t \in Threads, NEW m \in Meetings, NEW L, NEW db \in Tables,
           db.rows[m] = NewRows(table, m, L),
           \A n \in Meetings \ {m} : db.rows[n] = table.rows[n],
           BeginMailing(t, m, db)
    PROVE  IInv'
  <1> DEFINE r == [Free EXCEPT !.pc = "mail", !.m = m, !.todo = ToMail(db, m)]
  <1> USE DEF IInv
  <1>b. /\ writer = None /\ writer' = t /\ draft' = db
        /\ web' = [web EXCEPT ![t] = r]
        /\ UNCHANGED <<table, mails, crashes>>
    BY DEF BeginMailing, Goto
  <1>r. r \in ThreadState /\ r.pc = "mail" /\ r.m = m /\ r.todo = ToMail(db, m)
    BY DEF ThreadState, Free, Changing, ToMail, With
  <1>t. t # None /\ \A s \in Threads : web[s].pc # "mail"
    BY <1>b, InvitationsAssumption DEF Lock
  <1>w. web'[t] = r /\ \A s \in Threads \ {t} : web'[s] = web[s]
    BY <1>b DEF TypeOK
  <1>n. /\ OneRow(db) /\ SentIsMailed(db, mails)
        /\ \A k \in Keys : db.rows[m][k] = "pending" => k[1] \notin SentTo(table, m)
        /\ \A n \in Meetings \ {m} : db.rows[n] = table.rows[n]
    <2>1. table \in Tables /\ SentIsMailed(table, mails)
      BY DEF TypeOK, Delivered
    <2>2. /\ OneRow(table) => OneRow(db)
          /\ SentIsMailed(table, mails) => SentIsMailed(db, mails)
          /\ \A k \in Keys : db.rows[m][k] = "pending" => k[1] \notin SentTo(table, m)
      BY <2>1, NewRowsFacts
    <2> QED BY <2>1, <2>2
  <1>1. TypeOK'
    BY <1>b, <1>r, <1>w DEF TypeOK, WellFormed, Resending
  <1>2. Lock'
    BY <1>b, <1>r, <1>t, <1>w DEF Lock
  <1>3. OneRow(table)' /\ OneRow(draft)'
    BY <1>b, <1>n DEF OneRow, Invited
  <1>4. Delivered'
    BY <1>b, <1>r, <1>n, <1>w DEF Delivered, SentIsMailed
  <1>5. NobodyLeftPending'
    BY <1>b DEF NobodyLeftPending, With
  <1>6. Waiting'
    <2>1. \A k \in r.todo : k[1] \notin SentTo(table, m)
      BY <1>r, <1>n DEF ToMail, With
    <2>2. ASSUME MailOn, NEW n \in Meetings, NEW k \in Keys, db.rows[n][k] = "pending"
          PROVE  n = m /\ k \in r.todo
      <3>1. n = m
        BY <2>2, <1>n DEF NobodyLeftPending, With
      <3> QED BY <2>2, <3>1, <1>r DEF ToMail, With
    <2>3. \A s \in Threads : web'[s].pc = "mail" => s = t
      BY <1>t, <1>w
    <2>4. \A n \in Meetings : SentTo(table, n)' = SentTo(table, n)
      BY <1>b DEF SentTo, With
    <2> QED BY <1>b, <1>r, <1>w, <2>1, <2>2, <2>3, <2>4 DEF Waiting
  <1> QED BY <1>1, <1>2, <1>3, <1>4, <1>5, <1>6
(* A step of a thread that has no lock and takes none: what was delivered  *)
(* stays delivered, and a resend knows what it is about to record.         *)
LEMMA OffTheLock ==
    ASSUME IInv, NEW t \in Threads, NEW r \in ThreadState, WellFormed(r),
           web[t].pc # "mail", r.pc # "mail", web' = [web EXCEPT ![t] = r],
           r.pc = "record" => mails'[r.m][r.row[1]] > 0,
           mails' \in [Meetings -> [Addresses -> 0..MaxMails]],
           \A n \in Meetings, b \in Addresses : mails'[n][b] >= mails[n][b],
           crashes' \in 0..MaxCrashes,
           UNCHANGED <<table, draft, writer>>
    PROVE  IInv'
  <1> USE DEF IInv
  <1>w. web'[t] = r /\ \A s \in Threads \ {t} : web'[s] = web[s]
    BY DEF TypeOK
  <1>1. TypeOK'
    BY <1>w DEF TypeOK, WellFormed
  <1>2. Lock'
    BY <1>w DEF Lock
  <1>3. OneRow(table)' /\ OneRow(draft)' /\ NobodyLeftPending'
    BY DEF OneRow, Invited, NobodyLeftPending, With
  <1>4. Delivered'
    <2>1. SentIsMailed(table, mails') /\ SentIsMailed(draft, mails')
      BY MailedMonotone DEF TypeOK, Delivered
    <2>2. ASSUME NEW s \in Threads \ {t}, web[s].pc = "record"
          PROVE  mails'[web[s].m][web[s].row[1]] > 0
      <3>1. web[s].m \in Meetings /\ web[s].row[1] \in Addresses
        BY <2>2, ThreadTypes, KeyFacts DEF Resending
      <3>2. /\ mails[web[s].m][web[s].row[1]] \in Nat
            /\ mails'[web[s].m][web[s].row[1]] \in Nat
        BY <3>1, InvitationsAssumption DEF TypeOK
      <3> QED BY <2>2, <3>1, <3>2 DEF Delivered
    <2>3. \A s \in Threads : web'[s].pc = "record" => mails'[web'[s].m][web'[s].row[1]] > 0
      BY <1>w, <2>2
    <2> QED BY <2>1, <2>3 DEF Delivered, SentIsMailed
  <1>5. Waiting'
    BY <1>w DEF Waiting, SentTo, With
  <1> QED BY <1>1, <1>2, <1>3, <1>4, <1>5

(* A statement that is a transaction of its own, perhaps a thread's last.  *)
LEMMA CommitAtOnceStep ==
    ASSUME IInv, NEW db \in Tables, OneRow(db), SentIsMailed(db, mails),
           MailOn => \A m \in Meetings : With(db, m, "pending") = {},
           CommitAtOnce(db),
           \A t \in Threads : web'[t] \in {web[t], Free},
           web' \in [Threads -> ThreadState],
           UNCHANGED <<mails, crashes>>
    PROVE  IInv'
  <1> USE DEF IInv
  <1>w. /\ writer = None /\ writer' = None /\ table' = db /\ draft' = db
        /\ \A t \in Threads : web[t].pc # "mail" /\ web'[t].pc # "mail"
    BY InvitationsAssumption DEF CommitAtOnce, Lock, Free
  <1>1. TypeOK'
    BY <1>w DEF TypeOK, WellFormed, Free, Resending
  <1>2. Lock'
    BY <1>w, InvitationsAssumption DEF Lock
  <1>3. OneRow(table)' /\ OneRow(draft)' /\ NobodyLeftPending'
    BY <1>w DEF OneRow, Invited, NobodyLeftPending, With
  <1>4. Delivered'
    BY <1>w DEF Delivered, SentIsMailed, Free
  <1>5. Waiting'
    BY <1>w DEF Waiting
  <1> QED BY <1>1, <1>2, <1>3, <1>4, <1>5
----------------------------------------------------------------------------
(* The requests, as they begin.                                            *)
LEMMA BeginStep ==
    ASSUME IInv, NEW t \in Threads, Begin(t)
    PROVE  IInv'
  <1> USE DEF IInv
  <1>t. /\ table \in Tables /\ mails \in [Meetings -> [Addresses -> 0..MaxMails]]
        /\ \A n \in Meetings, b \in Addresses : mails[n][b] >= mails[n][b]
        /\ crashes \in 0..MaxCrashes
    BY InvitationsAssumption DEF TypeOK
  <1>1. ASSUME NEW m \in Meetings, NEW L \in SUBSET Addresses, Create(t, m, L) PROVE IInv'
    <2> DEFINE db == [table EXCEPT !.status[m] = "scheduled", !.rows[m] = NewRows(table, m, L)]
    <2>1. db \in Tables
      BY <1>t, NewRowsType DEF Tables
    <2>2. db.rows[m] = NewRows(table, m, L) /\ \A n \in Meetings \ {m} : db.rows[n] = table.rows[n]
      BY <1>t DEF Tables
    <2>3. BeginMailing(t, m, db)
      BY <1>1 DEF Create
    <2> HIDE DEF db
    <2> QED BY <2>1, <2>2, <2>3, BeginMailingStep
  <1>2. ASSUME NEW m \in Meetings, NEW L \in SUBSET Addresses, Update(t, m, L) PROVE IInv'
    <2> DEFINE db == [table EXCEPT !.rows[m] = NewRows(table, m, L)]
    <2>1. db \in Tables
      BY <1>t, NewRowsType DEF Tables
    <2>2. db.rows[m] = NewRows(table, m, L) /\ \A n \in Meetings \ {m} : db.rows[n] = table.rows[n]
      BY <1>t DEF Tables
    <2>3. BeginMailing(t, m, db)
      BY <1>2 DEF Update
    <2> HIDE DEF db
    <2> QED BY <2>1, <2>2, <2>3, BeginMailingStep
  <1>3. ASSUME NEW m \in Meetings, EditRead(t, m) PROVE IInv'
    <2> DEFINE r == [Free EXCEPT !.pc = "write", !.m = m]
    <2>1. r \in ThreadState /\ WellFormed(r) /\ r.pc = "write"
      BY DEF ThreadState, WellFormed, Free, Resending
    <2> QED BY <1>3, <1>t, <2>1, OffTheLock DEF EditRead, Idle, Goto
  <1>4. ASSUME NEW m \in Meetings, NEW k \in Keys, Resend(t, m, k) PROVE IInv'
    <2> DEFINE r == [Free EXCEPT !.pc = "resend", !.m = m, !.row = k]
    <2>1. r \in ThreadState /\ WellFormed(r) /\ r.pc = "resend"
      BY DEF ThreadState, WellFormed, Free, Resending
    <2> QED BY <1>4, <1>t, <2>1, OffTheLock DEF Resend, Idle, Goto
  <1> QED BY <1>1, <1>2, <1>3, <1>4 DEF Begin

(* An email of the transaction in progress.                                *)
LEMMA MailStep ==
    ASSUME IInv, NEW t \in Threads, NEW k \in Keys, NEW ok \in BOOLEAN, Mail(t, k, ok)
    PROVE  IInv'
  <1> DEFINE m == web[t].m
             r == [web[t] EXCEPT !.todo = @ \ {k}]
  <1> USE DEF IInv
  <1>w. /\ web[t].pc = "mail" /\ k \in web[t].todo /\ writer = t
        /\ web[t] \in ThreadState /\ m \in Meetings /\ k[1] \in Addresses
        /\ draft \in Tables /\ Outcome(ok) \in EmailStatus
        /\ \A s \in Threads \ {t} : web[s].pc # "mail"
    BY ThreadTypes, KeyFacts DEF Mail, Lock, TypeOK, Outcome, EmailStatus
  <1>b. /\ draft' = SetStatus(draft, m, k, Outcome(ok)) /\ web' = [web EXCEPT ![t] = r]
        /\ Call(m, k[1], ok)
        /\ UNCHANGED <<table, writer, crashes>>
    BY DEF Mail, Goto
  <1>r. /\ r \in ThreadState /\ r.pc = "mail" /\ r.m = m /\ r.todo = web[t].todo \ {k}
        /\ web'[t] = r /\ \A s \in Threads \ {t} : web'[s] = web[s]
    BY <1>w, <1>b DEF ThreadState, TypeOK
  <1>c. /\ mails' \in [Meetings -> [Addresses -> 0..MaxMails]]
        /\ \A n \in Meetings, b \in Addresses : mails'[n][b] >= mails[n][b]
        /\ ok => mails'[m][k[1]] > 0
    BY <1>w, <1>b, CallFacts
  <1> HIDE DEF m, r
  <1>1. TypeOK'
    BY <1>w, <1>b, <1>r, <1>c, SetStatusFacts DEF TypeOK, WellFormed, Resending
  <1>2. Lock'
    BY <1>w, <1>b, <1>r, InvitationsAssumption DEF Lock
  <1>3. OneRow(table)' /\ NobodyLeftPending'
    BY <1>b DEF OneRow, Invited, NobodyLeftPending, With
  <1>4. OneRow(draft') /\ SentIsMailed(draft', mails') /\ SentIsMailed(table, mails')
    <2>1. SentIsMailed(table, mails') /\ SentIsMailed(draft, mails')
      BY <1>c, MailedMonotone DEF TypeOK, Delivered
    <2>2. Outcome(ok) = "sent" => mails'[m][k[1]] > 0
      BY <1>c DEF Outcome
    <2> QED BY <1>w, <1>b, <2>1, <2>2, SetStatusKeeps
  <1>5. Delivered'
    <2>1. ASSUME NEW s \in Threads, web'[s].pc = "record"
          PROVE  mails'[web'[s].m][web'[s].row[1]] > 0
      <3>1. s # t /\ web'[s] = web[s]
        BY <1>r, <2>1
      <3>2. web[s].m \in Meetings /\ web[s].row[1] \in Addresses
        BY <2>1, <3>1, ThreadTypes, KeyFacts DEF Resending
      <3>3. /\ mails[web[s].m][web[s].row[1]] \in Nat
            /\ mails'[web[s].m][web[s].row[1]] \in Nat
        BY <1>c, <3>2, InvitationsAssumption DEF TypeOK
      <3> QED BY <1>c, <2>1, <3>1, <3>2, <3>3 DEF Delivered
    <2> QED BY <1>b, <1>4, <2>1 DEF Delivered, SentIsMailed
  <1>6. Waiting'
    <2>1. ASSUME MailOn, NEW n \in Meetings, NEW l \in Keys, draft'.rows[n][l] = "pending"
          PROVE  n = m /\ l \in r.todo
      <3>1. Outcome(ok) # "pending"
        BY DEF Outcome
      <3>2. draft'.rows[n][l] =
                IF n = m /\ l = k /\ k \in Invited(draft, m) THEN Outcome(ok) ELSE draft.rows[n][l]
        BY <1>w, <1>b, SetStatusFacts
      <3>3. draft.rows[n][l] = "pending" /\ ~(n = m /\ l = k)
        BY <2>1, <3>1, <3>2 DEF Invited, EmailStatus
      <3> QED BY <1>w, <1>r, <2>1, <3>3 DEF Waiting, m
    <2>2. \A l \in r.todo : l[1] \notin SentTo(table, m)
      BY <1>w, <1>r DEF Waiting, m
    <2>3. \A n \in Meetings : SentTo(table, n)' = SentTo(table, n)
      BY <1>b DEF SentTo, With
    <2> QED BY <1>w, <1>r, <2>1, <2>2, <2>3 DEF Waiting
  <1>7. OneRow(draft)'
    BY <1>4 DEF OneRow, Invited
  <1> QED BY <1>1, <1>2, <1>3, <1>5, <1>6, <1>7

(* The end of the transaction, or of the process.                          *)
LEMMA CommitStep ==
    ASSUME IInv, NEW t \in Threads, Commit(t)
    PROVE  IInv'
  <1> USE DEF IInv
  <1>w. /\ web[t].pc = "mail" /\ web[t].todo = {} /\ writer = t
        /\ table' = draft /\ writer' = None
        /\ web' = [web EXCEPT ![t] = Free] /\ UNCHANGED <<draft, mails, crashes>>
        /\ \A s \in Threads \ {t} : web[s].pc # "mail" /\ web'[s] = web[s]
        /\ web'[t] = Free
    BY DEF Commit, Lock, Reply, Goto, TypeOK
  <1>1. TypeOK'
    BY <1>w, ThreadTypes DEF TypeOK, WellFormed, Resending
  <1>2. Lock'
    BY <1>w, InvitationsAssumption DEF Lock, Free
  <1>3. OneRow(table)' /\ OneRow(draft)'
    BY <1>w DEF OneRow, Invited
  <1>4. Delivered' /\ Waiting'
    BY <1>w DEF Delivered, Waiting, SentIsMailed, Free
  <1>5. NobodyLeftPending'
    BY <1>w DEF NobodyLeftPending, Waiting, With
  <1> QED BY <1>1, <1>2, <1>3, <1>4, <1>5

LEMMA DieStep ==
    ASSUME IInv, NEW t \in Threads, Die(t)
    PROVE  IInv'
  <1> USE DEF IInv
  <1>w. /\ web' = [web EXCEPT ![t] = Free] /\ web'[t] = Free
        /\ \A s \in Threads \ {t} : web'[s] = web[s]
        /\ UNCHANGED <<table, mails>> /\ crashes' \in 0..MaxCrashes
        /\ mails \in [Meetings -> [Addresses -> 0..MaxMails]]
        /\ \A n \in Meetings, b \in Addresses : mails[n][b] >= mails[n][b]
    BY InvitationsAssumption DEF Die, Reply, Goto, TypeOK
  <1>1. CASE writer # t
    <2>1. web[t].pc # "mail" /\ UNCHANGED <<draft, writer>>
      BY <1>1 DEF Die, Lock
    <2>2. Free \in ThreadState /\ WellFormed(Free) /\ Free.pc = "free"
      BY ThreadTypes DEF WellFormed, Resending
    <2> QED BY <1>w, <2>1, <2>2, OffTheLock
  <1>2. CASE writer = t
    <2>w. /\ writer' = None /\ draft' = table
          /\ \A s \in Threads \ {t} : web[s].pc # "mail"
      BY <1>2 DEF Die, Lock
    <2>1. TypeOK'
      BY <1>w, <2>w, ThreadTypes DEF TypeOK, WellFormed, Resending
    <2>2. Lock'
      BY <1>w, <2>w, InvitationsAssumption DEF Lock, Free
    <2>3. OneRow(table)' /\ OneRow(draft)' /\ NobodyLeftPending'
      BY <1>w, <2>w DEF OneRow, Invited, NobodyLeftPending, With
    <2>4. Delivered' /\ Waiting'
      BY <1>w, <2>w DEF Delivered, Waiting, SentIsMailed, Free
    <2> QED BY <2>1, <2>2, <2>3, <2>4
  <1> QED BY <1>1, <1>2
(* The steps of a request after its first.                                 *)
LEMMA ServeStep ==
    ASSUME IInv, NEW t \in Threads, Serve(t)
    PROVE  IInv'
  <1> USE DEF IInv
  <1>t. /\ table \in Tables /\ mails \in [Meetings -> [Addresses -> 0..MaxMails]]
        /\ \A n \in Meetings, b \in Addresses : mails[n][b] >= mails[n][b]
        /\ crashes \in 0..MaxCrashes
        /\ web[t] \in ThreadState /\ web \in [Threads -> ThreadState]
        /\ Free \in ThreadState /\ WellFormed(Free) /\ Free.pc = "free"
    BY ThreadTypes, InvitationsAssumption DEF TypeOK, WellFormed, Resending
  <1>1. ASSUME NEW L \in SUBSET Addresses, EditWrite(t, L) PROVE IInv'
    <2> DEFINE m == web[t].m
               db == [table EXCEPT !.rows[m] = NewRows(table, m, L)]
    <2>0. m \in Meetings
      BY <1>1, ThreadTypes DEF EditWrite
    <2>1. db \in Tables
      BY <1>t, <2>0, NewRowsType DEF Tables
    <2>2. db.rows[m] = NewRows(table, m, L) /\ \A n \in Meetings \ {m} : db.rows[n] = table.rows[n]
      BY <1>t, <2>0 DEF Tables
    <2>3. BeginMailing(t, m, db)
      BY <1>1 DEF EditWrite
    <2> HIDE DEF db, m
    <2> QED BY <2>0, <2>1, <2>2, <2>3, BeginMailingStep
  <1>2. ASSUME NEW ok \in BOOLEAN, ResendCall(t, ok) PROVE IInv'
    <2> DEFINE r == [web[t] EXCEPT !.pc = IF ok THEN "record" ELSE "failed"]
    <2>1. /\ web[t].pc = "resend" /\ Call(web[t].m, web[t].row[1], ok)
          /\ web' = [web EXCEPT ![t] = r] /\ UNCHANGED <<table, draft, writer, crashes>>
      BY <1>2 DEF ResendCall, Goto
    <2>2. web[t].m \in Meetings /\ web[t].row \in Keys /\ web[t].row[1] \in Addresses
      BY <2>1, ThreadTypes, KeyFacts DEF Resending
    <2>3. /\ r \in ThreadState /\ r.m = web[t].m /\ r.row = web[t].row
          /\ r.pc = IF ok THEN "record" ELSE "failed"
      BY <1>t DEF ThreadState, Resending
    <2>4. WellFormed(r)
      BY <2>2, <2>3 DEF WellFormed
    <2>5. /\ mails' \in [Meetings -> [Addresses -> 0..MaxMails]]
          /\ \A n \in Meetings, b \in Addresses : mails'[n][b] >= mails[n][b]
          /\ ok => mails'[web[t].m][web[t].row[1]] > 0
      BY <2>1, <2>2, CallFacts
    <2> HIDE DEF r
    <2>6. r.pc = "record" => mails'[r.m][r.row[1]] > 0
      BY <2>3, <2>5
    <2>7. r.pc # "mail"
      BY <2>3
    <2> QED BY <1>t, <2>1, <2>3, <2>4, <2>5, <2>6, <2>7, OffTheLock
  <1>3. CASE ResendWrite(t)
    <2> DEFINE s == Outcome(web[t].pc = "record")
               db == SetStatus(table, web[t].m, web[t].row, s)
    <2>1. /\ web[t].pc \in {"record", "failed"} /\ CommitAtOnce(db)
          /\ web' = [web EXCEPT ![t] = Free] /\ UNCHANGED <<mails, crashes>>
      BY <1>3 DEF ResendWrite, Reply, Goto
    <2>2. web[t].m \in Meetings /\ web[t].row \in Keys
      BY <2>1, ThreadTypes DEF Resending
    <2>3. s \in {"sent", "error"} /\ (s = "sent" => mails[web[t].m][web[t].row[1]] > 0)
      BY <2>1 DEF Outcome, Delivered
    <2>4. s \in EmailStatus /\ s # "pending"
      BY <2>3 DEF EmailStatus
    <2> HIDE DEF s
    <2>5. OneRow(db) /\ SentIsMailed(db, mails)
      BY <1>t, <2>2, <2>3, <2>4, SetStatusKeeps DEF Delivered
    <2>6. db \in Tables
      BY <1>t, <2>2, <2>4, SetStatusFacts
    <2>7. MailOn => \A n \in Meetings : With(db, n, "pending") = {}
      <3>1. \A n \in Meetings, l \in Keys :
                db.rows[n][l] = IF n = web[t].m /\ l = web[t].row /\ web[t].row \in Invited(table, web[t].m)
                                THEN s ELSE table.rows[n][l]
        BY <1>t, <2>2, <2>4, SetStatusFacts
      <3> QED BY <2>4, <3>1 DEF NobodyLeftPending, With
    <2> HIDE DEF db
    <2>8. web' \in [Threads -> ThreadState] /\ \A u \in Threads : web'[u] \in {web[u], Free}
      BY <1>t, <2>1
    <2> QED BY <2>1, <2>5, <2>6, <2>7, <2>8, CommitAtOnceStep
  <1>4. CASE LockedOut(t)
    <2>1. web[t].pc # "mail" /\ UNCHANGED <<table, draft, writer, mails, crashes>>
      BY <1>4 DEF LockedOut
    <2>2. CASE web[t].pc = "record"
      <3> DEFINE r == [web[t] EXCEPT !.pc = "failed"]
      <3>1. web' = [web EXCEPT ![t] = r]
        BY <1>4, <2>2 DEF LockedOut, Goto
      <3>2. r \in ThreadState /\ r.pc = "failed" /\ r.m = web[t].m /\ r.row = web[t].row
        BY <1>t DEF ThreadState, Resending
      <3>3. WellFormed(r)
        BY <2>2, <3>2, ThreadTypes DEF WellFormed, Resending
      <3> HIDE DEF r
      <3> QED BY <1>t, <2>1, <3>1, <3>2, <3>3, OffTheLock
    <2>3. CASE web[t].pc # "record"
      <3>1. web' = [web EXCEPT ![t] = Free]
        BY <1>4, <2>3 DEF LockedOut, Reply, Goto
      <3> QED BY <1>t, <2>1, <3>1, OffTheLock
    <2> QED BY <2>2, <2>3
  <1>5. CASE EditTooLate(t)
    <2>1. /\ web[t].pc # "mail" /\ web' = [web EXCEPT ![t] = Free]
          /\ UNCHANGED <<table, draft, writer, mails, crashes>>
      BY <1>5 DEF EditTooLate, Reply, Goto
    <2> QED BY <1>t, <2>1, OffTheLock
  <1> QED BY <1>1, <1>2, <1>3, <1>4, <1>5, MailStep, CommitStep DEF Serve

(* Deletions, and the worker's claims.                                     *)
LEMMA OthersStep ==
    ASSUME IInv, NEW m \in Meetings, Delete(m) \/ Claimed(m)
    PROVE  IInv'
  <1> USE DEF IInv
  <1>t. table \in Tables /\ web \in [Threads -> ThreadState]
    BY DEF TypeOK
  <1>1. CASE Delete(m)
    <2> DEFINE none == [k \in Keys |-> IF k \in Invited(table, m) THEN "deleted" ELSE table.rows[m][k]]
               db == [table EXCEPT !.status[m] = "deleted", !.rows[m] = none]
    <2>1. CommitAtOnce(db) /\ UNCHANGED <<web, mails, crashes>>
      BY <1>1, <1>t DEF Delete, Tables
    <2>2. none \in [Keys -> EmailStatus \cup {"unused", "deleted"}]
      BY <1>t DEF Tables
    <2>3. db \in Tables
      BY <1>t, <2>2 DEF Tables
    <2>4. \A k \in Keys : db.rows[m][k] \notin EmailStatus
      BY <1>t DEF Tables, Invited, EmailStatus
    <2>5. \A n \in Meetings \ {m} : db.rows[n] = table.rows[n]
      BY <1>t DEF Tables
    <2> HIDE DEF db
    <2>6. OneRow(db)
      BY <2>4, <2>5 DEF OneRow, Invited
    <2>7. SentIsMailed(db, mails)
      BY <2>4, <2>5 DEF SentIsMailed, Delivered, EmailStatus
    <2>8. MailOn => \A n \in Meetings : With(db, n, "pending") = {}
      BY <2>4, <2>5 DEF NobodyLeftPending, With, EmailStatus
    <2> QED BY <1>t, <2>1, <2>3, <2>6, <2>7, <2>8, CommitAtOnceStep
  <1>2. CASE Claimed(m)
    <2> DEFINE db == [table EXCEPT !.status[m] = "moved"]
    <2>1. CommitAtOnce(db) /\ UNCHANGED <<web, mails, crashes>>
      BY <1>2 DEF Claimed
    <2>2. db \in Tables /\ db.rows = table.rows
      BY <1>t DEF Tables
    <2> HIDE DEF db
    <2>3. OneRow(db) /\ SentIsMailed(db, mails)
      BY <2>2 DEF OneRow, Invited, SentIsMailed, Delivered
    <2>4. MailOn => \A n \in Meetings : With(db, n, "pending") = {}
      BY <2>2 DEF NobodyLeftPending, With
    <2> QED BY <1>t, <2>1, <2>2, <2>3, <2>4, CommitAtOnceStep
  <1> QED BY <1>1, <1>2

LEMMA NextIInv == IInv /\ [Next]_vars => IInv'
  <1> SUFFICES ASSUME IInv, [Next]_vars PROVE IInv'
    OBVIOUS
  <1>1. CASE UNCHANGED vars
    BY <1>1 DEF vars, IInv, TypeOK, WellFormed, Lock, OneRow, Invited, Delivered, SentIsMailed, Waiting, SentTo, With, NobodyLeftPending
  <1> QED BY <1>1, BeginStep, ServeStep, DieStep, OthersStep DEF Next

----------------------------------------------------------------------------
(* The invariant is one of the specification.                              *)
THEOREM Inductive == Spec => []IInv
  BY InitIInv, NextIInv, PTL DEF Spec

(* All variables keep their types.                                         *)
THEOREM TypeCorrect == Spec => []TypeOK
  <1>1. IInv => TypeOK
    BY DEF IInv
  <1> QED BY <1>1, Inductive, PTL

(* Whoever a committed row calls 'sent' has been mailed about the meeting. *)
THEOREM SentIsTrue == Spec => []RecordedMeansMailed
  <1>1. IInv => RecordedMeansMailed
    BY DEF IInv, Delivered, SentIsMailed, RecordedMeansMailed, SentTo, With
  <1> QED BY <1>1, Inductive, PTL

(* No address is on a meeting's list twice.                                *)
THEOREM AddressesUnique == Spec => []OneRowEach
  <1>1. IInv => OneRowEach
    BY DEF IInv, OneRow, OneRowEach
  <1> QED BY <1>1, Inductive, PTL

(* With email on, every row of a committed list has an outcome.            *)
THEOREM NobodyPending == Spec => []NobodyLeftPending
  <1>1. IInv => NobodyLeftPending
    BY DEF IInv
  <1> QED BY <1>1, Inductive, PTL

(* create, update and edit mail nobody who is recorded as mailed.          *)
THEOREM MailedOnce == Spec => NoSecondMail
  <1> DEFINE Once == \A t \in Threads, m \in Meetings, a \in Addresses :
        web[t].pc = "mail" /\ web'[t] # web[t] /\ mails'[m][a] # mails[m][a]
            => a \notin SentTo(table, m)
  <1>1. IInv /\ Next => Once
    <2> SUFFICES ASSUME IInv, Next, NEW t \in Threads, NEW m \in Meetings, NEW a \in Addresses,
                        web[t].pc = "mail", web'[t] # web[t], mails'[m][a] # mails[m][a]
                 PROVE  a \notin SentTo(table, m)
      OBVIOUS
    <2> USE DEF IInv
    <2>1. \E s \in Threads : Serve(s) /\ mails' # mails
      BY DEF Next, Begin, Create, Update, EditRead, Resend, BeginMailing, Die, Delete, Claimed
    <2>2. PICK s \in Threads : Serve(s) /\ mails' # mails
      BY <2>1
    <2>3. s = t
      BY <2>2 DEF Serve, EditWrite, BeginMailing, Mail, Commit, ResendCall, ResendWrite, LockedOut, EditTooLate, Goto, Reply, TypeOK
    <2>4. PICK k \in Keys, ok \in BOOLEAN : Mail(t, k, ok)
      BY <2>2, <2>3 DEF Serve, EditWrite, Commit, ResendCall, ResendWrite, LockedOut, EditTooLate
    <2>5. m = web[t].m /\ a = k[1] /\ k \in web[t].todo
      <3>1. web[t].m \in Meetings /\ k[1] \in Addresses
        BY ThreadTypes, KeyFacts
      <3>2. Call(web[t].m, k[1], ok) /\ k \in web[t].todo
        BY <2>4 DEF Mail
      <3> QED BY <3>1, <3>2, CallFacts
    <2> QED BY <2>5 DEF Waiting
  <1>2. UNCHANGED vars => Once
    BY DEF vars
  <1>3. IInv /\ [Next]_vars => [Once]_vars
    BY <1>1, <1>2
  <1> QED BY <1>3, Inductive, PTL DEF Spec, NoSecondMail
----------------------------------------------------------------------------
(***************************************************************************)
(* What a table knows is not lost on the way to the next.                  *)
(***************************************************************************)
KeepsSent(db, new) == \A m \in Meetings, k, l \in Keys :
    /\ db.rows[m][k] = "sent"
    /\ new.rows[m][l] \in EmailStatus /\ l[1] = k[1]
    => \E j \in Keys : j[1] = k[1] /\ new.rows[m][j] = "sent"
Grows(db, new) == \A m \in Meetings, k \in Keys :
    db.rows[m][k] # "unused" => new.rows[m][k] # "unused"

LEMMA SameTable ==
    ASSUME NEW db, NEW new, new.rows = db.rows
    PROVE  KeepsSent(db, new) /\ Grows(db, new)
  BY DEF KeepsSent, Grows

LEMMA NewRowsKeep ==
    ASSUME NEW db \in Tables, NEW m \in Meetings, NEW L, NEW new \in Tables,
           new.rows[m] = NewRows(db, m, L),
           \A n \in Meetings \ {m} : new.rows[n] = db.rows[n]
    PROVE  KeepsSent(db, new) /\ Grows(db, new)
  <1>r. \A k \in Keys : new.rows[m][k] =
            IF k \in NextKeys(db, m, L) THEN IF k[1] \in SentTo(db, m) THEN "sent" ELSE "pending"
            ELSE IF k \in Invited(db, m) THEN "deleted" ELSE db.rows[m][k]
    BY DEF NewRows, Kept
  <1>1. KeepsSent(db, new)
    <2> SUFFICES ASSUME NEW n \in Meetings, NEW k \in Keys, NEW l \in Keys,
                        db.rows[n][k] = "sent", new.rows[n][l] \in EmailStatus, l[1] = k[1]
                 PROVE  \E j \in Keys : j[1] = k[1] /\ new.rows[n][j] = "sent"
      BY DEF KeepsSent
    <2>1. CASE n # m
      BY <2>1
    <2>2. CASE n = m
      <3>1. l \in NextKeys(db, m, L)
        BY <1>r, <2>2 DEF Invited, EmailStatus
      <3>2. l[1] \in SentTo(db, m)
        BY <2>2 DEF SentTo, With
      <3> QED BY <1>r, <2>2, <3>1, <3>2
    <2> QED BY <2>1, <2>2
  <1>2. Grows(db, new)
    BY <1>r DEF Grows
  <1> QED BY <1>1, <1>2

LEMMA SetStatusGrows ==
    ASSUME NEW db \in Tables, NEW m \in Meetings, NEW k \in Keys, NEW s \in EmailStatus
    PROVE  /\ Grows(db, SetStatus(db, m, k, s))
           /\ s = "sent" => KeepsSent(db, SetStatus(db, m, k, s))
  <1> DEFINE new == SetStatus(db, m, k, s)
  <1>r. \A n \in Meetings, l \in Keys :
            new.rows[n][l] = IF n = m /\ l = k /\ k \in Invited(db, m) THEN s ELSE db.rows[n][l]
    BY SetStatusFacts
  <1> HIDE DEF new
  <1>1. Grows(db, new)
    BY <1>r DEF Grows, EmailStatus
  <1>2. ASSUME s = "sent" PROVE KeepsSent(db, new)
    BY <1>r, <1>2 DEF KeepsSent
  <1> QED BY <1>1, <1>2 DEF new
----------------------------------------------------------------------------
(* What each step does to the tables.                                      *)
Replaces(m, L, new) ==
    /\ new \in Tables /\ new.rows[m] = NewRows(table, m, L)
    /\ \A n \in Meetings \ {m} : new.rows[n] = table.rows[n]
Starts(t, m, L) ==
    /\ Replaces(m, L, draft') /\ table' = table /\ writer = None
    /\ web'[t].pc = "mail" /\ web'[t].m = m /\ web'[t].todo \subseteq With(draft', m, "pending")
    /\ \A s \in Threads \ {t} : web'[s] = web[s]
    /\ UNCHANGED <<mails, crashes>>

LEMMA Starting ==
    ASSUME IInv, NEW t \in Threads, NEW m \in Meetings, NEW L \in SUBSET Addresses,
           \/ Create(t, m, L) \/ Update(t, m, L)
           \/ EditWrite(t, L) /\ m = web[t].m
    PROVE  Starts(t, m, L)
  <1>t. table \in Tables /\ web \in [Threads -> ThreadState]
    BY DEF IInv, TypeOK
  <1>1. \E st \in {"scheduled", table.status[m]} :
            BeginMailing(t, m, [table EXCEPT !.status[m] = st, !.rows[m] = NewRows(table, m, L)])
    <2>1. [table EXCEPT !.status[m] = table.status[m], !.rows[m] = NewRows(table, m, L)]
              = [table EXCEPT !.rows[m] = NewRows(table, m, L)]
      BY <1>t DEF Tables
    <2> QED BY <2>1 DEF Create, Update, EditWrite
  <1>2. PICK st \in {"scheduled", table.status[m]} :
            BeginMailing(t, m, [table EXCEPT !.status[m] = st, !.rows[m] = NewRows(table, m, L)])
    BY <1>1
  <1> DEFINE db == [table EXCEPT !.status[m] = st, !.rows[m] = NewRows(table, m, L)]
             r == [Free EXCEPT !.pc = "mail", !.m = m, !.todo = ToMail(db, m)]
  <1>3. db \in Tables /\ db.rows[m] = NewRows(table, m, L)
        /\ \A n \in Meetings \ {m} : db.rows[n] = table.rows[n]
    BY <1>t, NewRowsType DEF Tables
  <1>4. /\ draft' = db /\ table' = table /\ writer = None /\ UNCHANGED <<mails, crashes>>
        /\ web' = [web EXCEPT ![t] = r]
    BY <1>2 DEF BeginMailing, Goto
  <1> HIDE DEF db
  <1>5. r.pc = "mail" /\ r.m = m /\ r.todo = ToMail(db, m)
    BY DEF Free
  <1> HIDE DEF r
  <1> QED BY <1>t, <1>3, <1>4, <1>5 DEF Starts, Replaces, ToMail

(* The steps of a thread that has no lock and takes none.                  *)
Reads ==
    \/ \E t \in Threads, m \in Meetings : EditRead(t, m) \/ \E k \in Keys : Resend(t, m, k)
    \/ \E t \in Threads : LockedOut(t) \/ EditTooLate(t) \/ \E ok \in BOOLEAN : ResendCall(t, ok)
    \/ UNCHANGED vars

LEMMA Steps ==
    ASSUME IInv, [Next]_vars
    PROVE  \/ \E t \in Threads, m \in Meetings, L \in SUBSET Addresses : Starts(t, m, L)
           \/ \E t \in Threads, k \in Keys, ok \in BOOLEAN : Mail(t, k, ok)
           \/ \E t \in Threads : Commit(t) \/ ResendWrite(t) \/ Die(t)
           \/ \E m \in Meetings : Delete(m) \/ Claimed(m)
           \/ Reads /\ UNCHANGED <<table, draft>>
  <1>1. ASSUME NEW t \in Threads, NEW m \in Meetings, NEW L \in SUBSET Addresses,
               Create(t, m, L) \/ Update(t, m, L)
        PROVE  Starts(t, m, L)
    BY <1>1, Starting
  <1>2. ASSUME NEW t \in Threads, NEW L \in SUBSET Addresses, EditWrite(t, L)
        PROVE  \E m \in Meetings : Starts(t, m, L)
    <2>1. web[t].m \in Meetings
      BY <1>2, ThreadTypes DEF EditWrite, IInv
    <2> QED BY <1>2, <2>1, Starting
  <1>3. Reads => UNCHANGED <<table, draft>>
    BY DEF Reads, EditRead, Resend, LockedOut, EditTooLate, ResendCall, vars
  <1> QED BY <1>1, <1>2, <1>3 DEF Next, Begin, Serve, Reads

(* What is recorded as sent is in the table being written as well, if the  *)
(* address is, and so in the next one.                                     *)
LEMMA SentStep ==
    ASSUME IInv, KeepsSent(table, draft), [Next]_vars
    PROVE  /\ KeepsSent(table, draft)'
           /\ \/ KeepsSent(table, table')
              \/ \E t \in Threads : web[t].pc = "failed" /\ web'[t] = Free
  <1>t. /\ table \in Tables /\ draft \in Tables /\ web \in [Threads -> ThreadState]
        /\ writer = None => draft = table
    BY DEF IInv, TypeOK, Lock
  <1>c. ASSUME table' = draft' PROVE KeepsSent(table, draft)'
    BY <1>c, SameTable DEF KeepsSent
  <1>1. ASSUME NEW t \in Threads, NEW m \in Meetings, NEW L \in SUBSET Addresses, Starts(t, m, L)
        PROVE  KeepsSent(table, draft') /\ table' = table
    BY <1>1, <1>t, NewRowsKeep DEF Starts, Replaces
  <1>2. ASSUME NEW t \in Threads, NEW k \in Keys, NEW ok \in BOOLEAN, Mail(t, k, ok)
        PROVE  KeepsSent(table, draft') /\ table' = table
    <2> DEFINE m == web[t].m
    <2>1. /\ m \in Meetings /\ k[1] \notin SentTo(table, m) /\ Outcome(ok) \in EmailStatus
          /\ draft' = SetStatus(draft, m, k, Outcome(ok)) /\ table' = table
      BY <1>2, ThreadTypes DEF Mail, IInv, Waiting, Outcome, EmailStatus
    <2>2. \A n \in Meetings, l \in Keys :
              draft'.rows[n][l] = IF n = m /\ l = k /\ k \in Invited(draft, m)
                                  THEN Outcome(ok) ELSE draft.rows[n][l]
      BY <1>t, <2>1, SetStatusFacts
    <2>3. \A l \in Keys : table.rows[m][l] = "sent" => l[1] # k[1]
      BY <2>1 DEF SentTo, With
    <2> HIDE DEF m
    <2> SUFFICES ASSUME NEW n \in Meetings, NEW i \in Keys, NEW l \in Keys,
                        table.rows[n][i] = "sent", draft'.rows[n][l] \in EmailStatus, l[1] = i[1]
                 PROVE  \E j \in Keys : j[1] = i[1] /\ draft'.rows[n][j] = "sent"
      BY <2>1 DEF KeepsSent
    <2>4. draft.rows[n][l] \in EmailStatus
      BY <2>2 DEF Invited
    <2>5. PICK j \in Keys : j[1] = i[1] /\ draft.rows[n][j] = "sent"
      BY <2>4 DEF KeepsSent
    <2>6. ~(n = m /\ j = k)
      BY <2>3, <2>5
    <2> QED BY <2>2, <2>5, <2>6
  <1>3. ASSUME NEW t \in Threads, Commit(t)
        PROVE  KeepsSent(table, table') /\ table' = draft'
    BY <1>3 DEF Commit
  <1>4. ASSUME NEW t \in Threads, ResendWrite(t)
        PROVE  /\ KeepsSent(table, table') \/ (web[t].pc = "failed" /\ web'[t] = Free)
               /\ table' = draft'
    <2>1. /\ web[t].pc \in {"record", "failed"} /\ web'[t] = Free /\ table' = draft'
          /\ table' = SetStatus(table, web[t].m, web[t].row, Outcome(web[t].pc = "record"))
      BY <1>4, <1>t DEF ResendWrite, CommitAtOnce, Reply, Goto
    <2>2. web[t].m \in Meetings /\ web[t].row \in Keys
      BY <2>1, ThreadTypes DEF Resending, IInv
    <2>3. "sent" \in EmailStatus /\ (web[t].pc = "record" => Outcome(web[t].pc = "record") = "sent")
      BY DEF EmailStatus, Outcome
    <2> QED BY <1>t, <2>1, <2>2, <2>3, SetStatusGrows
  <1>5. ASSUME NEW t \in Threads, Die(t)
        PROVE  table' = table /\ draft' \in {table, draft}
    BY <1>5 DEF Die
  <1>6. ASSUME NEW m \in Meetings, Delete(m) \/ Claimed(m)
        PROVE  KeepsSent(table, table') /\ table' = draft'
    <2>1. CASE Claimed(m)
      <3>1. table'.rows = table.rows
        BY <2>1, <1>t DEF Claimed, CommitAtOnce, Tables
      <3> QED BY <2>1, <3>1, SameTable DEF Claimed, CommitAtOnce
    <2>2. CASE Delete(m)
      <3> DEFINE none == [k \in Keys |-> IF k \in Invited(table, m) THEN "deleted" ELSE table.rows[m][k]]
      <3>1. /\ table' = [table EXCEPT !.status[m] = "deleted", !.rows[m] = none]
            /\ table' = draft'
        BY <2>2, <1>t DEF Delete, CommitAtOnce, Tables
      <3>2. \A k \in Keys : table'.rows[m][k] \notin EmailStatus
        BY <1>t, <3>1 DEF Tables, Invited, EmailStatus
      <3>3. \A n \in Meetings \ {m} : table'.rows[n] = table.rows[n]
        BY <1>t, <3>1 DEF Tables
      <3> QED BY <3>1, <3>2, <3>3 DEF KeepsSent
    <2> QED BY <1>6, <2>1, <2>2
  <1>7. KeepsSent(table, table)
    BY SameTable
  <1> QED
    <2>1. CASE \E t \in Threads, m \in Meetings, L \in SUBSET Addresses : Starts(t, m, L)
      <3>1. KeepsSent(table, draft') /\ table' = table
        BY <1>1, <2>1
      <3> QED BY <1>7, <3>1 DEF KeepsSent
    <2>2. CASE \E t \in Threads, k \in Keys, ok \in BOOLEAN : Mail(t, k, ok)
      <3>1. KeepsSent(table, draft') /\ table' = table
        BY <1>2, <2>2
      <3> QED BY <1>7, <3>1 DEF KeepsSent
    <2>3. CASE \E t \in Threads : Commit(t) \/ ResendWrite(t)
      BY <1>c, <1>3, <1>4, <2>3
    <2>4. CASE \E t \in Threads : Die(t)
      <3>1. table' = table /\ draft' \in {table, draft}
        BY <1>5, <2>4
      <3> QED BY <1>7, <3>1 DEF KeepsSent
    <2>5. CASE \E m \in Meetings : Delete(m) \/ Claimed(m)
      BY <1>c, <1>6, <2>5
    <2>6. CASE UNCHANGED <<table, draft>>
      BY <1>7, <2>6 DEF KeepsSent
    <2> QED BY <2>1, <2>2, <2>3, <2>4, <2>5, <2>6, Steps

(* What is recorded as sent stays recorded, unless a resend failed.        *)
THEOREM SentStays == Spec => SentIsKept
  <1>1. Init => KeepsSent(table, draft)
    BY SameTable DEF Init
  <1>2. IInv /\ KeepsSent(table, draft) /\ [Next]_vars => KeepsSent(table, draft)'
    BY SentStep
  <1>3. IInv /\ KeepsSent(table, draft) /\ [Next]_vars =>
            [\A m \in Meetings : \A a \in SentTo(table, m) :
                \/ a \in SentTo(table', m)
                \/ a \notin {k[1] : k \in Invited(table', m)}
                \/ \E t \in Threads : web[t].pc = "failed" /\ web'[t] = Free]_vars
    <2> SUFFICES ASSUME IInv, KeepsSent(table, draft), [Next]_vars,
                        ~ \E t \in Threads : web[t].pc = "failed" /\ web'[t] = Free,
                        NEW m \in Meetings, NEW a \in SentTo(table, m),
                        a \in {k[1] : k \in Invited(table', m)}
                 PROVE  a \in SentTo(table', m)
      OBVIOUS
    <2>1. KeepsSent(table, table')
      BY SentStep
    <2>2. PICK k \in Keys : k[1] = a /\ table.rows[m][k] = "sent"
      BY DEF SentTo, With
    <2>3. PICK l \in Keys : l[1] = a /\ table'.rows[m][l] \in EmailStatus
      BY DEF Invited
    <2>4. \E j \in Keys : j[1] = a /\ table'.rows[m][j] = "sent"
      BY <2>1, <2>2, <2>3 DEF KeepsSent
    <2> QED BY <2>4 DEF SentTo, With
  <1> QED BY <1>1, <1>2, <1>3, Inductive, PTL DEF Spec, SentIsKept
----------------------------------------------------------------------------
(***************************************************************************)
(* Nobody has an email who was never listed.                               *)
(***************************************************************************)
Listed(m, k) == draft.rows[m][k] # "unused"

(* The inductive invariant, as long as no process has died.                *)
Known ==
    /\ Grows(table, draft)
    /\ \A m \in Meetings, a \in Addresses :
            mails[m][a] > 0 => \E k \in Keys : k[1] = a /\ Listed(m, k)
    /\ \A t \in Threads :
            /\ web[t].pc \in Resending => Listed(web[t].m, web[t].row)
            /\ web[t].pc = "mail" => \A k \in web[t].todo : Listed(web[t].m, k)

(* A step that lists no less and mails only who is listed.                 *)
LEMMA KnownStays ==
    ASSUME IInv, Known, Grows(draft, draft'), Grows(table', draft'),
           \A m \in Meetings, a \in Addresses :
                mails'[m][a] = mails[m][a] \/ \E k \in Keys : k[1] = a /\ Listed(m, k),
           \A t \in Threads : web'[t] \in {web[t], Free} \/
                /\ web'[t].m \in Meetings
                /\ web'[t].pc \in Resending => web'[t].row \in Keys /\ draft'.rows[web'[t].m][web'[t].row] # "unused"
                /\ web'[t].pc = "mail" => \A k \in web'[t].todo :
                        k \in Keys /\ draft'.rows[web'[t].m][k] # "unused"
    PROVE  Known'
  <1>1. ASSUME NEW m \in Meetings, NEW k \in Keys, Listed(m, k)
        PROVE  draft'.rows[m][k] # "unused"
    BY <1>1 DEF Grows, Listed
  <1>2. ASSUME NEW m \in Meetings, NEW a \in Addresses, mails'[m][a] > 0
        PROVE  \E k \in Keys : k[1] = a /\ draft'.rows[m][k] # "unused"
    <2>1. \E k \in Keys : k[1] = a /\ Listed(m, k)
      BY <1>2 DEF Known
    <2> QED BY <1>1, <2>1
  <1>3. ASSUME NEW t \in Threads
        PROVE  /\ web'[t].pc \in Resending => draft'.rows[web'[t].m][web'[t].row] # "unused"
               /\ web'[t].pc = "mail" => \A k \in web'[t].todo : draft'.rows[web'[t].m][k] # "unused"
    <2>1. CASE web'[t] = web[t]
      <3>1. /\ web[t].pc # "free" => web[t].m \in Meetings
            /\ web[t].pc \in Resending => web[t].row \in Keys
            /\ web[t].todo \subseteq Keys
        BY ThreadTypes DEF IInv, ThreadState
      <3> QED BY <1>1, <2>1, <3>1 DEF Known, Resending
    <2>2. CASE web'[t] = Free
      BY <2>2 DEF Free, Resending
    <2> QED BY <2>1, <2>2
  <1> QED BY <1>2, <1>3 DEF Known, Listed

LEMMA KnownStep ==
    ASSUME IInv, crashes' = 0, Known, [Next]_vars
    PROVE  Known'
  <1>t. /\ table \in Tables /\ draft \in Tables /\ web \in [Threads -> ThreadState]
        /\ writer = None => draft = table
        /\ crashes \in Nat
    BY InvitationsAssumption DEF IInv, TypeOK, Lock
  <1>s. Grows(draft, draft)
    BY DEF Grows
  <1>1. ASSUME NEW t \in Threads, NEW m \in Meetings, NEW L \in SUBSET Addresses, Starts(t, m, L)
        PROVE  Known'
    <2>1. /\ draft = table /\ Grows(table, draft') /\ table' = table
          /\ \A k \in web'[t].todo : k \in Keys /\ draft'.rows[web'[t].m][k] # "unused"
      BY <1>1, <1>t, NewRowsKeep DEF Starts, Replaces, With
    <2> QED BY <1>1, <2>1, KnownStays DEF Starts, Resending
  <1>2. ASSUME NEW t \in Threads, NEW k \in Keys, NEW ok \in BOOLEAN, Mail(t, k, ok)
        PROVE  Known'
    <2> DEFINE m == web[t].m
    <2>1. /\ web[t].pc = "mail" /\ m \in Meetings /\ k[1] \in Addresses /\ k \in web[t].todo
          /\ web[t].todo \subseteq Keys /\ Outcome(ok) \in EmailStatus
          /\ draft' = SetStatus(draft, m, k, Outcome(ok)) /\ table' = table
          /\ Call(m, k[1], ok)
          /\ web' = [web EXCEPT ![t] = [web[t] EXCEPT !.todo = @ \ {k}]]
      BY <1>2, ThreadTypes, KeyFacts DEF Mail, Goto, IInv, Outcome, EmailStatus, ThreadState
    <2>2. Grows(draft, draft')
      BY <1>t, <2>1, SetStatusGrows
    <2>3. Grows(table', draft')
      BY <2>1, <2>2 DEF Known, Grows
    <2>4. \A n \in Meetings, b \in Addresses :
              mails'[n][b] = mails[n][b] \/ \E j \in Keys : j[1] = b /\ Listed(n, j)
      <3>1. Listed(m, k)
        BY <2>1 DEF Known
      <3> QED BY <2>1, <3>1, CallFacts DEF IInv
    <2>5. /\ web'[t].pc = "mail" /\ web'[t].m = m /\ web'[t].todo \subseteq web[t].todo
          /\ \A s \in Threads \ {t} : web'[s] = web[s]
      BY <1>t, <2>1 DEF ThreadState
    <2>6. \A j \in web[t].todo : j \in Keys /\ draft'.rows[m][j] # "unused"
      BY <2>1, <2>2 DEF Known, Listed, Grows
    <2> QED BY <2>1, <2>2, <2>3, <2>4, <2>5, <2>6, KnownStays DEF Resending
  <1>3. ASSUME NEW t \in Threads, Commit(t) PROVE Known'
    <2>1. /\ draft' = draft /\ table' = draft /\ mails' = mails
          /\ \A s \in Threads : web'[s] \in {web[s], Free}
      BY <1>3, <1>t DEF Commit, Reply, Goto
    <2> QED BY <1>s, <2>1, KnownStays
  <1>4. ASSUME NEW t \in Threads, ResendWrite(t) PROVE Known'
    <2>1. /\ web[t].pc \in {"record", "failed"} /\ draft = table /\ table' = draft'
          /\ draft' = SetStatus(draft, web[t].m, web[t].row, Outcome(web[t].pc = "record"))
          /\ mails' = mails /\ \A s \in Threads : web'[s] \in {web[s], Free}
      BY <1>4, <1>t DEF ResendWrite, CommitAtOnce, Reply, Goto
    <2>2. web[t].m \in Meetings /\ web[t].row \in Keys /\ Outcome(web[t].pc = "record") \in EmailStatus
      BY <2>1, ThreadTypes DEF Resending, IInv, Outcome, EmailStatus
    <2>3. Grows(draft, draft') /\ Grows(table', draft')
      BY <1>t, <2>1, <2>2, SetStatusGrows DEF Grows
    <2> QED BY <2>1, <2>3, KnownStays
  <1>5. ASSUME NEW m \in Meetings, Delete(m) \/ Claimed(m) PROVE Known'
    <2>1. draft = table /\ table' = draft' /\ mails' = mails /\ web' = web
      BY <1>5, <1>t DEF Delete, Claimed, CommitAtOnce
    <2>2. Grows(table, table')
      <3>1. CASE Claimed(m)
        BY <3>1, <1>t DEF Claimed, CommitAtOnce, Tables, Grows
      <3>2. CASE Delete(m)
        <4> DEFINE none == [k \in Keys |-> IF k \in Invited(table, m) THEN "deleted" ELSE table.rows[m][k]]
        <4>1. table' = [table EXCEPT !.status[m] = "deleted", !.rows[m] = none]
          BY <3>2, <1>t DEF Delete, CommitAtOnce, Tables
        <4>2. \A k \in Keys : table.rows[m][k] # "unused" => table'.rows[m][k] # "unused"
          BY <1>t, <4>1 DEF Tables
        <4>3. \A n \in Meetings \ {m} : table'.rows[n] = table.rows[n]
          BY <1>t, <4>1 DEF Tables
        <4> QED BY <4>2, <4>3 DEF Grows
      <3> QED BY <1>5, <3>1, <3>2
    <2>3. Grows(draft, draft') /\ Grows(table', draft')
      BY <2>1, <2>2 DEF Grows
    <2> QED BY <2>1, <2>3, KnownStays
  <1>6. CASE Reads /\ UNCHANGED <<table, draft>>
    <2>0. Grows(draft, draft') /\ Grows(table', draft')
      BY <1>6, <1>s DEF Known
    <2>1. ASSUME NEW t \in Threads, NEW m \in Meetings, EditRead(t, m) PROVE Known'
      <3>1. /\ mails' = mails /\ \A s \in Threads \ {t} : web'[s] = web[s]
            /\ web'[t].pc = "write" /\ web'[t].m = m
        BY <1>t, <2>1 DEF EditRead, Goto, Free
      <3> QED BY <2>0, <3>1, KnownStays DEF Resending
    <2>2. ASSUME NEW t \in Threads, NEW m \in Meetings, NEW k \in Keys, Resend(t, m, k) PROVE Known'
      <3>1. /\ mails' = mails /\ \A s \in Threads \ {t} : web'[s] = web[s]
            /\ web'[t].pc = "resend" /\ web'[t].m = m /\ web'[t].row = k
        BY <1>t, <2>2 DEF Resend, Goto, Free
      <3>2. table.rows[m][k] # "unused"
        BY <2>2 DEF Resend, Invited, EmailStatus
      <3>3. draft'.rows[m][k] # "unused"
        BY <1>6, <3>2 DEF Known, Grows
      <3> QED BY <2>0, <3>1, <3>3, KnownStays DEF Resending
    <2>3. ASSUME NEW t \in Threads, LockedOut(t) \/ EditTooLate(t) PROVE Known'
      <3>1. /\ mails' = mails /\ \A s \in Threads \ {t} : web'[s] = web[s]
            /\ \/ web'[t] = Free
               \/ /\ web[t].pc = "record" /\ web'[t].pc = "failed"
                  /\ web'[t].m = web[t].m /\ web'[t].row = web[t].row
        BY <1>t, <2>3 DEF LockedOut, EditTooLate, Reply, Goto, ThreadState
      <3>2. web[t].pc = "record" =>
                /\ web[t].m \in Meetings /\ web[t].row \in Keys /\ Listed(web[t].m, web[t].row)
        BY ThreadTypes DEF Known, Resending, IInv
      <3> QED BY <1>6, <2>0, <3>1, <3>2, KnownStays DEF Resending, Listed
    <2>4. ASSUME NEW t \in Threads, NEW ok \in BOOLEAN, ResendCall(t, ok) PROVE Known'
      <3>1. /\ web[t].pc = "resend" /\ Call(web[t].m, web[t].row[1], ok)
            /\ \A s \in Threads \ {t} : web'[s] = web[s]
            /\ web'[t].pc \in {"record", "failed"} /\ web'[t].m = web[t].m /\ web'[t].row = web[t].row
        BY <1>t, <2>4 DEF ResendCall, Goto, ThreadState, Resending
      <3>2. /\ web[t].m \in Meetings /\ web[t].row \in Keys /\ web[t].row[1] \in Addresses
            /\ Listed(web[t].m, web[t].row)
        BY <3>1, ThreadTypes, KeyFacts DEF Known, Resending, IInv
      <3>3. \A n \in Meetings, b \in Addresses :
                mails'[n][b] = mails[n][b] \/ \E k \in Keys : k[1] = b /\ Listed(n, k)
        BY <3>1, <3>2, CallFacts DEF IInv
      <3> QED BY <1>6, <2>0, <3>1, <3>2, <3>3, KnownStays DEF Listed
    <2>5. CASE UNCHANGED vars
      BY <2>0, <2>5, KnownStays DEF vars
    <2> QED BY <1>6, <2>1, <2>2, <2>3, <2>4, <2>5 DEF Reads
  <1>7. ASSUME NEW t \in Threads PROVE ~Die(t)
    BY <1>t DEF Die
  <1> QED BY <1>1, <1>2, <1>3, <1>4, <1>5, <1>6, <1>7, Steps

(* As long as no process has died, nobody has an email about a meeting     *)
(* that never listed them.                                                 *)
THEOREM MailedWasListed == Spec => []MailedIsKnown
  <1>1. Init => (crashes = 0 => Known)
    BY DEF Init, EmptyTables, Known, Grows, Free, Resending
  <1>2. IInv /\ (crashes = 0 => Known) /\ [Next]_vars => (crashes = 0 => Known)'
    <2> SUFFICES ASSUME IInv, crashes = 0 => Known, [Next]_vars, crashes' = 0 PROVE Known'
      OBVIOUS
    <2>1. crashes = 0
      <3>1. crashes \in Nat
        BY InvitationsAssumption DEF IInv, TypeOK
      <3>2. crashes' = crashes \/ crashes' = crashes + 1
        <4>1. ASSUME NEW t \in Threads, Begin(t) PROVE crashes' = crashes
          BY <4>1 DEF Begin, Create, Update, EditRead, Resend, BeginMailing
        <4>2. ASSUME NEW t \in Threads, Serve(t) PROVE crashes' = crashes
          BY <4>2 DEF Serve, EditWrite, BeginMailing, Mail, Commit, ResendCall, ResendWrite,
             LockedOut, EditTooLate
        <4>3. ASSUME NEW t \in Threads, Die(t) PROVE crashes' = crashes + 1
          BY <4>3 DEF Die
        <4> QED BY <4>1, <4>2, <4>3 DEF Next, Delete, Claimed, vars
      <3> QED BY <3>1, <3>2
    <2> QED BY <2>1, KnownStep
  <1>3. IInv /\ (crashes = 0 => Known) => MailedIsKnown
    <2> SUFFICES ASSUME Known, NEW m \in Meetings, NEW a \in Addresses, mails[m][a] > 0
                 PROVE  \E i \in 1..MaxRows : draft.rows[m][<<a, i>>] # "unused"
      BY DEF MailedIsKnown
    <2>1. PICK k \in Keys : k[1] = a /\ draft.rows[m][k] # "unused"
      BY DEF Known, Listed
    <2>2. k = <<a, k[2]>> /\ k[2] \in 1..MaxRows
      BY <2>1, KeyFacts
    <2> QED BY <2>1, <2>2
  <1> QED BY <1>1, <1>2, <1>3, Inductive, PTL DEF Spec
=============================================================================
