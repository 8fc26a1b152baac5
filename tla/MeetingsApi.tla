----------------------------- MODULE MeetingsApi -----------------------------
(***************************************************************************)
(* The requests of the web process that change a meeting                   *)
(* (app/routes/meetings.py).  Gunicorn runs several of them at a time, in  *)
(* threads of two processes, next to the worker.                           *)
(*                                                                         *)
(* A request reads the meeting, decides, calls Pexip and writes; nothing   *)
(* keeps the row from changing in between, so each of these is a step of   *)
(* the thread that serves it and web[t] holds what the thread remembers.   *)
(* A request whose reads cannot go stale (create, delete, update) is one   *)
(* step, its transaction.  A refused request changes nothing and is left   *)
(* out.  The requests the operators issue are a parameter.                 *)
(***************************************************************************)
EXTENDS Pexip

CONSTANTS
    Threads,        \* threads that serve requests
    Requests,       \* the requests that operators issue
    Slots,          \* BOUND: the <<start, end>> operators book
    Minutes         \* BOUND: the minutes operators extend or shorten by

RequestKinds == {"delete", "update", "edit", "extend", "redial", "add", "remove"}

ASSUME ApiAssumption ==
    /\ Requests \subseteq RequestKinds
    /\ Slots \subseteq Times \X Times
    /\ \A s \in Slots : s[1] < s[2]     \* "end_time must be after start_time"
    /\ Minutes \subseteq Int

VARIABLE web

OnEndpoint == {"redialCall", "redialWrite", "addInsert", "addCall", "addWrite",
               "removeLive", "removeCall", "removeDelete"}

ThreadState ==
    [pc: {"free", "editWrite", "extendWrite"} \cup OnEndpoint,
     m: MeetingIds \cup {None},
     e: Aliases \cup {None},        \* endpoint_alias of the payload
     row: RowKeys \cup {None},      \* the endpoint row read
     active: BOOLEAN,               \* edit: the status read was an active one
     at: Times,                     \* now_utc() when the request began
     end: Times,                    \* the new end time
     ok: BOOLEAN]                   \* add: the dial succeeded

(* What a thread works on is there.                                        *)
WellFormed(r) ==
    /\ r.pc # "free" => r.m \in MeetingIds
    /\ r.pc \in OnEndpoint => r.e \in Aliases

ApiTypeOK ==
    /\ web \in [Threads -> ThreadState]
    /\ \A t \in Threads : WellFormed(web[t])

Free == [pc |-> "free", m |-> None, e |-> None, row |-> None, active |-> FALSE,
         at |-> 0, end |-> 0, ok |-> FALSE]

ApiInit == web = [t \in Threads |-> Free]

Ask(kind) == kind \in Requests /\ now <= CalmFrom
Serve(t, kind) == Ask(kind) /\ web[t].pc = "free"
Goto(t, p) == web' = [web EXCEPT ![t] = [@ EXCEPT !.pc = p]]
Reply(t) == web' = [web EXCEPT ![t] = Free]
Read(p, m) == [Free EXCEPT !.pc = p, !.m = m]
----------------------------------------------------------------------------
(* POST /api/meetings.                                                     *)
CreateMeeting(m, slot, E) ==
    /\ now <= CalmFrom
    /\ meetings[m].status = "unused"
    /\ meetings' = [meetings EXCEPT ![m] =
            [status |-> "scheduled", start |-> slot[1], end |-> slot[2],
             updatedAt |-> now, startedAt |-> Null, endedAt |-> Null]]
    /\ CanInsert(m, E)
    /\ ReplaceRows(m, {}, E)
    /\ UNCHANGED <<now, faults, pexipVars, web>>

(* .../delete: in any status, and without a call to Pexip.                 *)
DeleteMeeting(m) ==
    /\ Ask("delete")
    /\ Exists(m)
    /\ meetings' = [meetings EXCEPT ![m] = [UnusedMeeting EXCEPT !.status = "deleted"]]
    /\ DeleteRows(m, RowKeys)
    /\ UNCHANGED <<now, faults, pexipVars, web>>

(* .../update: replaces the endpoint rows, in any status.                  *)
UpdateMeeting(m, E) ==
    /\ Ask("update")
    /\ Exists(m)
    /\ CanInsert(m, E)
    /\ ReplaceRows(m, RowKeys, E)
    /\ meetings' = [meetings EXCEPT ![m].updatedAt = now]
    /\ UNCHANGED <<now, faults, pexipVars, web>>
----------------------------------------------------------------------------
(* .../edit: reads the status, later writes without looking at it again.   *)
Editable(m) == meetings[m].status \in Active \cup {"scheduled"}

EditRead(t, m) ==
    /\ Serve(t, "edit")
    /\ Editable(m)
    /\ IF meetings[m].status = "scheduled"
       THEN web' = [web EXCEPT ![t] = [Read("editWrite", m) EXCEPT !.at = now]]
       ELSE \E end \in Times :
            /\ end > meetings[m].start /\ end > now
            /\ web' = [web EXCEPT ![t] = [Read("editWrite", m) EXCEPT
                            !.at = now, !.active = TRUE, !.end = end]]
    /\ UNCHANGED <<storeVars, pexipVars>>

EditScheduled(t, slot, E) ==
    LET m == web[t].m
    IN  /\ web[t].pc = "editWrite" /\ ~web[t].active
        /\ Exists(m) /\ CanInsert(m, E)
        /\ meetings' = [meetings EXCEPT ![m] =
                [@ EXCEPT !.start = slot[1], !.end = slot[2], !.updatedAt = web[t].at]]
        /\ ReplaceRows(m, RowKeys, E)
        /\ Reply(t)
        /\ UNCHANGED <<now, faults, pexipVars>>

EditActive(t) ==
    LET m == web[t].m
    IN  /\ web[t].pc = "editWrite" /\ web[t].active
        /\ Exists(m)
        /\ meetings' = [meetings EXCEPT ![m] =
                [@ EXCEPT !.end = web[t].end, !.updatedAt = web[t].at]]
        /\ Reply(t)
        /\ UNCHANGED <<now, endpoints, faults, pexipVars>>

(* .../extend: end_time is computed from the row read, in any status.      *)
CanExtend(m, end) ==
    /\ end > meetings[m].start
    /\ meetings[m].startedAt # Null /\ meetings[m].endedAt = Null => end > now

ExtendRead(t, m, minutes) ==
    LET end == meetings[m].end + minutes
    IN  /\ Serve(t, "extend")
        /\ Exists(m)
        /\ end \in Times                                        \* bound
        /\ CanExtend(m, end)
        /\ web' = [web EXCEPT ![t] =
                    [Read("extendWrite", m) EXCEPT !.at = now, !.end = end]]
        /\ UNCHANGED <<storeVars, pexipVars>>

ExtendWrite(t) ==
    LET m == web[t].m
    IN  /\ web[t].pc = "extendWrite"
        /\ Exists(m)
        /\ meetings' = [meetings EXCEPT ![m] =
                [@ EXCEPT !.end = web[t].end, !.updatedAt = web[t].at]]
        /\ Reply(t)
        /\ UNCHANGED <<now, endpoints, faults, pexipVars>>
----------------------------------------------------------------------------
(* .../redial_endpoint: whatever the status of the meeting.                *)
RedialRead(t, m, k) ==
    /\ Serve(t, "redial")
    /\ Exists(m) /\ RowExists(m, k)
    /\ web' = [web EXCEPT ![t] =
                [Read("redialCall", m) EXCEPT !.e = k[1], !.row = k]]
    /\ UNCHANGED <<storeVars, pexipVars>>

RedialCall(t) ==
    /\ web[t].pc = "redialCall"
    /\ Dial(web[t].m, web[t].e)
    /\ Goto(t, "redialWrite")
    /\ UNCHANGED storeVars

RedialWrite(t) ==
    /\ web[t].pc = "redialWrite"
    /\ SetRows(web[t].m, {web[t].row}, "redialed")
    /\ Reply(t)
    /\ UNCHANGED <<now, meetings, faults, pexipVars>>
----------------------------------------------------------------------------
(* .../add_endpoint: the row is inserted first and taken back if the dial  *)
(* fails; both look for it by alias.                                       *)
AddRead(t, m, e) ==
    /\ Serve(t, "add")
    /\ meetings[m].status \in Active
    /\ RowsOf(m, e) = {}
    /\ web' = [web EXCEPT ![t] = [Read("addInsert", m) EXCEPT !.e = e]]
    /\ UNCHANGED <<storeVars, pexipVars>>

AddInsert(t) ==
    /\ web[t].pc = "addInsert"
    /\ Exists(web[t].m) /\ CanInsert(web[t].m, {web[t].e})
    /\ ReplaceRows(web[t].m, {}, {web[t].e})
    /\ Goto(t, "addCall")
    /\ UNCHANGED <<now, meetings, faults, pexipVars>>

AddCall(t) ==
    /\ web[t].pc = "addCall"
    /\ \E ok \in BOOLEAN :
        /\ Dial(web[t].m, web[t].e) \/ (~ok /\ UNCHANGED pexipVars)
        /\ web' = [web EXCEPT ![t] = [@ EXCEPT !.pc = "addWrite", !.ok = ok]]
    /\ UNCHANGED storeVars

AddWrite(t) ==
    LET m == web[t].m
    IN  /\ web[t].pc = "addWrite"
        /\ SetRows(m, RowsOf(m, web[t].e), IF web[t].ok THEN "redialed" ELSE "deleted")
        /\ Reply(t)
        /\ UNCHANGED <<now, meetings, faults, pexipVars>>

(* The UPDATE after a dial that succeeded raised: the handler deletes.     *)
AddLocked(t) ==
    /\ web[t].pc = "addWrite" /\ web[t].ok
    /\ Fault
    /\ DeleteRows(web[t].m, RowsOf(web[t].m, web[t].e))
    /\ Reply(t)
    /\ UNCHANGED <<now, meetings, pexipVars>>
----------------------------------------------------------------------------
(* .../remove_endpoint: disconnects the one participant that matches.      *)
RemoveRead(t, m, e) ==
    /\ Serve(t, "remove")
    /\ meetings[m].status \in Active
    /\ RowsOf(m, e) # {}
    /\ web' = [web EXCEPT ![t] = [Read("removeLive", m) EXCEPT !.e = e]]
    /\ UNCHANGED <<storeVars, pexipVars>>

(* The number of participants that match e; more than one is refused (409).*)
Matching(m, e) ==
    {legs[m][e]} \cup (IF e \in ringing[m] THEN {legs[m][e] + 1} ELSE {})

RemoveLive(t) ==
    /\ web[t].pc = "removeLive"
    /\ \E n \in Matching(web[t].m, web[t].e) :
        CASE n = 0 -> Goto(t, "removeDelete")
          [] n = 1 -> Goto(t, "removeCall")
          [] OTHER -> Reply(t)
    /\ UNCHANGED <<storeVars, pexipVars>>

(* A call that fails leaves the row; it may have been carried out.         *)
RemoveCall(t) ==
    /\ web[t].pc = "removeCall"
    /\ DisconnectOne(web[t].m, web[t].e)
    /\ Goto(t, "removeDelete") \/ Reply(t)
    /\ UNCHANGED storeVars

RemoveDelete(t) ==
    /\ web[t].pc = "removeDelete"
    /\ DeleteRows(web[t].m, RowsOf(web[t].m, web[t].e))
    /\ Reply(t)
    /\ UNCHANGED <<now, meetings, faults, pexipVars>>
----------------------------------------------------------------------------
(* The request ends early: a call to Pexip failed with no effect, the row  *)
(* was deleted meanwhile, the database was locked, or the process died.    *)
Abandon(t) ==
    /\ web[t].pc # "free"
    /\ Reply(t)
    /\ UNCHANGED <<storeVars, pexipVars>>

Manage ==
    \/ \E m \in MeetingIds, s \in Slots, E \in SUBSET Aliases : CreateMeeting(m, s, E)
    \/ \E m \in MeetingIds : DeleteMeeting(m)
    \/ \E m \in MeetingIds, E \in SUBSET Aliases : UpdateMeeting(m, E)
Edit(t) ==
    \/ \E m \in MeetingIds : EditRead(t, m)
    \/ \E s \in Slots, E \in SUBSET Aliases : EditScheduled(t, s, E)
    \/ EditActive(t)
    \/ \E m \in MeetingIds, d \in Minutes : ExtendRead(t, m, d)
    \/ ExtendWrite(t)
Redial(t) ==
    \/ \E m \in MeetingIds, k \in RowKeys : RedialRead(t, m, k)
    \/ RedialCall(t) \/ RedialWrite(t)
Add(t) ==
    \/ \E m \in MeetingIds, e \in Aliases : AddRead(t, m, e)
    \/ AddInsert(t) \/ AddCall(t) \/ AddWrite(t) \/ AddLocked(t)
Remove(t) ==
    \/ \E m \in MeetingIds, e \in Aliases : RemoveRead(t, m, e)
    \/ RemoveLive(t) \/ RemoveCall(t) \/ RemoveDelete(t)

ApiStep ==
    Manage \/ \E t \in Threads : Edit(t) \/ Redial(t) \/ Add(t) \/ Remove(t) \/ Abandon(t)
=============================================================================
