------------------------------- MODULE Worker -------------------------------
(***************************************************************************)
(* The scheduler worker (worker.py, app/scheduler_jobs.py): one process,   *)
(* one tick at a time (max_instances=1), which runs its four jobs in order *)
(*                                                                         *)
(*     recover_stuck_meetings -> expire_missed_meetings                    *)
(*                            -> end_due_meetings -> start_due_meetings    *)
(*                                                                         *)
(* Every commit and every HTTP call is a step of its own, because requests *)
(* of the web process, the clock and a crash can come between any two of   *)
(* them.  What a job read earlier it keeps in w, and uses it stale: the    *)
(* clock (cur), the candidates (todo) and which of them had passed their   *)
(* end (late), the endpoint rows it still has to dial (rows), the live     *)
(* participants (live).                                                    *)
(***************************************************************************)
EXTENDS Pexip

CONSTANT RecoveryMinutes        \* CRASH_RECOVERY_MINUTES

ASSUME WorkerAssumption == RecoveryMinutes \in Nat

VARIABLE w

RecoverAt == {"recover", "recStarting", "recToken", "recLive", "recGiveUp",
              "recEp", "recCommit", "recEnding", "recEndCommit"}
ExpireAt == {"expire", "expLoop"}
EndAt == {"end", "endLoop", "endCall", "endCommit"}
StartAt == {"start", "startLoop", "startToken", "startEp", "startCommit"}

PCs == {"down", "idle"} \cup RecoverAt \cup ExpireAt \cup EndAt \cup StartAt

WorkerState ==
    [pc: PCs,
     cur: Times,
     todo: SUBSET MeetingIds,       \* candidate rows not processed yet
     late: SUBSET MeetingIds,       \* of these, end_time <= cur when read
     m: MeetingIds \cup {None},     \* the row being processed
     rows: SUBSET RowKeys,          \* its endpoint rows still to process
     row: RowKeys \cup {None},      \* the one just dialled, to be recorded
     live: SUBSET Aliases,
     ok: BOOLEAN,                   \* all_ok, or the disconnect succeeded
     res: {"dialed", "error"}]      \* what to record for row

(* In these places the worker is busy with one meeting, in these with one  *)
(* of its endpoint rows.                                                   *)
Starting == {"startToken", "startEp", "startCommit", "recToken", "recLive", "recGiveUp",
             "recEp", "recCommit"}
Ending == {"endCall", "endCommit", "recEndCommit"}
Committing == {"startCommit", "recCommit"}

WorkerTypeOK ==
    /\ w \in WorkerState
    /\ w.pc \in Starting \cup Ending => w.m \in MeetingIds
    /\ w.pc \in Committing => w.row \in RowKeys

At(p) == [pc |-> p, cur |-> 0, todo |-> {}, late |-> {}, m |-> None, rows |-> {},
          row |-> None, live |-> {}, ok |-> TRUE, res |-> "dialed"]

WorkerInit == w = At("idle")

(* After a candidate the loop goes on with the next one.                   *)
NextCandidateAgain(p) ==                \* mutant: one that failed is tried again
    [At(p) EXCEPT !.cur = w.cur, !.todo = IF w.ok THEN w.todo \ {w.m} ELSE w.todo,
                  !.late = w.late]
NextCandidate(p) == [At(p) EXCEPT !.cur = w.cur, !.todo = w.todo \ {w.m}, !.late = w.late]
Skip(m) == [w EXCEPT !.todo = @ \ {m}]
BeginNameless(m, p) == [w EXCEPT !.pc = p]               \* mutant of Begin
Begin(m, p) == [w EXCEPT !.m = m, !.pc = p]

(* A row of meetings as the job's UPDATE leaves it.                        *)
StartedRow(m, status, at) ==
    [meetings[m] EXCEPT !.status = status, !.startedAt = at, !.updatedAt = w.cur]
EndedRowAtEnd(m, status) ==             \* mutant: ended_at is the booked end
    [meetings[m] EXCEPT !.status = status, !.endedAt = meetings[m].end, !.updatedAt = w.cur]
EndedRowUndated(m, status) ==           \* mutant: ended_at is not set
    [meetings[m] EXCEPT !.status = status, !.updatedAt = w.cur]
EndedRowMoved(m, status) ==             \* mutant: end_time becomes the actual end
    [meetings[m] EXCEPT !.status = status, !.end = w.cur, !.endedAt = w.cur, !.updatedAt = w.cur]
EndedRow(m, status) ==
    [meetings[m] EXCEPT !.status = status, !.endedAt = w.cur, !.updatedAt = w.cur]
ClaimedRow(m, status) == [meetings[m] EXCEPT !.status = status, !.updatedAt = w.cur]

TryDisconnectUnchecked(m, ok) ==        \* mutant: a failure counts as success
    Disconnect(m) \/ UNCHANGED pexipVars

(* A call that disconnects the conference of m: it succeeds, or it fails,  *)
(* and then it may have been carried out or not.                           *)
TryDisconnect(m, ok) ==
    \/ Disconnect(m)
    \/ ~ok /\ UNCHANGED pexipVars

(* A call that dials row k into m, likewise; a failed call stands also for *)
(* a failed request before it.                                             *)
TryDial(m, k, res) ==
    \/ Dial(m, k[1])
    \/ res = "error" /\ UNCHANGED pexipVars
----------------------------------------------------------------------------
(* scheduler_tick starts.  Its heartbeat row is read by /api/health only.  *)
BeginTick ==
    /\ w.pc = "idle"
    /\ w' = At("recover")
    /\ UNCHANGED <<storeVars, pexipVars>>
----------------------------------------------------------------------------
(* recover_stuck_meetings, first loop: meetings stuck in 'starting'.       *)
StuckInAnyStatus(status, cur) ==        \* mutant: the status is not in the WHERE
    {m \in MeetingIds : Exists(m) /\ meetings[m].updatedAt < cur - RecoveryMinutes}
Stuck(status, cur) ==
    {m \in MeetingIds : /\ meetings[m].status = status
                        /\ meetings[m].updatedAt < cur - RecoveryMinutes}

RecoverSelect ==
    /\ w.pc = "recover"
    /\ LET stuck == Stuck("starting", now)
       IN  w' = [At("recStarting") EXCEPT !.cur = now, !.todo = stuck,
                    !.late = {m \in stuck : meetings[m].end <= now}]
    /\ UNCHANGED <<storeVars, pexipVars>>

(* The window has passed: given up without any call to Pexip.              *)
RecoverPast(m) ==
    /\ w.pc = "recStarting" /\ m \in w.todo \cap w.late
    /\ UpdateWhere(m, {"starting"}, EndedRow(m, "ended_with_errors"))
    /\ w' = Skip(m)
    /\ UNCHANGED <<now, endpoints, faults, pexipVars>>

RecoverBegin(m) ==
    /\ w.pc = "recStarting" /\ m \in w.todo \ w.late
    /\ w' = Begin(m, "recToken")
    /\ UNCHANGED <<storeVars, pexipVars>>

(* _recover_starting_meeting.                                              *)
RecoverToken ==
    /\ w.pc = "recToken"
    /\ \E p \in {"recLive", "recGiveUp"} : w' = [w EXCEPT !.pc = p]
    /\ UNCHANGED <<storeVars, pexipVars>>

RowsToRedialAll(m) == Rows(m)           \* mutant: those dialled already too
RowsToRedial(m) == {k \in Rows(m) : endpoints[m][k] # "dialed"}

RecoverLive ==
    /\ w.pc = "recLive"
    /\ \/ \E L \in Listings(w.m) :
            w' = [w EXCEPT !.pc = "recEp", !.live = L, !.rows = RowsToRedial(w.m)]
       \/ w' = [w EXCEPT !.pc = "recGiveUp"]
    /\ UNCHANGED <<storeVars, pexipVars>>

RecoverGiveUp ==
    /\ w.pc = "recGiveUp"
    /\ UpdateWhere(w.m, {"starting"}, StartedRow(w.m, "started_with_errors", w.cur))
    /\ w' = NextCandidate("recStarting")
    /\ UNCHANGED <<now, endpoints, faults, pexipVars>>

SeenLive(k) == k[1] \in w.live

(* Connected already: recorded as dialled, no second call.                 *)
RecoverSeen(k) ==
    /\ w.pc = "recEp" /\ k \in w.rows /\ SeenLive(k)
    /\ SetRows(w.m, {k}, "dialed")
    /\ w' = [w EXCEPT !.rows = @ \ {k}]
    /\ UNCHANGED <<now, meetings, faults, pexipVars>>

RecoverDial(k) ==
    /\ w.pc = "recEp" /\ k \in w.rows /\ ~SeenLive(k)
    /\ \E res \in {"dialed", "error"} :
        /\ TryDial(w.m, k, res)
        /\ w' = [w EXCEPT !.pc = "recCommit", !.rows = @ \ {k}, !.row = k, !.res = res]
    /\ UNCHANGED storeVars

(* The outcome of the call just made is recorded in its row.               *)
RecordedAsOk(p, res) == [w EXCEPT !.pc = p, !.row = None]    \* mutant of Recorded
Recorded(p, res) == [w EXCEPT !.pc = p, !.row = None, !.ok = @ /\ res = "dialed"]

RecoverCommit ==
    /\ w.pc = "recCommit"
    /\ SetRows(w.m, {w.row}, w.res)
    /\ w' = Recorded("recEp", w.res)
    /\ UNCHANGED <<now, meetings, faults, pexipVars>>

RecoverFinish ==
    /\ w.pc = "recEp" /\ w.rows = {}
    /\ UpdateWhere(w.m, {"starting"},
            StartedRow(w.m, IF w.ok THEN "started" ELSE "started_with_errors",
                IF meetings[w.m].startedAt # Null THEN meetings[w.m].startedAt ELSE w.cur))
    /\ w' = NextCandidate("recStarting")
    /\ UNCHANGED <<now, endpoints, faults, pexipVars>>

(* Second loop: meetings stuck in 'ending'.                                *)
RecoverEndingSelect ==
    /\ w.pc = "recStarting" /\ w.todo = {}
    /\ w' = [At("recEnding") EXCEPT !.cur = w.cur, !.todo = Stuck("ending", w.cur)]
    /\ UNCHANGED <<storeVars, pexipVars>>

RecoverDisconnect(m) ==
    /\ w.pc = "recEnding" /\ m \in w.todo
    /\ \E ok \in BOOLEAN :
        /\ TryDisconnect(m, ok)
        /\ w' = [Begin(m, "recEndCommit") EXCEPT !.ok = ok]
    /\ UNCHANGED storeVars

RecoverEnded ==
    /\ w.pc = "recEndCommit"
    /\ UpdateWhere(w.m, {"ending"},
            EndedRow(w.m, IF w.ok THEN "ended" ELSE "ended_with_errors"))
    /\ w' = NextCandidate("recEnding")
    /\ UNCHANGED <<now, endpoints, faults, pexipVars>>

RecoverDone ==
    /\ w.pc = "recEnding" /\ w.todo = {}
    /\ w' = At("expire")
    /\ UNCHANGED <<storeVars, pexipVars>>
----------------------------------------------------------------------------
(* expire_missed_meetings.                                                 *)
ExpireSelect ==
    /\ w.pc = "expire"
    /\ w' = [At("expLoop") EXCEPT !.cur = now,
                !.todo = {m \in MeetingIds : /\ meetings[m].status = "scheduled"
                                             /\ meetings[m].end <= now}]
    /\ UNCHANGED <<storeVars, pexipVars>>

ExpireOne(m) ==
    /\ w.pc = "expLoop" /\ m \in w.todo
    /\ UpdateWhere(m, {"scheduled"}, EndedRow(m, "ended_with_errors"))
    /\ w' = Skip(m)
    /\ UNCHANGED <<now, endpoints, faults, pexipVars>>

ExpireDone ==
    /\ w.pc = "expLoop" /\ w.todo = {}
    /\ w' = At("end")
    /\ UNCHANGED <<storeVars, pexipVars>>
----------------------------------------------------------------------------
(* end_due_meetings.                                                       *)
EndDueNow(cur) ==                       \* mutant: misses an end that is past
    {m \in MeetingIds : meetings[m].status \in Active /\ meetings[m].end = cur}
EndDue(cur) ==
    {m \in MeetingIds : /\ meetings[m].status \in Active
                        /\ meetings[m].end <= cur
                        /\ meetings[m].endedAt = Null}

EndSelect ==
    /\ w.pc = "end"
    /\ w' = [At("endLoop") EXCEPT !.cur = now, !.todo = EndDue(now)]
    /\ UNCHANGED <<storeVars, pexipVars>>

(* The claim looks at the status again, not at the end time.               *)
CanClaimEnd(m) == meetings[m].status \in Active /\ meetings[m].endedAt = Null

EndClaim(m) ==
    /\ w.pc = "endLoop" /\ m \in w.todo
    /\ IF CanClaimEnd(m)
       THEN /\ meetings' = [meetings EXCEPT ![m] = ClaimedRow(m, "ending")]
            /\ w' = Begin(m, "endCall")
       ELSE /\ meetings' = meetings
            /\ w' = Skip(m)
    /\ UNCHANGED <<now, endpoints, faults, pexipVars>>

EndDisconnect ==
    /\ w.pc = "endCall"
    /\ \E ok \in BOOLEAN :
        /\ TryDisconnect(w.m, ok)
        /\ w' = [w EXCEPT !.pc = "endCommit", !.ok = ok]
    /\ UNCHANGED storeVars

EndCommit ==
    /\ w.pc = "endCommit"
    /\ UpdateWhere(w.m, {"ending"},
            EndedRow(w.m, IF w.ok THEN "ended" ELSE "ended_with_errors"))
    /\ SetRows(w.m, RowKeys, "ended")
    /\ w' = NextCandidate("endLoop")
    /\ UNCHANGED <<now, faults, pexipVars>>

EndDone ==
    /\ w.pc = "endLoop" /\ w.todo = {}
    /\ w' = At("start")
    /\ UNCHANGED <<storeVars, pexipVars>>
----------------------------------------------------------------------------
(* start_due_meetings.                                                     *)
StartDueEarly(cur) ==                   \* mutant: start_time is not compared
    {m \in MeetingIds : meetings[m].status = "scheduled" /\ meetings[m].end > cur}
StartDue(cur) ==
    {m \in MeetingIds : /\ meetings[m].status = "scheduled"
                        /\ meetings[m].start <= cur
                        /\ meetings[m].end > cur}

StartSelect ==
    /\ w.pc = "start"
    /\ w' = [At("startLoop") EXCEPT !.cur = now, !.todo = StartDue(now)]
    /\ UNCHANGED <<storeVars, pexipVars>>

(* The claim looks at the status again, not at the times.                  *)
CanClaimStart(m) == meetings[m].status = "scheduled"

StartClaim(m) ==
    /\ w.pc = "startLoop" /\ m \in w.todo
    /\ IF CanClaimStart(m)
       THEN /\ meetings' = [meetings EXCEPT ![m] = ClaimedRow(m, "starting")]
            /\ w' = Begin(m, "startToken")
       ELSE /\ meetings' = meetings
            /\ w' = Skip(m)
    /\ UNCHANGED <<now, endpoints, faults, pexipVars>>

(* The endpoint rows are read, then the token is requested; without one no *)
(* endpoint is dialled.  Errors of start_conference are ignored.           *)
StartToken ==
    /\ w.pc = "startToken"
    /\ \E ok \in BOOLEAN :
        w' = [w EXCEPT !.pc = "startEp", !.ok = ok, !.rows = IF ok THEN Rows(w.m) ELSE {}]
    /\ UNCHANGED <<storeVars, pexipVars>>

StartDial(k) ==
    /\ w.pc = "startEp" /\ k \in w.rows
    /\ \E res \in {"dialed", "error"} :
        /\ TryDial(w.m, k, res)
        /\ w' = [w EXCEPT !.pc = "startCommit", !.rows = @ \ {k}, !.row = k, !.res = res]
    /\ UNCHANGED storeVars

StartCommit ==
    /\ w.pc = "startCommit"
    /\ SetRows(w.m, {w.row}, w.res)
    /\ w' = Recorded("startEp", w.res)
    /\ UNCHANGED <<now, meetings, faults, pexipVars>>

StartFinish ==
    /\ w.pc = "startEp" /\ w.rows = {}
    /\ UpdateWhere(w.m, {"starting"},
            StartedRow(w.m, IF w.ok THEN "started" ELSE "started_with_errors", w.cur))
    /\ w' = NextCandidate("startLoop")
    /\ UNCHANGED <<now, endpoints, faults, pexipVars>>

StartDone ==
    /\ w.pc = "startLoop" /\ w.todo = {}
    /\ w' = At("idle")
    /\ UNCHANGED <<storeVars, pexipVars>>
----------------------------------------------------------------------------
(* "database is locked": another connection keeps the write lock longer    *)
(* than busy_timeout, and the UPDATE raises.                               *)

(* Outside the inner try blocks the exception leaves the job, and          *)
(* scheduler_tick goes on with the next one.  In the rows that record a    *)
(* dial or a disconnect, it is the handler's own UPDATE that raised.       *)
WritePending ==
    \/ w.pc = "recStarting" /\ w.todo \cap w.late # {}
    \/ w.pc \in {"recEp", "startEp"} /\ w.rows = {}
    \/ w.pc = "recEp" /\ \E k \in w.rows : SeenLive(k)
    \/ w.pc \in {"expLoop", "endLoop", "startLoop"} /\ w.todo # {}
    \/ w.pc \in {"recGiveUp", "recCommit", "recEndCommit", "endCommit"}

NextJob == CASE w.pc \in RecoverAt -> "expire"
             [] w.pc \in ExpireAt -> "end"
             [] w.pc \in EndAt -> "start"
             [] OTHER -> "idle"

LockedJob ==
    /\ WritePending
    /\ Fault
    /\ w' = At(NextJob)
    /\ UNCHANGED <<now, meetings, endpoints, pexipVars>>

(* The UPDATE to 'dialed' raised, the one to 'error' in the handler worked.*)
LockedSeen(k) ==
    /\ w.pc = "recEp" /\ k \in w.rows /\ SeenLive(k)
    /\ Fault
    /\ SetRows(w.m, {k}, "error")
    /\ w' = [w EXCEPT !.rows = @ \ {k}, !.ok = FALSE]
    /\ UNCHANGED <<now, meetings, pexipVars>>

LockedDial ==
    /\ w.pc \in {"recCommit", "startCommit"} /\ w.res = "dialed"
    /\ Fault
    /\ SetRows(w.m, {w.row}, "error")
    /\ w' = Recorded(IF w.pc = "recCommit" THEN "recEp" ELSE "startEp", "error")
    /\ UNCHANGED <<now, meetings, pexipVars>>

(* In start_due_meetings the handler's UPDATE raised too: the outer        *)
(* handler gives up the remaining endpoints.                               *)
LockedStart ==
    /\ w.pc = "startCommit"
    /\ Fault
    /\ w' = [Recorded("startEp", "error") EXCEPT !.rows = {}]
    /\ UNCHANGED <<now, meetings, endpoints, pexipVars>>

(* In recovery of 'ending' the handler records 'ended_with_errors'.        *)
LockedEnded ==
    /\ w.pc = "recEndCommit" /\ w.ok
    /\ Fault
    /\ UpdateWhere(w.m, {"ending"}, EndedRow(w.m, "ended_with_errors"))
    /\ w' = NextCandidate("recEnding")
    /\ UNCHANGED <<now, endpoints, pexipVars>>

Crash ==
    /\ w.pc # "down"
    /\ Fault
    /\ w' = At("down")
    /\ UNCHANGED <<now, meetings, endpoints, pexipVars>>

(* systemd restarts the unit (Restart=always).                             *)
Restart ==
    /\ w.pc = "down"
    /\ w' = At("idle")
    /\ UNCHANGED <<storeVars, pexipVars>>
----------------------------------------------------------------------------
Recover ==
    \/ RecoverSelect \/ RecoverToken \/ RecoverLive \/ RecoverGiveUp \/ RecoverCommit
    \/ RecoverFinish \/ RecoverEndingSelect \/ RecoverEnded \/ RecoverDone
    \/ \E m \in MeetingIds : RecoverPast(m) \/ RecoverBegin(m) \/ RecoverDisconnect(m)
    \/ \E k \in RowKeys : RecoverSeen(k) \/ RecoverDial(k)
Expire == ExpireSelect \/ ExpireDone \/ \E m \in MeetingIds : ExpireOne(m)
End ==
    \/ EndSelect \/ EndDisconnect \/ EndCommit \/ EndDone
    \/ \E m \in MeetingIds : EndClaim(m)
Start ==
    \/ StartSelect \/ StartToken \/ StartCommit \/ StartFinish \/ StartDone
    \/ \E m \in MeetingIds : StartClaim(m)
    \/ \E k \in RowKeys : StartDial(k)
Faulty ==
    \/ LockedJob \/ LockedDial \/ LockedStart \/ LockedEnded \/ Crash
    \/ \E k \in RowKeys : LockedSeen(k)

(* What the worker does of its own accord, and what happens to it.         *)
WorkerRuns == BeginTick \/ Recover \/ Expire \/ End \/ Start \/ Restart
WorkerStep == WorkerRuns \/ Faulty
=============================================================================
