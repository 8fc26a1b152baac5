------------------------------- MODULE System -------------------------------
(***************************************************************************)
(* The whole scheduler: the worker and the web process over the shared     *)
(* database and the Pexip node.                                            *)
(***************************************************************************)
EXTENDS Worker, MeetingsApi

vars == <<now, meetings, endpoints, faults, ringing, legs, w, web>>

Init == StoreInit /\ PexipInit /\ WorkerInit /\ ApiInit

Calls ==
    \E m \in MeetingIds, e \in Aliases : Answer(m, e) \/ GiveUp(m, e) \/ HangUp(m, e)

Next ==
    \/ WorkerStep /\ UNCHANGED web
    \/ ApiStep /\ UNCHANGED w
    \/ Calls /\ UNCHANGED <<w, web>>
    \/ Tick /\ UNCHANGED <<pexipVars, w, web>>

Spec == Init /\ [][Next]_vars

(* The worker's thread runs, systemd restarts it, and time passes.  There  *)
(* is no fairness on requests, faults or the called endpoints.             *)
Fairness ==
    /\ WF_vars(WorkerRuns /\ UNCHANGED web)
    /\ WF_vars(Tick /\ UNCHANGED <<pexipVars, w, web>>)

FairSpec == Spec /\ Fairness
----------------------------------------------------------------------------
TypeOK == StoreTypeOK /\ PexipTypeOK /\ WorkerTypeOK /\ ApiTypeOK

(* Whatever happens, the rows of meetings follow the lifecycle             *)
(* scheduled, starting, started, ending, ended.  The claims and the        *)
(* guarded UPDATEs of scheduler_jobs.py are there for this.                *)
Life == INSTANCE MeetingLifecycle WITH
            status <- [m \in MeetingIds |-> meetings[m].status],
            begun <- [m \in MeetingIds |-> meetings[m].startedAt # Null],
            done <- [m \in MeetingIds |-> meetings[m].endedAt # Null]
LifecycleSpec == Life!Spec

(* What the calendar reads of the tables changes as Calendar says it does, *)
(* and in no other way: each commit is one of the changes its lists and    *)
(* labels are made for.  (The warning time is part of no change.)          *)
OneStatus == [s \in Stored |-> IF s \in Active THEN "started" ELSE s]
ShownEndpoints(m) == {k[1] : k \in Rows(m)}
ShownRow(m) ==
    [status |-> OneStatus[meetings[m].status], start |-> meetings[m].start,
     end |-> meetings[m].end, started |-> meetings[m].startedAt # Null,
     endpoints |-> ShownEndpoints(m)]
Shown == INSTANCE Calendar WITH
            Meetings <- MeetingIds, Endpoints <- Aliases,
            Second <- 1, Day <- MaxTime + 1, LastDay <- 0, AboutToStart <- 0,
            table <- [m \in MeetingIds |-> IF Exists(m) THEN ShownRow(m) ELSE None],
            gone <- {m \in MeetingIds : meetings[m].status = "deleted"}
ShownSpec == Shown!CalendarSpec
ASSUME ShownAssumption == None \notin Shown!Row

(* While the worker works on a meeting it claimed, no other process and no *)
(* other job moves it: it is as claimed, or it was deleted.                *)
OwnsClaim ==
    /\ w.pc \in Starting => meetings[w.m].status \in {"starting", "deleted"}
    /\ w.pc \in Ending => meetings[w.m].status \in {"ending", "deleted"}

(* The worker never dials an endpoint whose row says it has been dialled:  *)
(* neither a second tick, nor recovery after a crash, nor a retry after a  *)
(* locked database calls it again.                                         *)
WorkerDials(k) == w.pc \in {"startEp", "recEp"} /\ w.row # k /\ w'.row = k
NeverDialedTwice ==
    [][\A k \in RowKeys : WorkerDials(k) => endpoints[w.m][k] # "dialed"]_vars

(* started_at, ended_at are in order although each is the clock of the     *)
(* start of a job, not of the write.                                       *)
TimesInOrder ==
    \A m \in MeetingIds :
        /\ meetings[m].startedAt <= now /\ meetings[m].endedAt <= now
        /\ meetings[m].endedAt # Null => meetings[m].startedAt <= meetings[m].endedAt

(* A meeting recorded as ended, without errors, has nobody connected or    *)
(* being called, unless operators dial by hand.                            *)
EndedIsQuiet == \A m \in MeetingIds : meetings[m].status = "ended" => Quiet(m)

(* A meeting recorded as started, without errors, had all its endpoints    *)
(* dialled, unless operators change its endpoints.                         *)
StartedMeansDialed ==
    \A m \in MeetingIds : meetings[m].status = "started" =>
        \A k \in Rows(m) : endpoints[m][k] \in {"dialed", "redialed"}

(* If its times are not changed, a meeting is not started before its       *)
(* start nor ended before its end.                                         *)
OnTime ==
    \A m \in MeetingIds :
        /\ meetings[m].status \in {"starting"} \cup Active => meetings[m].start <= now
        /\ meetings[m].status \in {"ending"} \cup Over => meetings[m].end <= now

(* A tick gets nearer to its end with every step, whatever happens to the  *)
(* rows, calls and locks meanwhile: it goes on to a later stage, or has    *)
(* one candidate less, or is further with this candidate, or has one row   *)
(* less to dial, or has recorded the row it dialled.  There are only so    *)
(* many of each, so no tick goes round for ever.                           *)
Stage(p) ==
    CASE p = "recover" -> 0
      [] p \in RecoverAt \ {"recover", "recEnding", "recEndCommit"} -> 1
      [] p \in {"recEnding", "recEndCommit"} -> 2
      [] p = "expire" -> 3
      [] p = "expLoop" -> 4
      [] p = "end" -> 5
      [] p \in EndAt \ {"end"} -> 6
      [] p = "start" -> 7
      [] p \in StartAt \ {"start"} -> 8
      [] OTHER -> 9
Place(p) ==
    CASE p \in {"recToken", "recEndCommit", "endCall", "startToken"} -> 1
      [] p \in {"recLive", "endCommit"} -> 2
      [] p \in {"recGiveUp", "recEp", "recCommit", "startEp", "startCommit"} -> 3
      [] OTHER -> 0
FewerRows ==
    /\ w'.rows \subseteq w.rows
    /\ w'.rows # w.rows \/ (w.pc \in Committing /\ w'.pc \notin Committing)
Nearer ==
    \/ Stage(w'.pc) > Stage(w.pc)
    \/ /\ Stage(w'.pc) = Stage(w.pc)
       /\ \/ w'.todo \subseteq w.todo /\ w'.todo # w.todo
          \/ /\ w'.todo = w.todo
             /\ \/ Place(w'.pc) > Place(w.pc)
                \/ Place(w'.pc) = Place(w.pc) /\ FewerRows
TicksEnd == [][w.pc \notin {"idle", "down"} => Nearer]_w

(* A meeting ends after it starts, as long as no two requests change its   *)
(* times at once: each compares the new end with the start it read.        *)
EndAfterStart == \A m \in MeetingIds : Exists(m) => meetings[m].start < meetings[m].end

(* Once requests and faults stop, every meeting comes to its end: none is  *)
(* stuck in 'starting' or 'ending', or forgotten.                          *)
EveryMeetingFinishes ==
    \A m \in MeetingIds : Exists(m) ~> meetings[m].status \in Over \cup {"deleted"}
----------------------------------------------------------------------------
(* What the documents and comments of the repository say, and the code     *)
(* does not keep: TLC refutes each of these.                               *)

(* deploy/TEST_PLAN.md: an endpoint row "never remains `scheduled` after   *)
(* the meeting reaches `started`/`started_with_errors`".  Without a token  *)
(* start_due_meetings dials nobody and leaves the rows as they are.        *)
NeverLeftScheduled ==
    \A m \in MeetingIds : meetings[m].status \in Active =>
        \A k \in Rows(m) : endpoints[m][k] # "scheduled"

(* README.md: the scheduler "disconnects [the endpoints] at the scheduled  *)
(* end time".  The claim of end_due_meetings does not look at end_time     *)
(* again, so an extension committed after the SELECT is lost.              *)
EndsAtEndTime ==
    [][\A m \in MeetingIds :
        meetings'[m].status = "ending" /\ meetings[m].status # "ending"
            => meetings[m].end <= now]_vars

(* README.md: "Disconnects endpoints at meeting end".  Recovery gives up a *)
(* meeting whose window passed while it was starting without a disconnect, *)
(* though some of its endpoints have been dialled.  A meeting that becomes *)
(* over has nobody connected, unless its disconnect failed.                *)
EndingDisconnects ==
    [][\A m \in MeetingIds :
        /\ meetings[m].status \notin Over /\ meetings'[m].status \in Over
        /\ w.ok
        => Quiet(m)]_vars

(* meetings.py, api_edit_meeting: scheduled meetings may be edited in all  *)
(* fields, active ones in end_time and notes, "All other statuses are      *)
(* rejected."  The status is read before the write and not checked by it.  *)
EditsAsAllowed ==
    [][\A t \in Threads :
        web[t].pc = "editWrite" /\ meetings' # meetings /\ web'[t] = Free
            => meetings[web[t].m].status
                    \in IF web[t].active THEN Active ELSE {"scheduled"}]_vars
=============================================================================
