--------------------------- MODULE LifecycleProofs ---------------------------
(***************************************************************************)
(* System implements MeetingLifecycle: whatever the requests, the faults   *)
(* and the calls do, each row of meetings goes through the statuses in     *)
(* order, and started_at and ended_at are set when they should be.         *)
(*                                                                         *)
(* The steps of System are first reduced to what they do to the three      *)
(* columns of one row (MeetingsStep); the invariant and the refinement     *)
(* follow from that alone.  The second part is about the order of the two  *)
(* times, the third about when a meeting starts and ends, the fourth about *)
(* what the calendar shows of all this: System implements Calendar.  The   *)
(* last part is about the start and the end a meeting is given.            *)
(***************************************************************************)
EXTENDS SystemProofs

(* The statuses say which of started_at and ended_at are set.              *)
ColumnsAgree ==
    \A m \in MeetingIds :
        /\ meetings[m].status \in {"unused", "deleted", "scheduled", "starting"}
              => meetings[m].startedAt = Null /\ meetings[m].endedAt = Null
        /\ meetings[m].status \in Active \cup {"ending"}
              => meetings[m].startedAt # Null /\ meetings[m].endedAt = Null
        /\ meetings[m].status \in Over => meetings[m].endedAt # Null

(* The job that runs has read the clock, into w.cur.                       *)
InJob == w.pc \notin {"down", "idle", "recover", "expire", "end", "start"}

Kept(m) ==
    /\ meetings'[m].status = meetings[m].status
    /\ meetings'[m].startedAt = meetings[m].startedAt
    /\ meetings'[m].endedAt = meetings[m].endedAt

Booked(m) ==
    /\ meetings[m].status = "unused" /\ meetings'[m].status = "scheduled"
    /\ meetings'[m].startedAt = Null /\ meetings'[m].endedAt = Null
Claimed(m) ==
    /\ \/ meetings[m].status = "scheduled" /\ meetings'[m].status = "starting"
       \/ meetings[m].status \in Active /\ meetings'[m].status = "ending"
    /\ meetings'[m].startedAt = meetings[m].startedAt
    /\ meetings'[m].endedAt = meetings[m].endedAt
Begun(m) ==
    /\ meetings[m].status = "starting" /\ meetings'[m].status \in Active
    /\ meetings'[m].startedAt \in {w.cur, meetings[m].startedAt} \ {Null}
    /\ meetings'[m].endedAt = meetings[m].endedAt
Finished(m) ==
    /\ \/ meetings[m].status = "ending" /\ meetings'[m].status \in Over
       \/ /\ meetings[m].status \in {"scheduled", "starting"}
          /\ meetings'[m].status = "ended_with_errors"
    /\ meetings'[m].startedAt = meetings[m].startedAt
    /\ InJob /\ meetings'[m].endedAt = w.cur /\ w.cur # Null
Dropped(m) ==
    /\ meetings[m].status \in Stored /\ meetings'[m].status = "deleted"
    /\ meetings'[m].startedAt = Null /\ meetings'[m].endedAt = Null

Moved(m) == Booked(m) \/ Claimed(m) \/ Begun(m) \/ Finished(m) \/ Dropped(m)

(* At most one row changes in these columns.                               *)
RowStep ==
    \/ \A m \in MeetingIds : Kept(m)
    \/ \E m \in MeetingIds : Moved(m) /\ \A n \in MeetingIds \ {m} : Kept(n)
----------------------------------------------------------------------------
LEMMA SameMeetings == UNCHANGED meetings => RowStep
  BY DEF RowStep, Kept

LEMMA OneRow ==
    ASSUME NEW m \in MeetingIds, NEW r, StoreTypeOK, Moved(m) \/ Kept(m),
           meetings' = [meetings EXCEPT ![m] = r]
    PROVE  RowStep
  <1>1. \A n \in MeetingIds \ {m} : Kept(n)
    BY DEF StoreTypeOK, Kept
  <1> QED BY <1>1 DEF RowStep

LEMMA CurrentTime == WorkerTypeOK => w.cur # Null
  BY StoreAssumption DEF WorkerTypeOK, WorkerState, Times, Null

(* The guarded UPDATEs of the jobs.                                        *)
LEMMA StartedUpdate ==
    ASSUME NEW m \in MeetingIds, NEW s \in Active, StoreTypeOK,
           NEW t \in {w.cur, meetings[m].startedAt} \cap Times,
           UpdateWhere(m, {"starting"}, StartedRow(m, s, t))
    PROVE  RowStep
  <1>1. CASE meetings[m].status = "starting"
    <2>1. t # Null
      BY StoreAssumption DEF Times, Null
    <2>2. meetings' = [meetings EXCEPT ![m] = StartedRow(m, s, t)]
      BY <1>1 DEF UpdateWhere
    <2>3. Begun(m)
      BY <1>1, <2>1, <2>2 DEF Begun, StartedRow, StoreTypeOK, MeetingRow
    <2> QED BY <2>2, <2>3, OneRow DEF Moved
  <1>2. CASE meetings[m].status # "starting"
    BY <1>2, SameMeetings DEF UpdateWhere
  <1> QED BY <1>1, <1>2

LEMMA EndedUpdate ==
    ASSUME NEW m \in MeetingIds, NEW from, NEW s \in Over, StoreTypeOK, WorkerTypeOK, InJob,
           from = {"ending"} \/ (from \in {{"starting"}, {"scheduled"}} /\ s = "ended_with_errors"),
           UpdateWhere(m, from, EndedRow(m, s))
    PROVE  RowStep
  <1>1. CASE meetings[m].status \in from
    <2>1. meetings' = [meetings EXCEPT ![m] = EndedRow(m, s)]
      BY <1>1 DEF UpdateWhere
    <2>2. /\ meetings'[m].status = s
          /\ meetings'[m].startedAt = meetings[m].startedAt
          /\ meetings'[m].endedAt = w.cur
      BY <2>1 DEF EndedRow, StoreTypeOK, MeetingRow
    <2>3. Finished(m)
      BY <1>1, <2>2, CurrentTime DEF Finished
    <2> QED BY <2>1, <2>3, OneRow DEF Moved
  <1>2. CASE meetings[m].status \notin from
    BY <1>2, SameMeetings DEF UpdateWhere
  <1> QED BY <1>1, <1>2

LEMMA ClaimUpdate ==
    ASSUME NEW m \in MeetingIds, NEW s, StoreTypeOK,
           \/ meetings[m].status = "scheduled" /\ s = "starting"
           \/ meetings[m].status \in Active /\ s = "ending",
           meetings' = [meetings EXCEPT ![m] = ClaimedRow(m, s)]
    PROVE  RowStep
  <1>1. Claimed(m)
    BY DEF Claimed, ClaimedRow, StoreTypeOK, MeetingRow
  <1> QED BY <1>1, OneRow DEF Moved

(* The requests that write meetings without touching these columns.        *)
LEMMA TimesUpdate ==
    ASSUME NEW m \in MeetingIds, NEW r \in MeetingRow, StoreTypeOK,
           r.status = meetings[m].status, r.startedAt = meetings[m].startedAt,
           r.endedAt = meetings[m].endedAt,
           meetings' = [meetings EXCEPT ![m] = r]
    PROVE  RowStep
  <1>1. Kept(m)
    BY DEF Kept, StoreTypeOK
  <1> QED BY <1>1, OneRow
----------------------------------------------------------------------------
LEMMA RecoverRows ==
    ASSUME TypeOK, Recover
    PROVE  RowStep
  <1> USE DEF TypeOK
  <1>w. w.cur \in Times
    BY DEF WorkerTypeOK, WorkerState
  <1>1. CASE \/ RecoverSelect \/ RecoverToken \/ RecoverLive \/ RecoverCommit
             \/ RecoverEndingSelect \/ RecoverDone
    BY <1>1, SameMeetings DEF RecoverSelect, RecoverToken, RecoverLive, RecoverCommit,
       RecoverEndingSelect, RecoverDone, storeVars
  <1>2. CASE RecoverGiveUp
    BY <1>2, <1>w, StartedUpdate DEF RecoverGiveUp, WorkerTypeOK, Starting, Active
  <1>3. CASE RecoverFinish
    <2> DEFINE s == IF w.ok THEN "started" ELSE "started_with_errors"
               t == IF meetings[w.m].startedAt # Null THEN meetings[w.m].startedAt ELSE w.cur
    <2>1. w.m \in MeetingIds
      BY <1>3 DEF RecoverFinish, WorkerTypeOK, Starting
    <2>2. s \in Active /\ t \in {w.cur, meetings[w.m].startedAt} \cap Times
      BY <1>w, <2>1 DEF Active, StoreTypeOK, MeetingRow
    <2>3. UpdateWhere(w.m, {"starting"}, StartedRow(w.m, s, t))
      BY <1>3 DEF RecoverFinish
    <2> HIDE DEF s, t
    <2> QED BY <2>1, <2>2, <2>3, StartedUpdate
  <1>4. CASE RecoverEnded
    BY <1>4, EndedUpdate DEF InJob, RecoverEnded, WorkerTypeOK, Ending, Over
  <1>5. ASSUME NEW m \in MeetingIds, RecoverPast(m) PROVE RowStep
    BY <1>5, EndedUpdate DEF InJob, RecoverPast, Over
  <1>6. ASSUME NEW m \in MeetingIds, RecoverBegin(m) \/ RecoverDisconnect(m) PROVE RowStep
    BY <1>6, SameMeetings DEF RecoverBegin, RecoverDisconnect, storeVars
  <1>7. ASSUME NEW k \in RowKeys, RecoverSeen(k) \/ RecoverDial(k) PROVE RowStep
    BY <1>7, SameMeetings DEF RecoverSeen, RecoverDial, storeVars
  <1> QED BY <1>1, <1>2, <1>3, <1>4, <1>5, <1>6, <1>7 DEF Recover

LEMMA OtherJobRows ==
    ASSUME TypeOK, Expire \/ End \/ Start
    PROVE  RowStep
  <1> USE DEF TypeOK
  <1>w. w.cur \in Times
    BY DEF WorkerTypeOK, WorkerState
  <1>1. CASE \/ ExpireSelect \/ ExpireDone \/ EndSelect \/ EndDisconnect \/ EndDone
             \/ StartSelect \/ StartToken \/ StartCommit \/ StartDone
    BY <1>1, SameMeetings DEF ExpireSelect, ExpireDone, EndSelect, EndDisconnect, EndDone,
       StartSelect, StartToken, StartCommit, StartDone, storeVars
  <1>2. ASSUME NEW m \in MeetingIds, ExpireOne(m) PROVE RowStep
    BY <1>2, EndedUpdate DEF InJob, ExpireOne, Over
  <1>3. ASSUME NEW m \in MeetingIds, EndClaim(m) PROVE RowStep
    BY <1>3, ClaimUpdate, SameMeetings DEF EndClaim, CanClaimEnd
  <1>4. CASE EndCommit
    BY <1>4, EndedUpdate DEF InJob, EndCommit, WorkerTypeOK, Ending, Over
  <1>5. ASSUME NEW m \in MeetingIds, StartClaim(m) PROVE RowStep
    BY <1>5, ClaimUpdate, SameMeetings DEF StartClaim, CanClaimStart
  <1>6. CASE StartFinish
    BY <1>6, <1>w, StartedUpdate DEF StartFinish, WorkerTypeOK, Starting, Active
  <1>7. ASSUME NEW k \in RowKeys, StartDial(k) PROVE RowStep
    BY <1>7, SameMeetings DEF StartDial, storeVars
  <1> QED BY <1>1, <1>2, <1>3, <1>4, <1>5, <1>6, <1>7 DEF Expire, End, Start

LEMMA FaultyRows ==
    ASSUME TypeOK, Faulty
    PROVE  RowStep
  <1>1. CASE LockedJob \/ LockedDial \/ LockedStart \/ Crash
    BY <1>1, SameMeetings DEF LockedJob, LockedDial, LockedStart, Crash
  <1>2. CASE LockedEnded
    BY <1>2, EndedUpdate DEF InJob, TypeOK, LockedEnded, WorkerTypeOK, Ending, Over
  <1>3. ASSUME NEW k \in RowKeys, LockedSeen(k) PROVE RowStep
    BY <1>3, SameMeetings DEF LockedSeen
  <1> QED BY <1>1, <1>2, <1>3 DEF Faulty

LEMMA ManageRows ==
    ASSUME TypeOK, Manage
    PROVE  RowStep
  <1> USE DEF TypeOK
  <1>1. ASSUME NEW m \in MeetingIds, NEW slot \in Slots, NEW E \in SUBSET Aliases,
               CreateMeeting(m, slot, E)
        PROVE  RowStep
    <2>1. Booked(m)
      BY <1>1 DEF CreateMeeting, Booked, StoreTypeOK
    <2> QED BY <1>1, <2>1, OneRow DEF CreateMeeting, Moved
  <1>2. ASSUME NEW m \in MeetingIds, DeleteMeeting(m) PROVE RowStep
    <2>1. Dropped(m)
      BY <1>2 DEF DeleteMeeting, Exists, Dropped, StoreTypeOK, UnusedMeeting
    <2> QED BY <1>2, <2>1, OneRow DEF DeleteMeeting, Moved
  <1>3. ASSUME NEW m \in MeetingIds, NEW E \in SUBSET Aliases, UpdateMeeting(m, E)
        PROVE  RowStep
    <2> DEFINE r == [meetings[m] EXCEPT !.updatedAt = now]
    <2>1. /\ r \in MeetingRow /\ r.status = meetings[m].status
          /\ r.startedAt = meetings[m].startedAt /\ r.endedAt = meetings[m].endedAt
      BY DEF StoreTypeOK, MeetingRow
    <2>2. meetings' = [meetings EXCEPT ![m] = r]
      BY <1>3 DEF UpdateMeeting
    <2> QED BY <2>1, <2>2, TimesUpdate
  <1> QED BY <1>1, <1>2, <1>3 DEF Manage

LEMMA EditRows ==
    ASSUME TypeOK, NEW t \in Threads, Edit(t)
    PROVE  RowStep
  <1> USE DEF TypeOK
  <1> DEFINE m == web[t].m
  <1>1. ASSUME NEW n \in MeetingIds, EditRead(t, n) PROVE RowStep
    BY <1>1, SameMeetings DEF EditRead, storeVars
  <1>2. ASSUME NEW n \in MeetingIds, NEW d \in Minutes, ExtendRead(t, n, d) PROVE RowStep
    BY <1>2, SameMeetings DEF ExtendRead, storeVars
  <1>3. ASSUME NEW slot \in Slots, NEW E \in SUBSET Aliases, EditScheduled(t, slot, E)
        PROVE  RowStep
    <2> DEFINE r == [meetings[m] EXCEPT !.start = slot[1], !.end = slot[2],
                                        !.updatedAt = web[t].at]
    <2>1. m \in MeetingIds /\ web[t] \in ThreadState
      BY <1>3 DEF EditScheduled, ApiTypeOK, WellFormed
    <2>s. slot[1] \in Times /\ slot[2] \in Times
      BY ApiAssumption
    <2>2. /\ r \in MeetingRow /\ r.status = meetings[m].status
          /\ r.startedAt = meetings[m].startedAt /\ r.endedAt = meetings[m].endedAt
      <3>1. meetings[m] \in MeetingRow /\ web[t].at \in Times
        BY <2>1 DEF StoreTypeOK, ThreadState
      <3>2. r \in MeetingRow /\ SameColumns(meetings[m], r)
        BY ONLY <2>s, <3>1, EditedRow
      <3> QED BY <3>2 DEF SameColumns
    <2>3. meetings' = [meetings EXCEPT ![m] = r]
      BY <1>3, <2>1 DEF EditScheduled, StoreTypeOK
    <2> QED BY <2>1, <2>2, <2>3, TimesUpdate
  <1>4. CASE EditActive(t) \/ ExtendWrite(t)
    <2> DEFINE r == [meetings[m] EXCEPT !.end = web[t].end, !.updatedAt = web[t].at]
    <2>1. m \in MeetingIds /\ web[t] \in ThreadState
      BY <1>4 DEF EditActive, ExtendWrite, ApiTypeOK, WellFormed
    <2>2. /\ r \in MeetingRow /\ r.status = meetings[m].status
          /\ r.startedAt = meetings[m].startedAt /\ r.endedAt = meetings[m].endedAt
      <3>1. meetings[m] \in MeetingRow /\ web[t].at \in Times /\ web[t].end \in Times
        BY <2>1 DEF StoreTypeOK, ThreadState
      <3>2. r \in MeetingRow /\ SameColumns(meetings[m], r)
        BY ONLY <3>1, EditedRow
      <3> QED BY <3>2 DEF SameColumns
    <2>3. meetings' = [meetings EXCEPT ![m] = r]
      BY <1>4, <2>1 DEF EditActive, ExtendWrite, StoreTypeOK
    <2> QED BY <2>1, <2>2, <2>3, TimesUpdate
  <1> QED BY <1>1, <1>2, <1>3, <1>4 DEF Edit

LEMMA MeetingsStep ==
    ASSUME TypeOK, [Next]_vars
    PROVE  RowStep
  <1>1. CASE WorkerStep
    BY <1>1, RecoverRows, OtherJobRows, FaultyRows, SameMeetings
    DEF WorkerStep, WorkerRuns, BeginTick, Restart, storeVars
  <1>2. CASE ApiStep
    <2>1. ASSUME NEW t \in Threads, Redial(t) \/ Add(t) \/ Remove(t) \/ Abandon(t)
          PROVE  RowStep
      BY <2>1, SameMeetings DEF Redial, RedialRead, RedialCall, RedialWrite, Add, AddRead,
         AddInsert, AddCall, AddWrite, AddLocked, Remove, RemoveRead, RemoveLive, RemoveCall,
         RemoveDelete, Abandon, storeVars
    <2> QED BY <1>2, <2>1, ManageRows, EditRows DEF ApiStep
  <1>3. CASE Calls
    BY <1>3, SameMeetings DEF Calls, Answer, GiveUp, HangUp, storeVars
  <1>4. CASE Tick
    BY <1>4, SameMeetings DEF Tick
  <1>5. CASE UNCHANGED vars
    BY <1>5, SameMeetings DEF vars
  <1> QED BY <1>1, <1>2, <1>3, <1>4, <1>5 DEF Next
----------------------------------------------------------------------------
LEMMA ColumnsInit == Init => ColumnsAgree
  BY DEF Init, StoreInit, UnusedMeeting, ColumnsAgree, Active, Over

LEMMA ColumnsStep ==
    ASSUME TypeOK, ColumnsAgree, RowStep
    PROVE  ColumnsAgree'
  <1>1. ASSUME NEW m \in MeetingIds, Kept(m) \/ Moved(m)
        PROVE  /\ meetings'[m].status \in {"unused", "deleted", "scheduled", "starting"}
                    => meetings'[m].startedAt = Null /\ meetings'[m].endedAt = Null
               /\ meetings'[m].status \in Active \cup {"ending"}
                    => meetings'[m].startedAt # Null /\ meetings'[m].endedAt = Null
               /\ meetings'[m].status \in Over => meetings'[m].endedAt # Null
    BY <1>1 DEF ColumnsAgree, Kept, Moved, Booked, Claimed, Begun, Finished, Dropped, Active,
       Over
  <1>2. \A m \in MeetingIds : Kept(m) \/ Moved(m)
    BY DEF RowStep
  <1> QED BY <1>1, <1>2 DEF ColumnsAgree

(* A step of one row is a step of the lifecycle.                           *)
LEMMA LifeStep ==
    ASSUME TypeOK, ColumnsAgree, RowStep
    PROVE  [Life!Next]_<<[m \in MeetingIds |-> meetings[m].status],
                         [m \in MeetingIds |-> meetings[m].startedAt # Null],
                         [m \in MeetingIds |-> meetings[m].endedAt # Null]>>
  <1>1. CASE \A m \in MeetingIds : Kept(m)
    BY <1>1 DEF Kept
  <1>2. ASSUME NEW m \in MeetingIds, Moved(m), \A n \in MeetingIds \ {m} : Kept(n)
        PROVE  Life!Next
    <2>1. CASE Booked(m)
      <3>1. Life!Book(m)
        BY <1>2, <2>1 DEF Life!Book, Life!Become, Booked, Kept, ColumnsAgree
      <3> QED BY <3>1 DEF Life!Next
    <2>2. CASE Claimed(m)
      <3>1. Life!Claim(m)
        BY <1>2, <2>2 DEF Life!Claim, Life!Become, Life!Started, Claimed, Kept, Active
      <3> QED BY <3>1 DEF Life!Next
    <2>3. CASE Begun(m)
      <3>1. Life!Start(m)
        <4>1. /\ meetings[m].status = "starting" /\ meetings'[m].status \in Active
              /\ meetings[m].startedAt = Null /\ meetings'[m].startedAt # Null
              /\ meetings'[m].endedAt = meetings[m].endedAt
          BY <2>3 DEF Begun, ColumnsAgree
        <4> QED BY <1>2, <4>1 DEF Life!Start, Life!Become, Life!Started, Kept, Active
      <3> QED BY <3>1 DEF Life!Next
    <2>4. CASE Finished(m)
      <3>w. w.cur # Null
        BY <2>4 DEF Finished
      <3>1. CASE meetings[m].status = "ending"
        <4>1. Life!End(m)
          BY <1>2, <2>4, <3>w, <3>1 DEF Life!End, Life!Become, Life!Ended, Finished, Kept,
             Over, ColumnsAgree
        <4> QED BY <4>1 DEF Life!Next
      <3>2. CASE meetings[m].status \in {"scheduled", "starting"}
        <4>1. Life!Miss(m)
          BY <1>2, <2>4, <3>w, <3>2 DEF Life!Miss, Life!Become, Finished, Kept, ColumnsAgree
        <4> QED BY <4>1 DEF Life!Next
      <3> QED BY <2>4, <3>1, <3>2 DEF Finished
    <2>5. CASE Dropped(m)
      <3>1. Life!Delete(m)
        BY <1>2, <2>5 DEF Life!Delete, Life!Become, Life!Present, Life!Started, Life!Ended,
           Dropped, Kept, Stored, Active, Over
      <3> QED BY <3>1 DEF Life!Next
    <2> QED BY <1>2, <2>1, <2>2, <2>3, <2>4, <2>5 DEF Moved
  <1> QED BY <1>1, <1>2 DEF RowStep

(* In every behaviour, started_at is set exactly from started on, and      *)
(* ended_at exactly when the meeting is over.                              *)
THEOREM ColumnsCorrect == Spec => []ColumnsAgree
  <1>1. TypeOK /\ ColumnsAgree /\ [Next]_vars => ColumnsAgree'
    BY MeetingsStep, ColumnsStep
  <1> QED BY <1>1, ColumnsInit, TypeCorrect, PTL DEF Spec

(* The scheduler implements the lifecycle of a meeting.                    *)
THEOREM LifecycleCorrect == Spec => LifecycleSpec
  <1>1. Init => Life!Init
    <2> SUFFICES ASSUME Init PROVE Life!Init
      OBVIOUS
    <2>1. \A m \in MeetingIds : /\ meetings[m].status = "unused"
                                /\ meetings[m].startedAt = Null
                                /\ meetings[m].endedAt = Null
      BY DEF Init, StoreInit, UnusedMeeting
    <2> QED BY <2>1 DEF Life!Init
  <1>2. TypeOK /\ ColumnsAgree /\ [Next]_vars =>
            [Life!Next]_<<[m \in MeetingIds |-> meetings[m].status],
                          [m \in MeetingIds |-> meetings[m].startedAt # Null],
                          [m \in MeetingIds |-> meetings[m].endedAt # Null]>>
    BY MeetingsStep, LifeStep
  <1> QED BY <1>1, <1>2, TypeCorrect, ColumnsCorrect, PTL DEF Spec, LifecycleSpec, Life!Spec
----------------------------------------------------------------------------
(* started_at and ended_at are in order.  Each is the clock as a job read  *)
(* it at its start, so the argument has to know that no meeting was        *)
(* started after the job that runs now read the clock: the four jobs run   *)
(* one after the other, in one process.                                    *)
TimesKnown ==
    /\ w.cur <= now
    /\ InJob => \A m \in MeetingIds : meetings[m].startedAt <= w.cur
    /\ TimesInOrder

LEMMA Numbers ==
    /\ Null \in Int
    /\ \A t \in Times \cup {Null} : t \in Int /\ Null <= t
  BY StoreAssumption DEF Times, Null

(* The times the invariant compares.                                       *)
LEMMA TimesTyped ==
    ASSUME TypeOK
    PROVE  /\ now \in Times /\ w.cur \in Times
           /\ \A m \in MeetingIds : /\ meetings[m].startedAt \in Times \cup {Null}
                                    /\ meetings[m].endedAt \in Times \cup {Null}
  BY DEF TypeOK, StoreTypeOK, MeetingRow, WorkerTypeOK, WorkerState

LEMMA ClockStep == TypeOK /\ [Next]_vars => now <= now'
  <1> SUFFICES ASSUME TypeOK, [Next]_vars PROVE now <= now'
    OBVIOUS
  <1>1. now \in Int
    BY Numbers, TimesTyped
  <1>2. now' = now \/ now' = now + 1
    <2>1. CASE WorkerStep
      BY <2>1 DEF WorkerStep, WorkerRuns, Recover, RecoverSelect, RecoverToken, RecoverLive,
         RecoverGiveUp, RecoverCommit, RecoverFinish, RecoverEndingSelect, RecoverEnded,
         RecoverDone, RecoverPast, RecoverBegin, RecoverDisconnect, RecoverSeen, RecoverDial,
         Expire, ExpireSelect, ExpireOne, ExpireDone, End, EndSelect, EndClaim,
         EndDisconnect, EndCommit, EndDone, Start, StartSelect, StartClaim, StartToken,
         StartDial, StartCommit, StartFinish, StartDone, Faulty, LockedJob, LockedDial,
         LockedStart, LockedEnded, LockedSeen, Crash, BeginTick, Restart, storeVars
    <2>2. CASE ApiStep
      BY <2>2 DEF ApiStep, Manage, CreateMeeting, DeleteMeeting, UpdateMeeting, Edit,
         EditRead, ExtendRead, EditScheduled, EditActive, ExtendWrite, Redial, RedialRead,
         RedialCall, RedialWrite, Add, AddRead, AddInsert, AddCall, AddWrite, AddLocked,
         Remove, RemoveRead, RemoveLive, RemoveCall, RemoveDelete, Abandon, storeVars
    <2>3. CASE Calls
      BY <2>3 DEF Calls, Answer, GiveUp, HangUp, storeVars
    <2>4. CASE Tick \/ UNCHANGED vars
      BY <2>4 DEF Tick, vars
    <2> QED BY <2>1, <2>2, <2>3, <2>4 DEF Next
  <1> QED BY <1>1, <1>2

(* A job reads the clock once, when it selects its candidates, and leaves  *)
(* the table alone then.                                                   *)
Reads == w'.cur = now /\ UNCHANGED <<now, meetings>>
Keeps == w'.cur = w.cur /\ (InJob' => InJob)
Leaves == w'.cur = 0 /\ ~InJob'

LEMMA WorkerClock ==
    ASSUME TypeOK, WorkerStep
    PROVE  Reads \/ Keeps \/ Leaves
  <1>w. w \in WorkerState
    BY DEF TypeOK, WorkerTypeOK
  <1>1. CASE RecoverSelect \/ ExpireSelect \/ EndSelect \/ StartSelect
    BY <1>1 DEF RecoverSelect, ExpireSelect, EndSelect, StartSelect, At, Reads, storeVars
  <1>2. CASE BeginTick \/ RecoverDone \/ ExpireDone \/ EndDone \/ StartDone \/ Crash \/ Restart
    BY <1>2 DEF BeginTick, RecoverDone, ExpireDone, EndDone, StartDone, Crash, Restart, At,
       InJob, Leaves
  <1>3. CASE LockedJob
    BY <1>3 DEF LockedJob, NextJob, At, InJob, Leaves
  <1>4. CASE RecoverEndingSelect
    BY <1>4 DEF RecoverEndingSelect, At, InJob, Keeps
  <1>5. CASE \/ RecoverGiveUp \/ RecoverFinish \/ RecoverEnded \/ EndCommit \/ StartFinish
             \/ LockedEnded
    <2>1. \E p \in PCs : w' = NextCandidate(p)
      BY <1>5 DEF RecoverGiveUp, RecoverFinish, RecoverEnded, EndCommit, StartFinish,
         LockedEnded, PCs, RecoverAt, ExpireAt, EndAt, StartAt
    <2>2. w'.cur = w.cur
      BY <2>1 DEF NextCandidate, At
    <2>3. InJob
      BY <1>5 DEF RecoverGiveUp, RecoverFinish, RecoverEnded, EndCommit, StartFinish,
         LockedEnded, InJob
    <2> QED BY <2>2, <2>3 DEF Keeps
  <1>6. CASE RecoverToken \/ RecoverLive \/ RecoverCommit \/ EndDisconnect \/ StartToken
             \/ StartCommit \/ LockedDial \/ LockedStart
    BY <1>6, <1>w DEF RecoverToken, RecoverLive, RecoverCommit, EndDisconnect, StartToken,
       StartCommit, LockedDial, LockedStart, Recorded, WorkerState, InJob, Keeps
  <1>7. ASSUME NEW m \in MeetingIds,
               \/ RecoverPast(m) \/ RecoverBegin(m) \/ RecoverDisconnect(m) \/ ExpireOne(m)
               \/ EndClaim(m) \/ StartClaim(m)
        PROVE  Keeps
    BY <1>7, <1>w DEF RecoverPast, RecoverBegin, RecoverDisconnect, ExpireOne, EndClaim,
       StartClaim, Skip, Begin, WorkerState, InJob, Keeps
  <1>8. ASSUME NEW k \in RowKeys,
               RecoverSeen(k) \/ RecoverDial(k) \/ StartDial(k) \/ LockedSeen(k)
        PROVE  Keeps
    BY <1>8, <1>w DEF RecoverSeen, RecoverDial, StartDial, LockedSeen, WorkerState, InJob,
       Keeps
  <1> QED
    BY <1>1, <1>2, <1>3, <1>4, <1>5, <1>6, <1>7, <1>8
    DEF WorkerStep, WorkerRuns, Recover, Expire, End, Start, Faulty
----------------------------------------------------------------------------
LEMMA TimesStep ==
    ASSUME TypeOK, TypeOK', ColumnsAgree, TimesKnown, [Next]_vars
    PROVE  TimesKnown'
  <1>1. Reads \/ Keeps \/ Leaves
    BY WorkerClock DEF Next, vars, Keeps, InJob
  <1>2. now <= now'
    BY ClockStep
  <1>3. \A m \in MeetingIds : Kept(m) \/ Moved(m)
    BY MeetingsStep DEF RowStep
  <1>4. ASSUME NEW m \in MeetingIds
        PROVE  /\ meetings'[m].startedAt <= now'
               /\ meetings'[m].endedAt <= now'
               /\ meetings'[m].endedAt # Null
                    => meetings'[m].startedAt <= meetings'[m].endedAt
               /\ InJob => meetings'[m].startedAt <= w.cur
    <2> DEFINE s == meetings[m].startedAt
               e == meetings[m].endedAt
               s1 == meetings'[m].startedAt
               e1 == meetings'[m].endedAt
    <2>1. /\ now \in Int /\ now' \in Int /\ w.cur \in Int /\ Null \in Int
          /\ s \in Int /\ e \in Int /\ s1 \in Int /\ e1 \in Int
          /\ Null <= now' /\ Null <= w.cur
      <3>1. /\ now \in Times /\ w.cur \in Times
            /\ s \in Times \cup {Null} /\ e \in Times \cup {Null}
        BY TimesTyped
      <3>2. /\ now' \in Times
            /\ s1 \in Times \cup {Null} /\ e1 \in Times \cup {Null}
        BY DEF TypeOK, StoreTypeOK, MeetingRow
      <3> HIDE DEF s, e, s1, e1
      <3> QED BY <3>1, <3>2, Numbers
    <2>2. /\ s <= now /\ e <= now /\ (e # Null => s <= e)
          /\ w.cur <= now /\ (InJob => s <= w.cur)
      BY DEF TimesKnown, TimesInOrder
    <2>3. \/ s1 = s /\ e1 = e
          \/ s1 \in {w.cur, s} /\ e = Null /\ e1 = Null
          \/ s1 = s /\ e1 = w.cur /\ InJob
          \/ s1 = Null /\ e1 = Null
      BY <1>3 DEF Kept, Moved, Booked, Claimed, Begun, Finished, Dropped, ColumnsAgree
    <2> HIDE DEF s, e, s1, e1
    <2>4. s1 <= now' /\ e1 <= now' /\ (e1 # Null => s1 <= e1) /\ (InJob => s1 <= w.cur)
      BY <1>2, <2>1, <2>2, <2>3
    <2> QED BY <2>4 DEF s, e, s1, e1
  <1>5. TimesInOrder'
    BY <1>4 DEF TimesInOrder
  <1>6. w'.cur <= now'
    <2>1. now \in Int /\ now' \in Int /\ 0 <= now' /\ w.cur \in Int
      <3>1. now \in Times /\ now' \in Times /\ w.cur \in Times
        BY TimesTyped DEF TypeOK, StoreTypeOK
      <3> QED BY <3>1, StoreAssumption DEF Times
    <2> QED BY <1>1, <1>2, <2>1 DEF Reads, Keeps, Leaves, TimesKnown
  <1>7. InJob' => \A m \in MeetingIds : meetings'[m].startedAt <= w'.cur
    <2>1. CASE Reads
      BY <2>1, <1>4 DEF Reads
    <2>2. CASE Keeps \/ Leaves
      BY <2>2, <1>4 DEF Keeps, Leaves
    <2> QED BY <1>1, <2>1, <2>2
  <1> QED BY <1>5, <1>6, <1>7 DEF TimesKnown

(* In every behaviour no meeting ends before it started, and neither time  *)
(* lies in the future.                                                     *)
THEOREM TimesCorrect == Spec => []TimesInOrder
  <1>1. Init => TimesKnown
    BY DEF Init, StoreInit, UnusedMeeting, WorkerInit, At, InJob, TimesKnown, TimesInOrder, Null
  <1>2. TypeOK /\ TypeOK' /\ ColumnsAgree /\ TimesKnown /\ [Next]_vars => TimesKnown'
    BY TimesStep
  <1>3. TimesKnown => TimesInOrder
    BY DEF TimesKnown
  <1> QED BY <1>1, <1>2, <1>3, TypeCorrect, ColumnsCorrect, PTL DEF Spec
----------------------------------------------------------------------------
(* No meeting starts or ends too early, if its times are not changed.  The *)
(* jobs compare them with the clock when they select their candidates, and *)
(* the claims do not look again, so what has to be known is that whatever  *)
(* a job still has on its list is due (Candidates).                        *)
NoEdits == Requests \cap {"edit", "extend"} = {}

Due(m) == meetings[m].status # "unused" /\ meetings[m].start <= now
Past(m) == meetings[m].status # "unused" /\ meetings[m].end <= now

StartLoop == StartAt \ {"start"}
PastLoop == {"expLoop"} \cup (EndAt \ {"end"})
Candidates ==
    /\ w.pc \in StartLoop => \A m \in w.todo : Due(m)
    /\ w.pc \in PastLoop => \A m \in w.todo : Past(m)
    /\ \A m \in w.late : Past(m)

(* The inductive invariant.                                                *)
Punctual == OnTime /\ Candidates

(* What may become of a row: it keeps its times, or is emptied when it is  *)
(* deleted, and it is moved only when it is due.                           *)
MoveOk(m, r) ==
    /\ meetings[m].status # "unused" =>
          /\ r.status # "unused"
          /\ r.start \in {meetings[m].start, 0} /\ r.end \in {meetings[m].end, 0}
    /\ r.status = "starting" => meetings[m].status = "starting" \/ Due(m)
    /\ r.status \in Active => meetings[m].status \in Active \cup {"starting"}
    /\ r.status \in {"ending"} \cup Over =>
          meetings[m].status \in {"ending"} \cup Over \/ Past(m)
MovesOk == \A m \in MeetingIds : MoveOk(m, meetings'[m])
----------------------------------------------------------------------------
LEMMA SameMoves == UNCHANGED meetings => MovesOk
  BY DEF MovesOk, MoveOk

LEMMA OneMove ==
    ASSUME NEW m \in MeetingIds, NEW r, StoreTypeOK, MoveOk(m, r),
           meetings' = [meetings EXCEPT ![m] = r]
    PROVE  MovesOk
  <1>1. ASSUME NEW n \in MeetingIds PROVE MoveOk(n, meetings'[n])
    <2>1. CASE n = m
      BY <2>1 DEF StoreTypeOK
    <2>2. CASE n # m
      BY <2>2 DEF StoreTypeOK, MoveOk
    <2> QED BY <2>1, <2>2
  <1> QED BY <1>1 DEF MovesOk

LEMMA RowMoves ==
    ASSUME NEW m \in MeetingIds, StoreTypeOK
    PROVE  /\ \A s \in Active : \A t : meetings[m].status = "starting" => MoveOk(m, StartedRow(m, s, t))
           /\ \A s \in Over : meetings[m].status = "ending" \/ Past(m) => MoveOk(m, EndedRow(m, s))
           /\ Due(m) => MoveOk(m, ClaimedRow(m, "starting"))
           /\ Past(m) => MoveOk(m, ClaimedRow(m, "ending"))
  <1>r. meetings[m] \in MeetingRow
    BY DEF StoreTypeOK
  <1>1. ASSUME NEW s \in Active, NEW t, meetings[m].status = "starting"
        PROVE  MoveOk(m, StartedRow(m, s, t))
    BY <1>r, <1>1 DEF MoveOk, StartedRow, MeetingRow, Active, Over
  <1>2. ASSUME NEW s \in Over, meetings[m].status = "ending" \/ Past(m)
        PROVE  MoveOk(m, EndedRow(m, s))
    BY <1>r, <1>2 DEF MoveOk, EndedRow, MeetingRow, Active, Over
  <1>3. ASSUME Due(m) PROVE MoveOk(m, ClaimedRow(m, "starting"))
    BY <1>r, <1>3 DEF MoveOk, ClaimedRow, MeetingRow, Active, Over
  <1>4. ASSUME Past(m) PROVE MoveOk(m, ClaimedRow(m, "ending"))
    BY <1>r, <1>4 DEF MoveOk, ClaimedRow, MeetingRow, Active, Over
  <1> QED BY <1>1, <1>2, <1>3, <1>4

(* The UPDATEs of the jobs.                                                *)
LEMMA StartedMoves ==
    ASSUME NEW m \in MeetingIds, NEW s \in Active, NEW t, StoreTypeOK,
           UpdateWhere(m, {"starting"}, StartedRow(m, s, t))
    PROVE  MovesOk
  BY OneMove, RowMoves, SameMoves DEF UpdateWhere

LEMMA EndedMoves ==
    ASSUME NEW m \in MeetingIds, NEW s \in Over, NEW from, StoreTypeOK,
           from = {"ending"} \/ Past(m),
           UpdateWhere(m, from, EndedRow(m, s))
    PROVE  MovesOk
  <1>1. CASE meetings[m].status \in from
    BY <1>1, OneMove, RowMoves DEF UpdateWhere
  <1>2. CASE meetings[m].status \notin from
    BY <1>2, SameMoves DEF UpdateWhere
  <1> QED BY <1>1, <1>2

LEMMA WorkerMoves ==
    ASSUME TypeOK, Candidates, WorkerStep
    PROVE  MovesOk
  <1> USE DEF TypeOK
  <1>w. w.todo \subseteq MeetingIds /\ w.late \subseteq MeetingIds
    BY DEF WorkerTypeOK, WorkerState
  <1>1. CASE RecoverGiveUp
    BY <1>1, StartedMoves DEF RecoverGiveUp, WorkerTypeOK, Starting, Active
  <1>2. CASE RecoverFinish \/ StartFinish
    <2>1. w.m \in MeetingIds
      BY <1>2 DEF RecoverFinish, StartFinish, WorkerTypeOK, Starting
    <2>2. \E s \in Active : \E t : UpdateWhere(w.m, {"starting"}, StartedRow(w.m, s, t))
      BY <1>2 DEF RecoverFinish, StartFinish, Active
    <2> QED BY <2>1, <2>2, StartedMoves
  <1>3. CASE RecoverEnded \/ EndCommit \/ LockedEnded
    <2>1. w.m \in MeetingIds
      BY <1>3 DEF RecoverEnded, EndCommit, LockedEnded, WorkerTypeOK, Ending
    <2>2. \E s \in Over : UpdateWhere(w.m, {"ending"}, EndedRow(w.m, s))
      BY <1>3 DEF RecoverEnded, EndCommit, LockedEnded, Over
    <2> QED BY <2>1, <2>2, EndedMoves
  <1>4. ASSUME NEW m \in MeetingIds, RecoverPast(m) \/ ExpireOne(m) PROVE MovesOk
    <2>1. Past(m)
      BY <1>4 DEF RecoverPast, ExpireOne, Candidates, PastLoop
    <2>2. \E s \in Over : \E from : UpdateWhere(m, from, EndedRow(m, s))
      BY <1>4 DEF RecoverPast, ExpireOne, Over
    <2> QED BY <2>1, <2>2, EndedMoves
  <1>5. ASSUME NEW m \in MeetingIds, StartClaim(m) PROVE MovesOk
    <2>1. Due(m)
      BY <1>5 DEF StartClaim, Candidates, StartLoop, StartAt
    <2> QED BY <1>5, <2>1, OneMove, RowMoves, SameMoves DEF StartClaim
  <1>6. ASSUME NEW m \in MeetingIds, EndClaim(m) PROVE MovesOk
    <2>1. Past(m)
      BY <1>6 DEF EndClaim, Candidates, PastLoop, EndAt
    <2> QED BY <1>6, <2>1, OneMove, RowMoves, SameMoves DEF EndClaim
  <1> QED
    BY <1>1, <1>2, <1>3, <1>4, <1>5, <1>6, SameMoves
    DEF WorkerStep, WorkerRuns, BeginTick, Restart, Recover, RecoverSelect, RecoverToken,
        RecoverLive, RecoverCommit, RecoverEndingSelect, RecoverDone, RecoverBegin,
        RecoverDisconnect, RecoverSeen, RecoverDial, Expire, ExpireSelect, ExpireDone, End,
        EndSelect, EndDisconnect, EndDone, Start, StartSelect, StartToken, StartDial,
        StartCommit, StartDone, Faulty, LockedJob, LockedDial, LockedStart, LockedSeen, Crash,
        storeVars

LEMMA RequestMoves ==
    ASSUME NoEdits, TypeOK, OnlyAsked, ApiStep
    PROVE  MovesOk
  <1> USE DEF TypeOK
  <1>1. ASSUME NEW m \in MeetingIds, NEW slot \in Slots, NEW E \in SUBSET Aliases,
               CreateMeeting(m, slot, E)
        PROVE  MovesOk
    BY <1>1, OneMove DEF CreateMeeting, MoveOk, Active, Over
  <1>2. ASSUME NEW m \in MeetingIds, DeleteMeeting(m) PROVE MovesOk
    BY <1>2, OneMove DEF DeleteMeeting, UnusedMeeting, MoveOk, Active, Over
  <1>3. ASSUME NEW m \in MeetingIds, NEW E \in SUBSET Aliases, UpdateMeeting(m, E)
        PROVE  MovesOk
    <2> DEFINE r == [meetings[m] EXCEPT !.updatedAt = now]
    <2>1. meetings' = [meetings EXCEPT ![m] = r]
      BY <1>3 DEF UpdateMeeting
    <2>2. /\ r.status = meetings[m].status /\ r.start = meetings[m].start
          /\ r.end = meetings[m].end
      BY DEF StoreTypeOK, MeetingRow
    <2>3. MoveOk(m, r)
      BY <2>2 DEF MoveOk
    <2> QED BY <2>1, <2>3, OneMove
  <1>4. ASSUME NEW t \in Threads, Edit(t) PROVE MovesOk
    BY <1>4, SameMoves DEF Edit, EditRead, ExtendRead, EditScheduled, EditActive, ExtendWrite,
       NoEdits, OnlyAsked, AskedFor, storeVars
  <1>5. ASSUME NEW t \in Threads, Redial(t) \/ Add(t) \/ Remove(t) \/ Abandon(t)
        PROVE  MovesOk
    BY <1>5, SameMoves DEF Redial, RedialRead, RedialCall, RedialWrite, Add, AddRead,
       AddInsert, AddCall, AddWrite, AddLocked, Remove, RemoveRead, RemoveLive, RemoveCall,
       RemoveDelete, Abandon, storeVars
  <1> QED BY <1>1, <1>2, <1>3, <1>4, <1>5 DEF ApiStep, Manage

LEMMA MovesStep ==
    ASSUME NoEdits, TypeOK, OnlyAsked, Candidates, [Next]_vars
    PROVE  MovesOk
  BY WorkerMoves, RequestMoves, SameMoves DEF Next, Calls, Answer, GiveUp, HangUp, Tick, vars,
     storeVars
----------------------------------------------------------------------------
(* Time only makes things more due.                                        *)
LEMMA StillDue ==
    ASSUME TypeOK, TypeOK', MovesOk, now <= now', NEW m \in MeetingIds
    PROVE  (Due(m) => Due(m)') /\ (Past(m) => Past(m)')
  <1> DEFINE s == meetings[m].start
             e == meetings[m].end
  <1>1. now \in Int /\ now' \in Int /\ 0 <= now' /\ s \in Int /\ e \in Int
    BY StoreAssumption DEF TypeOK, StoreTypeOK, MeetingRow, Times
  <1>2. meetings[m].status # "unused" =>
            /\ meetings'[m].status # "unused"
            /\ meetings'[m].start \in {s, 0} /\ meetings'[m].end \in {e, 0}
    BY DEF MovesOk, MoveOk
  <1> HIDE DEF s, e
  <1>3. \A x \in {s, 0} : s <= now => x <= now'
    BY <1>1
  <1>4. \A x \in {e, 0} : e <= now => x <= now'
    BY <1>1
  <1> QED BY <1>2, <1>3, <1>4 DEF Due, Past, s, e

LEMMA OnTimeStep ==
    ASSUME TypeOK, TypeOK', OnTime, MovesOk, now <= now'
    PROVE  OnTime'
  <1>1. ASSUME NEW m \in MeetingIds
        PROVE  /\ meetings'[m].status \in {"starting"} \cup Active => Due(m)'
               /\ meetings'[m].status \in {"ending"} \cup Over => Past(m)'
    <2>1. meetings'[m].status \in {"starting"} \cup Active => Due(m)
      BY DEF MovesOk, MoveOk, OnTime, Due, Active
    <2>2. meetings'[m].status \in {"ending"} \cup Over => Past(m)
      BY DEF MovesOk, MoveOk, OnTime, Past, Over
    <2> QED BY <2>1, <2>2, StillDue
  <1> QED BY <1>1 DEF OnTime, Due, Past

(* A job's list only gets shorter, until the next job selects its own.     *)
LEMMA CandidatesStay ==
    ASSUME TypeOK, TypeOK', Candidates, MovesOk, now <= now',
           w'.todo \subseteq w.todo, w'.late \subseteq w.late,
           w'.pc \in StartLoop => w.pc \in StartLoop,
           w'.pc \in PastLoop => w.pc \in PastLoop
    PROVE  Candidates'
  <1>1. w.todo \subseteq MeetingIds /\ w.late \subseteq MeetingIds
    BY DEF TypeOK, WorkerTypeOK, WorkerState
  <1> QED BY <1>1, StillDue DEF Candidates

LEMMA CandidatesStep ==
    ASSUME TypeOK, TypeOK', Candidates, MovesOk, now <= now', [Next]_vars
    PROVE  Candidates'
  <1> USE DEF StartLoop, PastLoop, StartAt, EndAt
  <1>w. w \in WorkerState
    BY DEF TypeOK, WorkerTypeOK
  <1>1. CASE RecoverSelect \/ ExpireSelect \/ EndSelect \/ StartSelect
    <2> USE DEF Candidates, Due, Past, At, storeVars
    <2>1. CASE RecoverSelect
      <3>1. /\ w'.pc = "recStarting" /\ UNCHANGED <<now, meetings>>
            /\ w'.late = {m \in Stuck("starting", now) : meetings[m].end <= now}
        BY <2>1 DEF RecoverSelect
      <3> QED BY <3>1 DEF Stuck
    <2>2. CASE ExpireSelect
      BY <2>2 DEF ExpireSelect
    <2>3. CASE EndSelect
      <3>1. /\ w'.pc = "endLoop" /\ UNCHANGED <<now, meetings>>
            /\ w'.todo = EndDue(now) /\ w'.late = {}
        BY <2>3 DEF EndSelect
      <3> QED BY <3>1 DEF EndDue, Active
    <2>4. CASE StartSelect
      <3>1. /\ w'.pc = "startLoop" /\ UNCHANGED <<now, meetings>>
            /\ w'.todo = StartDue(now) /\ w'.late = {}
        BY <2>4 DEF StartSelect
      <3> QED BY <3>1 DEF StartDue
    <2> QED BY <1>1, <2>1, <2>2, <2>3, <2>4
  <1>2. CASE \/ BeginTick \/ RecoverEndingSelect \/ RecoverDone \/ ExpireDone \/ EndDone
             \/ StartDone \/ LockedJob \/ Crash \/ Restart
    <2>1. w'.late = {} /\ w'.pc \notin StartLoop \cup PastLoop
      <3>1. CASE LockedJob
        BY <3>1 DEF LockedJob, NextJob, At
      <3>2. CASE RecoverEndingSelect
        BY <3>2 DEF RecoverEndingSelect, At
      <3> QED
        BY <1>2, <3>1, <3>2
        DEF BeginTick, RecoverDone, ExpireDone, EndDone, StartDone, Crash, Restart, At
    <2> QED BY <2>1 DEF Candidates
  <1>3. CASE \/ RecoverGiveUp \/ RecoverFinish \/ RecoverEnded \/ EndCommit \/ StartFinish
             \/ LockedEnded
    <2>1. \E p \in {"recStarting", "recEnding", "endLoop", "startLoop"} :
             /\ w' = NextCandidate(p)
             /\ p = "endLoop" => w.pc \in PastLoop
             /\ p = "startLoop" => w.pc \in StartLoop
      BY <1>3 DEF RecoverGiveUp, RecoverFinish, RecoverEnded, EndCommit, StartFinish,
         LockedEnded
    <2>2. \A p : LET n == NextCandidate(p) IN
             n.pc = p /\ n.todo \subseteq w.todo /\ n.late = w.late
      BY DEF NextCandidate, At
    <2> QED BY <2>1, <2>2, CandidatesStay
  <1>4. CASE \/ RecoverToken \/ RecoverLive \/ RecoverCommit \/ EndDisconnect \/ StartToken
             \/ StartCommit \/ LockedDial \/ LockedStart
    <2>1. /\ w'.todo = w.todo /\ w'.late = w.late
          /\ w'.pc \in StartLoop => w.pc \in StartLoop
          /\ w'.pc \in PastLoop => w.pc \in PastLoop
      BY <1>4, <1>w DEF RecoverToken, RecoverLive, RecoverCommit, EndDisconnect, StartToken,
         StartCommit, LockedDial, LockedStart, Recorded, WorkerState
    <2> QED BY <2>1, CandidatesStay
  <1>5. ASSUME NEW m \in MeetingIds,
               \/ RecoverPast(m) \/ RecoverBegin(m) \/ RecoverDisconnect(m) \/ ExpireOne(m)
               \/ EndClaim(m) \/ StartClaim(m)
        PROVE  Candidates'
    <2>1. /\ w'.todo \subseteq w.todo /\ w'.late = w.late
          /\ w'.pc \in StartLoop => w.pc \in StartLoop
          /\ w'.pc \in PastLoop => w.pc \in PastLoop
      <3>1. CASE RecoverPast(m) \/ RecoverBegin(m) \/ RecoverDisconnect(m)
        BY <3>1, <1>w DEF RecoverPast, RecoverBegin, RecoverDisconnect, Skip, Begin, WorkerState
      <3>2. CASE ExpireOne(m)
        BY <3>2, <1>w DEF ExpireOne, Skip, WorkerState
      <3>3. CASE EndClaim(m) \/ StartClaim(m)
        BY <3>3, <1>w DEF EndClaim, StartClaim, Skip, Begin, WorkerState
      <3> QED BY <1>5, <3>1, <3>2, <3>3
    <2> QED BY <2>1, CandidatesStay
  <1>6. ASSUME NEW k \in RowKeys,
               RecoverSeen(k) \/ RecoverDial(k) \/ StartDial(k) \/ LockedSeen(k)
        PROVE  Candidates'
    <2>1. /\ w'.todo = w.todo /\ w'.late = w.late
          /\ w'.pc \in StartLoop => w.pc \in StartLoop
          /\ w'.pc \in PastLoop => w.pc \in PastLoop
      BY <1>6, <1>w DEF RecoverSeen, RecoverDial, StartDial, LockedSeen, WorkerState
    <2> QED BY <2>1, CandidatesStay
  <1>7. CASE UNCHANGED w
    BY <1>7, CandidatesStay
  <1> QED
    BY <1>1, <1>2, <1>3, <1>4, <1>5, <1>6, <1>7
    DEF Next, WorkerStep, WorkerRuns, Recover, Expire, End, Start, Faulty, vars

(* Nothing starts before its start or ends before its end, as long as the  *)
(* operators change no times.                                              *)
THEOREM NothingEarly ==
    ASSUME NoEdits
    PROVE  Spec => []OnTime
  <1>1. Init => Punctual
    BY DEF Init, StoreInit, UnusedMeeting, WorkerInit, At, Punctual, OnTime, Candidates,
       StartLoop, PastLoop, StartAt, EndAt, Active, Over
  <1>2. TypeOK /\ TypeOK' /\ OnlyAsked /\ Punctual /\ [Next]_vars => Punctual'
    BY NoEdits, ClockStep, MovesStep, OnTimeStep, CandidatesStep DEF Punctual
  <1>3. Punctual => OnTime
    BY DEF Punctual
  <1> QED BY <1>1, <1>2, <1>3, TypeCorrect, AskedAlways, PTL DEF Spec
----------------------------------------------------------------------------
(* System implements Calendar: what the calendar reads changes only as     *)
(* Calendar says.  A step of System is reduced to what it does to the row  *)
(* the calendar shows (Shows) of one meeting.                              *)
Shows(m) == IF Exists(m) THEN ShownRow(m) ELSE None
Removed(m) == meetings[m].status = "deleted"

SameShown(m) == Shows(m)' = Shows(m) /\ (Removed(m)' <=> Removed(m))
OtherShown(m) == \A n \in MeetingIds \ {m} : SameShown(n)

LEMMA ShownTimes == Shown!Times = Times
  <1>1. (MaxTime + 1) * (0 + 1) - 1 = MaxTime
    BY StoreAssumption
  <1> QED BY <1>1 DEF Shown!Times, Times

LEMMA ShownTyped ==
    ASSUME StoreTypeOK, NEW m \in MeetingIds
    PROVE  /\ ShownEndpoints(m) \in SUBSET Aliases
           /\ Exists(m) => ShownRow(m) \in Shown!Row /\ ShownRow(m) # None
  <1>1. ShownEndpoints(m) \in SUBSET Aliases
    BY DEF ShownEndpoints, Rows, RowKeys
  <1>2. ASSUME Exists(m) PROVE ShownRow(m) \in Shown!Row
    <2>1. meetings[m].start \in Times /\ meetings[m].end \in Times
      BY DEF StoreTypeOK, MeetingRow
    <2>2. OneStatus[meetings[m].status] \in Shown!Status
      BY <1>2 DEF Exists, OneStatus, Stored, Active, Over, Shown!Status, Shown!Ended
    <2> QED BY <1>1, <2>1, <2>2, ShownTimes DEF ShownRow, Shown!Row
  <1> QED BY <1>1, <1>2, ShownAssumption

LEMMA ShownIdle ==
    ASSUME \A n \in MeetingIds : SameShown(n), now' = now
    PROVE  UNCHANGED Shown!calendarVars
  BY DEF SameShown, Shows, Removed, Shown!calendarVars

(* A step that changes what is shown of m, while m exists.                 *)
LEMMA ShownWrite ==
    ASSUME NEW m \in MeetingIds, NEW r, StoreTypeOK, Exists(m), Exists(m)', OtherShown(m),
           r = ShownRow(m)', now' = now
    PROVE  /\ m \in Shown!Known
           /\ Shown!Write(m, r)
           /\ UNCHANGED <<now, {n \in MeetingIds : meetings[n].status = "deleted"}>>
  <1>1. m \in Shown!Known
    BY ShownTyped DEF Shown!Known
  <1>2. Shown!Write(m, r)
    <2>1. \A n \in MeetingIds : Shows(n)' = IF n = m THEN r ELSE Shows(n)
      BY DEF OtherShown, SameShown, Shows
    <2>2. [n \in MeetingIds |-> Shows(n)]' = [[n \in MeetingIds |-> Shows(n)] EXCEPT ![m] = r]
      BY <2>1
    <2> QED BY <2>2 DEF Shows, Shown!Write
  <1>3. Removed(m)' <=> Removed(m)
    BY DEF Exists, Removed, Stored, Active, Over
  <1>4. UNCHANGED {n \in MeetingIds : meetings[n].status = "deleted"}
    BY <1>3 DEF OtherShown, SameShown, Removed
  <1> QED BY <1>1, <1>2, <1>4

----------------------------------------------------------------------------
(* The row shown of m after the step.                                      *)
LEMMA ShownAfter ==
    ASSUME NEW m \in MeetingIds
    PROVE  \E r1, E : /\ E = ShownEndpoints(m)' /\ r1 = ShownRow(m)'
                      /\ r1 = [status |-> OneStatus[meetings'[m].status],
                               start |-> meetings'[m].start, end |-> meetings'[m].end,
                               started |-> meetings'[m].startedAt # Null, endpoints |-> E]
                      /\ E \in SUBSET Aliases
  <1>1. ShownEndpoints(m)' \in SUBSET Aliases
    BY DEF ShownEndpoints, Rows, RowKeys
  <1>2. ShownRow(m)' = [status |-> OneStatus[meetings'[m].status],
                        start |-> meetings'[m].start, end |-> meetings'[m].end,
                        started |-> meetings'[m].startedAt # Null,
                        endpoints |-> {k[1] : k \in Rows(m)}']
    BY DEF ShownRow, ShownEndpoints, Rows, RowExists
  <1>3. ShownEndpoints(m)' = {k[1] : k \in Rows(m)}'
    BY DEF ShownEndpoints, Rows, RowExists
  <1> QED BY <1>1, <1>2, <1>3

(* How one row shown comes from another.                                   *)
LEMMA RowChanges ==
    ASSUME NEW r \in Shown!Row, NEW r1 \in Shown!Row
    PROVE  LET rest == r1.start = r.start /\ r1.end = r.end /\ r1.endpoints = r.endpoints
               kept == r1.status = r.status /\ r1.started = r.started
           IN  /\ rest /\ r1.started = r.started => r1 = [r EXCEPT !.status = r1.status]
               /\ rest /\ r1.started = TRUE
                    => r1 = [r EXCEPT !.status = r1.status, !.started = TRUE]
               /\ kept /\ r1.start = r.start /\ r1.end = r.end
                    => r1 = [r EXCEPT !.endpoints = r1.endpoints]
               /\ kept /\ r1.start = r.start /\ r1.endpoints = r.endpoints
                    => r1 = [r EXCEPT !.end = r1.end]
               /\ kept => r1 = [r EXCEPT !.start = r1.start, !.end = r1.end,
                                        !.endpoints = r1.endpoints]
  BY DEF Shown!Row

LEMMA RowTyped ==
    ASSUME NEW s \in Shown!Status, NEW a \in Shown!Times, NEW b \in Shown!Times,
           NEW g \in BOOLEAN, NEW E \in SUBSET Aliases, NEW r,
           r = [status |-> s, start |-> a, end |-> b, started |-> g, endpoints |-> E]
    PROVE  /\ r \in Shown!Row
           /\ r.status = s /\ r.start = a /\ r.end = b /\ r.started = g /\ r.endpoints = E
  BY DEF Shown!Row

(* The steps that leave the times and the endpoints shown as they are.     *)
SameTimes(m) == UNCHANGED <<meetings[m].start, meetings[m].end>>
SameEndpoints(m) == ShownEndpoints(m)' = ShownEndpoints(m)

LEMMA ShownKept ==
    ASSUME NEW m \in MeetingIds, Kept(m), SameTimes(m), SameEndpoints(m)
    PROVE  SameShown(m)
  <1>1. ShownRow(m)' = ShownRow(m)
    <2>1. PICK r1, E : /\ E = ShownEndpoints(m)' /\ r1 = ShownRow(m)'
                       /\ r1 = [status |-> OneStatus[meetings'[m].status],
                                start |-> meetings'[m].start, end |-> meetings'[m].end,
                                started |-> meetings'[m].startedAt # Null, endpoints |-> E]
      BY ShownAfter
    <2>2. r1 = ShownRow(m)
      BY <2>1 DEF Kept, SameTimes, SameEndpoints, ShownRow
    <2> QED BY <2>1, <2>2
  <1>2. (Exists(m)' <=> Exists(m)) /\ (Removed(m)' <=> Removed(m))
    BY DEF Kept, Exists, Removed
  <1> QED BY <1>1, <1>2 DEF SameShown, Shows

(* Claims, starts and ends are moves of the worker.                        *)
LEMMA ShownMoved ==
    ASSUME NEW m \in MeetingIds, StoreTypeOK, Claimed(m) \/ Begun(m) \/ Finished(m),
           SameTimes(m), SameEndpoints(m), OtherShown(m), now' = now
    PROVE  Shown!CalendarNext
  <1> DEFINE s == OneStatus[meetings[m].status]
             s1 == OneStatus[meetings'[m].status]
             g == meetings[m].startedAt # Null
             g1 == meetings'[m].startedAt # Null
  <1>1. Exists(m) /\ Exists(m)'
    BY DEF Claimed, Begun, Finished, Exists, Active, Over, Stored
  <1>2. PICK r1, E : /\ E = ShownEndpoints(m)' /\ r1 = ShownRow(m)'
                     /\ r1 = [status |-> s1, start |-> meetings'[m].start,
                              end |-> meetings'[m].end, started |-> g1, endpoints |-> E]
                     /\ E \in SUBSET Aliases
    BY ShownAfter
  <1>3. PICK r : /\ r = ShownRow(m)
                 /\ r = [status |-> s, start |-> meetings[m].start, end |-> meetings[m].end,
                         started |-> g, endpoints |-> E]
    BY <1>2 DEF SameEndpoints, ShownRow
  <1>4. \/ s = "scheduled" /\ s1 = "starting" /\ g1 = g
        \/ s = "starting" /\ s1 = "started" /\ g1 = TRUE
        \/ s = "started" /\ s1 = "ending" /\ g1 = g
        \/ s \in {"ending", "scheduled", "starting"} /\ s1 \in Shown!Ended /\ g1 = g
    <2>1. \A x \in Stored : OneStatus[x] = IF x \in Active THEN "started" ELSE x
      BY DEF OneStatus
    <2> QED BY <2>1 DEF Claimed, Begun, Finished, Shown!Ended, Active, Over, Stored
  <1>5. /\ m \in Shown!Known /\ Shown!Write(m, r1)
        /\ UNCHANGED <<now, {n \in MeetingIds : meetings[n].status = "deleted"}>>
    BY <1>1, <1>2, ShownWrite
  <1>6. Shows(m) = r
    BY <1>1, <1>3 DEF Shows
  <1>7. /\ r \in Shown!Row /\ r1 \in Shown!Row
        /\ r.status = s /\ r1.status = s1 /\ r.started = g /\ r1.started = g1
        /\ r1.start = r.start /\ r1.end = r.end /\ r1.endpoints = r.endpoints
    <2>1. s \in Shown!Status /\ s1 \in Shown!Status /\ g \in BOOLEAN /\ g1 \in BOOLEAN
      BY <1>4 DEF Shown!Status, Shown!Ended
    <2>2. /\ meetings[m].start \in Shown!Times /\ meetings[m].end \in Shown!Times
          /\ meetings'[m].start = meetings[m].start /\ meetings'[m].end = meetings[m].end
      BY ShownTimes DEF StoreTypeOK, MeetingRow, SameTimes
    <2> HIDE DEF s, s1, g, g1
    <2> QED BY <1>2, <1>3, <2>1, <2>2, RowTyped
  <1> HIDE DEF s, s1, g, g1
  <1>8. /\ g1 = g => r1 = [r EXCEPT !.status = r1.status]
        /\ g1 = TRUE => r1 = [r EXCEPT !.status = r1.status, !.started = TRUE]
    BY ONLY <1>7, RowChanges
  <1>9. ASSUME NEW x, s1 = x PROVE /\ g1 = g => Shown!Move(m, [r EXCEPT !.status = x])
                                   /\ g1 = TRUE => Shown!Move(m, [r EXCEPT !.status = x, !.started = TRUE])
    BY <1>5, <1>7, <1>8, <1>9 DEF Shown!Move
  <1>10. \A S : r.status \in S => Shown!In(m, S)
    BY <1>5, <1>6 DEF Shows, Shown!In, Shown!Known
  <1>11. Shown!WorkerMoves(m)
    <2>1. CASE s = "scheduled" /\ s1 = "starting" /\ g1 = g
      BY <1>6, <1>7, <1>9, <1>10, <2>1 DEF Shows, Shown!WorkerMoves, Shown!Starting
    <2>2. CASE s = "starting" /\ s1 = "started" /\ g1 = TRUE
      BY <1>6, <1>7, <1>9, <1>10, <2>2 DEF Shows, Shown!WorkerMoves, Shown!Started
    <2>3. CASE s = "started" /\ s1 = "ending" /\ g1 = g
      BY <1>6, <1>7, <1>9, <1>10, <2>3 DEF Shows, Shown!WorkerMoves, Shown!Ending
    <2>4. CASE s \in {"ending", "scheduled", "starting"} /\ s1 \in Shown!Ended /\ g1 = g
      BY <1>6, <1>7, <1>9, <1>10, <2>4 DEF Shows, Shown!WorkerMoves, Shown!End
    <2> QED BY <1>4, <2>1, <2>2, <2>3, <2>4
  <1> QED BY <1>11 DEF Shown!CalendarNext

(* The requests that write the times or the endpoints of m.                *)
LEMMA ShownChanged ==
    ASSUME NEW m \in MeetingIds, StoreTypeOK, StoreTypeOK', Exists(m), Kept(m), OtherShown(m),
           now' = now,
           \/ SameTimes(m)
           \/ SameEndpoints(m) /\ meetings'[m].start = meetings[m].start
           \/ meetings'[m].start < meetings'[m].end
    PROVE  Shown!CalendarNext
  <1> DEFINE s == OneStatus[meetings[m].status]
             a == meetings'[m].start
             b == meetings'[m].end
             g == meetings[m].startedAt # Null
  <1>1. Exists(m)'
    BY DEF Kept, Exists
  <1>2. PICK r1, E : /\ E = ShownEndpoints(m)' /\ r1 = ShownRow(m)'
                     /\ r1 = [status |-> OneStatus[meetings'[m].status], start |-> a, end |-> b,
                              started |-> meetings'[m].startedAt # Null, endpoints |-> E]
                     /\ E \in SUBSET Aliases
    BY ShownAfter
  <1>3. PICK r : /\ r = ShownRow(m)
                 /\ r = [status |-> s, start |-> meetings[m].start, end |-> meetings[m].end,
                         started |-> g, endpoints |-> ShownEndpoints(m)]
    BY DEF ShownRow
  <1>4. a \in Shown!Times /\ b \in Shown!Times
    BY ShownTimes DEF StoreTypeOK, MeetingRow
  <1>5. /\ m \in Shown!Known /\ Shown!Write(m, r1)
        /\ UNCHANGED <<now, {n \in MeetingIds : meetings[n].status = "deleted"}>>
    BY <1>1, <1>2, ShownWrite
  <1>6. Shows(m) = r
    BY <1>3 DEF Shows
  <1>7. /\ r \in Shown!Row /\ r1 \in Shown!Row
        /\ r1.status = r.status /\ r1.started = r.started
        /\ r1.start = a /\ r1.end = b /\ r1.endpoints = E
        /\ r.start = meetings[m].start /\ r.end = meetings[m].end
        /\ r.endpoints = ShownEndpoints(m)
    <2>1. r1 = [status |-> s, start |-> a, end |-> b, started |-> g, endpoints |-> E]
      BY <1>2 DEF Kept
    <2>2. s \in Shown!Status /\ g \in BOOLEAN
      BY DEF Exists, OneStatus, Stored, Active, Over, Shown!Status, Shown!Ended
    <2>3. meetings[m].start \in Shown!Times /\ meetings[m].end \in Shown!Times
      BY ShownTimes DEF StoreTypeOK, MeetingRow
    <2>4. ShownEndpoints(m) \in SUBSET Aliases
      BY ShownTyped
    <2> HIDE DEF s, a, b, g
    <2>5. /\ r1 \in Shown!Row /\ r1.status = s /\ r1.started = g
          /\ r1.start = a /\ r1.end = b /\ r1.endpoints = E
      BY <1>2, <1>4, <2>1, <2>2, RowTyped
    <2>6. /\ r \in Shown!Row /\ r.status = s /\ r.started = g
          /\ r.start = meetings[m].start /\ r.end = meetings[m].end
          /\ r.endpoints = ShownEndpoints(m)
      BY <1>3, <2>2, <2>3, <2>4, RowTyped
    <2> QED BY <2>5, <2>6
  <1>8. \/ r1.start = r.start /\ r1.end = r.end
        \/ r1.start = r.start /\ r1.endpoints = r.endpoints
        \/ a < b
    BY <1>2, <1>7 DEF SameTimes, SameEndpoints
  <1> HIDE DEF s, a, b, g
  <1>9. \/ r1 = [r EXCEPT !.endpoints = E]
        \/ r1 = [r EXCEPT !.end = b]
        \/ r1 = [r EXCEPT !.start = a, !.end = b, !.endpoints = E] /\ a < b
    BY ONLY <1>7, <1>8, RowChanges
  <1>10. Shown!Change(m)
    <2>1. CASE r1 = [r EXCEPT !.endpoints = E]
      <3>1. Shown!Assign(m, E)
        BY <1>5, <1>6, <2>1 DEF Shows, Shown!Assign
      <3> QED BY <1>2, <3>1 DEF Shown!Change
    <2>2. CASE r1 = [r EXCEPT !.end = b]
      <3>1. Shown!Extend(m, b)
        BY <1>5, <1>6, <2>2 DEF Shows, Shown!Extend
      <3> QED BY <1>4, <3>1 DEF Shown!Change
    <2>3. CASE r1 = [r EXCEPT !.start = a, !.end = b, !.endpoints = E] /\ a < b
      <3>1. Shown!EditScheduled(m, a, b, E)
        BY <1>5, <1>6, <2>3 DEF Shows, Shown!EditScheduled
      <3> QED BY <1>2, <1>4, <3>1 DEF Shown!Change
    <2> QED BY <1>9, <2>1, <2>2, <2>3
  <1> QED BY <1>10 DEF Shown!CalendarNext

LEMMA ShownBooked ==
    ASSUME NEW m \in MeetingIds, StoreTypeOK, StoreTypeOK', Booked(m), OtherShown(m),
           meetings'[m].start < meetings'[m].end, now' = now
    PROVE  Shown!CalendarNext
  <1> DEFINE a == meetings'[m].start
             b == meetings'[m].end
  <1>1. ~Exists(m) /\ Exists(m)' /\ ~Removed(m) /\ ~Removed(m)'
    BY DEF Booked, Exists, Removed, Active, Over, Stored
  <1>2. PICK r1, E : /\ E = ShownEndpoints(m)' /\ r1 = ShownRow(m)'
                     /\ r1 = [status |-> OneStatus[meetings'[m].status], start |-> a, end |-> b,
                              started |-> meetings'[m].startedAt # Null, endpoints |-> E]
                     /\ E \in SUBSET Aliases
    BY ShownAfter
  <1>3. r1 = [status |-> "scheduled", start |-> a, end |-> b, started |-> FALSE,
              endpoints |-> E]
    <2>1. OneStatus["scheduled"] = "scheduled"
      BY DEF OneStatus, Stored, Active
    <2> QED BY <1>2, <2>1 DEF Booked
  <1>4. a \in Shown!Times /\ b \in Shown!Times
    BY ShownTimes DEF StoreTypeOK, MeetingRow
  <1>5. Shows(m)' = r1
    BY <1>1, <1>2 DEF Shows
  <1> HIDE DEF a, b
  <1>6. Shown!Write(m, r1)
    <2>1. \A n \in MeetingIds : Shows(n)' = IF n = m THEN r1 ELSE Shows(n)
      BY <1>5 DEF OtherShown, SameShown
    <2>2. [n \in MeetingIds |-> Shows(n)]' = [[n \in MeetingIds |-> Shows(n)] EXCEPT ![m] = r1]
      BY <2>1
    <2> QED BY <2>2 DEF Shows, Shown!Write
  <1>7. UNCHANGED {n \in MeetingIds : meetings[n].status = "deleted"}
    BY <1>1 DEF OtherShown, SameShown, Removed
  <1>8. Shown!Create(m, a, b, E)
    <2>1. m \notin Shown!Known /\ m \notin {n \in MeetingIds : meetings[n].status = "deleted"}
      BY <1>1 DEF Shown!Known, Removed
    <2>2. a < b
      BY DEF a, b
    <2> QED BY <1>3, <1>6, <1>7, <2>1, <2>2 DEF Shown!Create
  <1> QED BY <1>2, <1>4, <1>8 DEF Shown!CalendarNext, Shown!Change

LEMMA ShownDropped ==
    ASSUME NEW m \in MeetingIds, StoreTypeOK, Dropped(m), OtherShown(m), now' = now
    PROVE  Shown!CalendarNext
  <1>1. Exists(m) /\ ~Exists(m)' /\ Removed(m)'
    BY DEF Dropped, Exists, Removed, Active, Over, Stored
  <1>2. m \in Shown!Known
    BY <1>1, ShownTyped DEF Shown!Known
  <1>3. Shown!Write(m, None)
    <2>1. \A n \in MeetingIds : Shows(n)' = IF n = m THEN None ELSE Shows(n)
      BY <1>1 DEF OtherShown, SameShown, Shows
    <2>2. [n \in MeetingIds |-> Shows(n)]' = [[n \in MeetingIds |-> Shows(n)] EXCEPT ![m] = None]
      BY <2>1
    <2> QED BY <2>2 DEF Shows, Shown!Write
  <1>4. {n \in MeetingIds : meetings[n].status = "deleted"}'
            = {n \in MeetingIds : meetings[n].status = "deleted"} \cup {m}
    BY <1>1 DEF OtherShown, SameShown, Removed
  <1>5. Shown!Delete(m)
    BY <1>2, <1>3, <1>4 DEF Shown!Delete
  <1> QED BY <1>5 DEF Shown!CalendarNext, Shown!Change

----------------------------------------------------------------------------
(* The worker writes neither times nor endpoints, and makes and deletes no *)
(* meeting.                                                                *)
NoRow == {"unused", "deleted"}
Moves(m, r) ==
    /\ r.start = meetings[m].start /\ r.end = meetings[m].end
    /\ r.status \in NoRow <=> meetings[m].status \in NoRow
AllMoves == \A m \in MeetingIds : Moves(m, meetings'[m])

LEMMA SameMeetingsMove == UNCHANGED meetings => AllMoves
  BY DEF AllMoves, Moves

LEMMA OneMeetingMoves ==
    ASSUME NEW m \in MeetingIds, NEW r, StoreTypeOK, Moves(m, r),
           meetings' = [meetings EXCEPT ![m] = r]
    PROVE  AllMoves
  BY DEF StoreTypeOK, AllMoves, Moves

LEMMA JobRowsMove ==
    ASSUME NEW m \in MeetingIds, NEW s \in Stored, NEW t, StoreTypeOK,
           meetings[m].status \notin NoRow
    PROVE  Moves(m, StartedRow(m, s, t)) /\ Moves(m, EndedRow(m, s)) /\ Moves(m, ClaimedRow(m, s))
  <1>1. s \notin NoRow
    BY DEF Stored, Active, Over, NoRow
  <1> QED BY <1>1 DEF StoreTypeOK, MeetingRow, Moves, StartedRow, EndedRow, ClaimedRow

LEMMA UpdateMoves ==
    ASSUME NEW m \in MeetingIds, NEW s \in Stored, NEW t, NEW from, StoreTypeOK,
           from \cap NoRow = {},
           \/ UpdateWhere(m, from, StartedRow(m, s, t))
           \/ UpdateWhere(m, from, EndedRow(m, s))
    PROVE  AllMoves
  <1>1. CASE meetings[m].status \in from
    BY <1>1, OneMeetingMoves, JobRowsMove DEF UpdateWhere
  <1>2. CASE meetings[m].status \notin from
    BY <1>2, SameMeetingsMove DEF UpdateWhere
  <1> QED BY <1>1, <1>2

LEMMA WorkerKeepsTimes ==
    ASSUME TypeOK, WorkerStep
    PROVE  AllMoves
  <1> USE DEF TypeOK
  <1>s. /\ Active \cup Over \cup {"starting", "ending"} \subseteq Stored
        /\ \A f \in {{"starting"}, {"ending"}, {"scheduled"}} : f \cap NoRow = {}
    BY DEF Stored, Active, Over, NoRow
  <1>1. CASE RecoverGiveUp \/ RecoverFinish \/ StartFinish
    <2>1. w.m \in MeetingIds
      BY <1>1 DEF RecoverGiveUp, RecoverFinish, StartFinish, WorkerTypeOK, Starting
    <2>2. \E s \in Active : \E t : UpdateWhere(w.m, {"starting"}, StartedRow(w.m, s, t))
      BY <1>1 DEF RecoverGiveUp, RecoverFinish, StartFinish, Active
    <2> QED BY <1>s, <2>1, <2>2, UpdateMoves
  <1>2. CASE RecoverEnded \/ EndCommit \/ LockedEnded
    <2>1. w.m \in MeetingIds
      BY <1>2 DEF RecoverEnded, EndCommit, LockedEnded, WorkerTypeOK, Ending
    <2>2. \E s \in Over : UpdateWhere(w.m, {"ending"}, EndedRow(w.m, s))
      BY <1>2 DEF RecoverEnded, EndCommit, LockedEnded, Over
    <2> QED BY <1>s, <2>1, <2>2, UpdateMoves
  <1>3. ASSUME NEW m \in MeetingIds, RecoverPast(m) \/ ExpireOne(m) PROVE AllMoves
    <2>1. \E s \in Over : \E f \in {{"starting"}, {"scheduled"}} : UpdateWhere(m, f, EndedRow(m, s))
      BY <1>3 DEF RecoverPast, ExpireOne, Over
    <2> QED BY <1>s, <2>1, UpdateMoves
  <1>4. ASSUME NEW m \in MeetingIds, StartClaim(m) \/ EndClaim(m) PROVE AllMoves
    <2>1. CASE UNCHANGED meetings
      BY <2>1, SameMeetingsMove
    <2>2. CASE meetings' # meetings
      <3>1. /\ meetings[m].status \notin NoRow
            /\ \E s \in Stored : meetings' = [meetings EXCEPT ![m] = ClaimedRow(m, s)]
        BY <1>4, <1>s, <2>2 DEF StartClaim, EndClaim, CanClaimStart, CanClaimEnd, Active, NoRow
      <3> QED BY <3>1, OneMeetingMoves, JobRowsMove
    <2> QED BY <2>1, <2>2
  <1> QED
    BY <1>1, <1>2, <1>3, <1>4, SameMeetingsMove
    DEF WorkerStep, WorkerRuns, BeginTick, Restart, Recover, RecoverSelect, RecoverToken,
        RecoverLive, RecoverCommit, RecoverEndingSelect, RecoverDone, RecoverBegin,
        RecoverDisconnect, RecoverSeen, RecoverDial, Expire, ExpireSelect, ExpireDone, End,
        EndSelect, EndDisconnect, EndDone, Start, StartSelect, StartToken, StartDial,
        StartCommit, StartDone, Faulty, LockedJob, LockedDial, LockedStart, LockedSeen, Crash,
        storeVars

(* Setting the status of rows that exist brings none and takes none.       *)
LEMMA SetRowsShown ==
    ASSUME StoreTypeOK, NEW m, NEW K, NEW s \in EndpointStatus, SetRows(m, K, s)
    PROVE  \A n \in MeetingIds : SameEndpoints(n)
  <1>1. \A n \in MeetingIds : \A k \in RowKeys : RowExists(n, k)' <=> RowExists(n, k)
    BY DEF SetRows, StoreTypeOK, RowExists
  <1>2. \A n \in MeetingIds : Rows(n)' = Rows(n)
    BY <1>1 DEF Rows
  <1> QED BY <1>2 DEF SameEndpoints, ShownEndpoints

LEMMA SameRowsShown == UNCHANGED endpoints => \A n \in MeetingIds : SameEndpoints(n)
  BY DEF SameEndpoints, ShownEndpoints, Rows, RowExists

LEMMA WorkerKeepsEndpoints ==
    ASSUME TypeOK, WorkerStep
    PROVE  now' = now /\ \A n \in MeetingIds : SameEndpoints(n)
  <1> USE DEF TypeOK
  <1>s. w.res \in EndpointStatus /\ {"dialed", "error", "ended"} \subseteq EndpointStatus
    BY DEF EndpointStatus, WorkerTypeOK, WorkerState
  <1>1. CASE RecoverCommit \/ StartCommit \/ LockedDial \/ EndCommit
    <2>1. \E s \in EndpointStatus : \E K : SetRows(w.m, K, s)
      BY <1>1, <1>s DEF RecoverCommit, StartCommit, LockedDial, EndCommit
    <2>2. now' = now
      BY <1>1 DEF RecoverCommit, StartCommit, LockedDial, EndCommit
    <2> QED BY <2>1, <2>2, SetRowsShown
  <1>2. ASSUME NEW k \in RowKeys, RecoverSeen(k) \/ LockedSeen(k)
        PROVE  now' = now /\ \A n \in MeetingIds : SameEndpoints(n)
    <2>1. \E s \in EndpointStatus : \E K : SetRows(w.m, K, s)
      BY <1>2, <1>s DEF RecoverSeen, LockedSeen
    <2>2. now' = now
      BY <1>2 DEF RecoverSeen, LockedSeen
    <2> QED BY <2>1, <2>2, SetRowsShown
  <1> QED
    BY <1>1, <1>2, SameRowsShown
    DEF WorkerStep, WorkerRuns, BeginTick, Restart, Recover, RecoverSelect, RecoverToken,
        RecoverLive, RecoverGiveUp, RecoverFinish, RecoverEndingSelect, RecoverEnded,
        RecoverDone, RecoverPast, RecoverBegin, RecoverDisconnect, RecoverDial, Expire,
        ExpireSelect, ExpireOne, ExpireDone, End, EndSelect, EndClaim, EndDisconnect, EndDone,
        Start, StartSelect, StartClaim, StartToken, StartDial, StartFinish, StartDone, Faulty,
        LockedJob, LockedStart, LockedEnded, Crash, storeVars

LEMMA WorkerShown ==
    ASSUME TypeOK, WorkerStep
    PROVE  [Shown!CalendarNext]_(Shown!calendarVars)
  <1> USE DEF TypeOK
  <1>1. RowStep
    BY RecoverRows, OtherJobRows, FaultyRows, SameMeetings
    DEF WorkerStep, WorkerRuns, BeginTick, Restart, storeVars
  <1>2. /\ now' = now
        /\ \A m \in MeetingIds : SameTimes(m) /\ SameEndpoints(m) /\ ~Booked(m) /\ ~Dropped(m)
    BY WorkerKeepsTimes, WorkerKeepsEndpoints
    DEF AllMoves, Moves, NoRow, SameTimes, Booked, Dropped, Stored, Active, Over
  <1>3. CASE \A m \in MeetingIds : Kept(m)
    BY <1>2, <1>3, ShownKept, ShownIdle
  <1>4. ASSUME NEW m \in MeetingIds, Moved(m), \A n \in MeetingIds \ {m} : Kept(n)
        PROVE  Shown!CalendarNext
    <2>1. OtherShown(m)
      BY <1>2, <1>4, ShownKept DEF OtherShown
    <2>2. Claimed(m) \/ Begun(m) \/ Finished(m)
      BY <1>2, <1>4 DEF Moved
    <2> QED BY <1>2, <2>1, <2>2, ShownMoved
  <1> QED BY <1>1, <1>3, <1>4 DEF RowStep

----------------------------------------------------------------------------
(* A request writes the rows of one meeting.                               *)
LEMMA SameRowShown ==
    ASSUME NEW n \in MeetingIds, meetings'[n] = meetings[n], endpoints'[n] = endpoints[n]
    PROVE  SameShown(n)
  <1>1. SameEndpoints(n)
    BY DEF SameEndpoints, ShownEndpoints, Rows, RowExists
  <1> QED BY <1>1, ShownKept DEF Kept, SameTimes

LEMMA OthersShown ==
    ASSUME NEW m \in MeetingIds,
           \A n \in MeetingIds \ {m} : meetings'[n] = meetings[n] /\ endpoints'[n] = endpoints[n]
    PROVE  OtherShown(m)
  BY SameRowShown DEF OtherShown

LEMMA WrittenRows ==
    ASSUME NEW m \in MeetingIds, StoreTypeOK, NEW gone, NEW E, NEW K, NEW s,
           ReplaceRows(m, gone, E) \/ SetRows(m, K, s) \/ UNCHANGED endpoints
    PROVE  \A n \in MeetingIds \ {m} : endpoints'[n] = endpoints[n]
  BY DEF ReplaceRows, SetRows, StoreTypeOK

(* add and remove: only endpoint rows, of a meeting that may be gone.      *)
LEMMA RowsShown ==
    ASSUME NEW m \in MeetingIds, TypeOK, TypeOK', now' = now, UNCHANGED meetings,
           \A n \in MeetingIds \ {m} : endpoints'[n] = endpoints[n]
    PROVE  [Shown!CalendarNext]_(Shown!calendarVars)
  <1>1. OtherShown(m)
    BY OthersShown
  <1>2. Kept(m) /\ SameTimes(m)
    BY DEF Kept, SameTimes
  <1>3. CASE Exists(m)
    BY <1>1, <1>2, <1>3, ShownChanged DEF TypeOK
  <1>4. CASE ~Exists(m)
    <2>1. SameShown(m)
      BY <1>4 DEF SameShown, Shows, Exists, Removed
    <2> QED BY <1>1, <2>1, ShownIdle DEF OtherShown
  <1> QED BY <1>3, <1>4

LEMMA ManageShown ==
    ASSUME TypeOK, TypeOK', Manage
    PROVE  Shown!CalendarNext
  <1> USE DEF TypeOK
  <1>1. ASSUME NEW m \in MeetingIds, NEW slot \in Slots, NEW E \in SUBSET Aliases,
               CreateMeeting(m, slot, E)
        PROVE  Shown!CalendarNext
    <2>1. Booked(m) /\ meetings'[m].start = slot[1] /\ meetings'[m].end = slot[2]
      BY <1>1 DEF CreateMeeting, Booked, StoreTypeOK
    <2>2. OtherShown(m)
      BY <1>1, OthersShown, WrittenRows DEF CreateMeeting, StoreTypeOK
    <2>3. meetings'[m].start < meetings'[m].end
      BY <2>1, ApiAssumption
    <2> QED BY <1>1, <2>1, <2>2, <2>3, ShownBooked DEF CreateMeeting
  <1>2. ASSUME NEW m \in MeetingIds, DeleteMeeting(m) PROVE Shown!CalendarNext
    <2>1. Dropped(m)
      BY <1>2 DEF DeleteMeeting, Exists, Dropped, StoreTypeOK, UnusedMeeting
    <2>2. OtherShown(m)
      BY <1>2, OthersShown, WrittenRows DEF DeleteMeeting, DeleteRows, StoreTypeOK
    <2> QED BY <1>2, <2>1, <2>2, ShownDropped DEF DeleteMeeting
  <1>3. ASSUME NEW m \in MeetingIds, NEW E \in SUBSET Aliases, UpdateMeeting(m, E)
        PROVE  Shown!CalendarNext
    <2>1. Kept(m) /\ SameTimes(m)
      BY <1>3 DEF UpdateMeeting, Kept, SameTimes, StoreTypeOK, MeetingRow
    <2>2. OtherShown(m)
      BY <1>3, OthersShown, WrittenRows DEF UpdateMeeting, StoreTypeOK
    <2> QED BY <1>3, <2>1, <2>2, ShownChanged DEF UpdateMeeting
  <1> QED BY <1>1, <1>2, <1>3 DEF Manage

LEMMA EditShown ==
    ASSUME TypeOK, TypeOK', NEW t \in Threads, Edit(t)
    PROVE  [Shown!CalendarNext]_(Shown!calendarVars)
  <1> USE DEF TypeOK
  <1> DEFINE m == web[t].m
  <1>1. CASE UNCHANGED storeVars
    BY <1>1, SameRowShown, ShownIdle DEF storeVars
  <1>2. ASSUME NEW slot \in Slots, NEW E \in SUBSET Aliases, EditScheduled(t, slot, E)
        PROVE  Shown!CalendarNext
    <2>1. m \in MeetingIds
      BY <1>2 DEF EditScheduled, ApiTypeOK, WellFormed
    <2>2. Kept(m) /\ meetings'[m].start = slot[1] /\ meetings'[m].end = slot[2]
      BY <1>2, <2>1 DEF EditScheduled, Kept, StoreTypeOK, MeetingRow
    <2>3. OtherShown(m)
      BY <1>2, <2>1, OthersShown, WrittenRows DEF EditScheduled, StoreTypeOK
    <2>4. meetings'[m].start < meetings'[m].end
      BY <2>2, ApiAssumption
    <2> QED BY <1>2, <2>1, <2>2, <2>3, <2>4, ShownChanged DEF EditScheduled
  <1>3. CASE EditActive(t) \/ ExtendWrite(t)
    <2>1. m \in MeetingIds
      BY <1>3 DEF EditActive, ExtendWrite, ApiTypeOK, WellFormed
    <2> DEFINE r == [meetings[m] EXCEPT !.end = web[t].end, !.updatedAt = web[t].at]
    <2>r. /\ r.status = meetings[m].status /\ r.start = meetings[m].start
          /\ r.startedAt = meetings[m].startedAt /\ r.endedAt = meetings[m].endedAt
      <3>1. meetings[m] \in MeetingRow
        BY <2>1 DEF StoreTypeOK
      <3> QED BY ONLY <3>1 DEF MeetingRow
    <2>w. meetings' = [meetings EXCEPT ![m] = r]
      BY <1>3, <2>1 DEF EditActive, ExtendWrite, StoreTypeOK
    <2> HIDE DEF r
    <2>2. Kept(m) /\ meetings'[m].start = meetings[m].start
      <3>1. meetings'[m] = r
        BY <2>1, <2>w DEF StoreTypeOK
      <3> QED BY <2>r, <3>1 DEF Kept
    <2> USE DEF r
    <2>3. OtherShown(m) /\ SameEndpoints(m)
      BY <1>3, <2>1, OthersShown, SameRowsShown DEF EditActive, ExtendWrite, StoreTypeOK
    <2> QED BY <1>3, <2>1, <2>2, <2>3, ShownChanged DEF EditActive, ExtendWrite
  <1> QED BY <1>1, <1>2, <1>3 DEF Edit, EditRead, ExtendRead

LEMMA RequestShown ==
    ASSUME TypeOK, TypeOK', ApiStep
    PROVE  [Shown!CalendarNext]_(Shown!calendarVars)
  <1> USE DEF TypeOK
  <1>1. CASE UNCHANGED storeVars
    BY <1>1, SameRowShown, ShownIdle DEF storeVars
  <1>2. ASSUME NEW t \in Threads, RedialWrite(t)
        PROVE  UNCHANGED Shown!calendarVars
    <2>1. /\ UNCHANGED <<now, meetings>>
          /\ \A n \in MeetingIds : SameEndpoints(n)
      BY <1>2, SetRowsShown DEF RedialWrite, EndpointStatus
    <2>2. \A n \in MeetingIds : SameShown(n)
      BY <2>1, ShownKept DEF Kept, SameTimes
    <2> QED BY <2>1, <2>2, ShownIdle
  <1>3. ASSUME NEW t \in Threads, AddInsert(t) \/ AddWrite(t) \/ AddLocked(t) \/ RemoveDelete(t)
        PROVE  [Shown!CalendarNext]_(Shown!calendarVars)
    <2>1. web[t].m \in MeetingIds
      BY <1>3 DEF AddInsert, AddWrite, AddLocked, RemoveDelete, ApiTypeOK, WellFormed
    <2>2. /\ UNCHANGED <<now, meetings>>
          /\ \E gone, E, K, s : ReplaceRows(web[t].m, gone, E) \/ SetRows(web[t].m, K, s)
      BY <1>3 DEF AddInsert, AddWrite, AddLocked, RemoveDelete, DeleteRows
    <2>3. \A n \in MeetingIds \ {web[t].m} : endpoints'[n] = endpoints[n]
      BY <2>1, <2>2, WrittenRows
    <2> QED BY <2>1, <2>2, <2>3, RowsShown
  <1>4. ASSUME NEW t \in Threads, Redial(t) \/ Add(t) \/ Remove(t) \/ Abandon(t)
        PROVE  [Shown!CalendarNext]_(Shown!calendarVars)
    BY <1>1, <1>2, <1>3, <1>4
    DEF Redial, RedialRead, RedialCall, Add, AddRead, AddCall, Remove, RemoveRead, RemoveLive,
        RemoveCall, Abandon
  <1> QED BY <1>4, ManageShown, EditShown DEF ApiStep

(* What the calendar shows changes as Calendar says, and in no other way.  *)
THEOREM ShownCorrect == Spec => ShownSpec
  <1>1. Init => Shown!CalendarInit
    <2> SUFFICES ASSUME Init PROVE Shown!CalendarInit
      OBVIOUS
    <2>1. \A m \in MeetingIds : ~Exists(m) /\ ~Removed(m)
      BY DEF Init, StoreInit, UnusedMeeting, Exists, Removed, Stored, Active, Over
    <2> QED BY <2>1 DEF Init, StoreInit, Shown!CalendarInit, Removed
  <1>2. TypeOK /\ TypeOK' /\ [Next]_vars => [Shown!CalendarNext]_(Shown!calendarVars)
    <2> SUFFICES ASSUME TypeOK, TypeOK', [Next]_vars
                 PROVE  [Shown!CalendarNext]_(Shown!calendarVars)
      OBVIOUS
    <2>1. CASE Tick
      <3>1. UNCHANGED <<meetings, endpoints>> /\ now' = now + 1 /\ now' \in Shown!Times
        BY <2>1, ShownTimes DEF Tick, TypeOK, StoreTypeOK
      <3>2. \A n \in MeetingIds : SameShown(n)
        BY <3>1, SameRowShown
      <3>3. Shown!Pass
        BY <3>1, <3>2 DEF SameShown, Shows, Removed, Shown!Pass
      <3> QED BY <3>3 DEF Shown!CalendarNext
    <2>2. CASE Calls \/ UNCHANGED vars
      BY <2>2, SameRowShown, ShownIdle DEF Calls, Answer, GiveUp, HangUp, storeVars, vars
    <2> QED BY <2>1, <2>2, WorkerShown, RequestShown DEF Next
  <1> QED BY <1>1, <1>2, TypeCorrect, PTL DEF Spec, ShownSpec, Shown!CalendarSpec
----------------------------------------------------------------------------
(* The times of a meeting.  A request that is about to write an end has    *)
(* compared it with the start it read; that start is still the row's, as   *)
(* long as nobody else writes one meanwhile.                               *)
OneAtATime == "edit" \notin Requests \/ \A t, u \in Threads : t = u

WritesEnd(t) == web[t].pc = "extendWrite" \/ (web[t].pc = "editWrite" /\ web[t].active)
EndIsLater(m, end) ==
    meetings[m].status # "unused" /\ (Exists(m) => meetings[m].start < end)
PendingEnds == \A t \in Threads : WritesEnd(t) => EndIsLater(web[t].m, web[t].end)

(* What a step may do to the times of a row.                               *)
TimesGood(m) ==
    Exists(m)' => (Exists(m) /\ SameTimes(m)) \/ meetings'[m].start < meetings'[m].end
StartKept(m) ==
    /\ meetings[m].status # "unused" => meetings'[m].status # "unused"
    /\ meetings[m].status # "unused" /\ Exists(m)'
          => Exists(m) /\ meetings'[m].start = meetings[m].start

LEMMA UsedStays ==
    ASSUME RowStep, NEW m \in MeetingIds, meetings[m].status # "unused"
    PROVE  meetings'[m].status # "unused"
  BY DEF RowStep, Kept, Moved, Booked, Claimed, Begun, Finished, Dropped, Active, Over

LEMMA SameRowGood ==
    ASSUME NEW m, meetings'[m] = meetings[m]
    PROVE  TimesGood(m) /\ StartKept(m)
  BY DEF TimesGood, StartKept, SameTimes, Exists

LEMMA ManageTimes ==
    ASSUME TypeOK, Manage, NEW n \in MeetingIds
    PROVE  TimesGood(n) /\ StartKept(n)
  <1> USE DEF TypeOK
  <1>1. ASSUME NEW m \in MeetingIds, NEW slot \in Slots, NEW E \in SUBSET Aliases,
               CreateMeeting(m, slot, E)
        PROVE  TimesGood(n) /\ StartKept(n)
    <2>1. CASE n # m
      BY <1>1, <2>1, SameRowGood DEF CreateMeeting, StoreTypeOK
    <2>2. CASE n = m
      <3>1. /\ meetings[n].status = "unused"
            /\ meetings'[n].start = slot[1] /\ meetings'[n].end = slot[2]
        BY <1>1, <2>2 DEF CreateMeeting, StoreTypeOK
      <3> QED BY <3>1, ApiAssumption DEF TimesGood, StartKept
    <2> QED BY <2>1, <2>2
  <1>2. ASSUME NEW m \in MeetingIds, DeleteMeeting(m)
        PROVE  TimesGood(n) /\ StartKept(n)
    <2>1. CASE n # m
      BY <1>2, <2>1, SameRowGood DEF DeleteMeeting, StoreTypeOK
    <2>2. CASE n = m
      <3>1. meetings'[n].status = "deleted"
        BY <1>2, <2>2 DEF DeleteMeeting, StoreTypeOK, UnusedMeeting
      <3> QED BY <3>1 DEF TimesGood, StartKept, Exists, Stored, Active, Over
    <2> QED BY <2>1, <2>2
  <1>3. ASSUME NEW m \in MeetingIds, NEW E \in SUBSET Aliases, UpdateMeeting(m, E)
        PROVE  TimesGood(n) /\ StartKept(n)
    <2>1. /\ meetings'[n].status = meetings[n].status
          /\ meetings'[n].start = meetings[n].start /\ meetings'[n].end = meetings[n].end
      BY <1>3 DEF UpdateMeeting, StoreTypeOK, MeetingRow
    <2> QED BY <2>1 DEF TimesGood, StartKept, SameTimes, Exists
  <1> QED BY <1>1, <1>2, <1>3 DEF Manage

(* The write of a new end, and of a new slot.                              *)
LEMMA EndTimes ==
    ASSUME TypeOK, PendingEnds, NEW t \in Threads, EditActive(t) \/ ExtendWrite(t),
           NEW n \in MeetingIds
    PROVE  TimesGood(n) /\ StartKept(n) /\ Reply(t)
  <1> USE DEF TypeOK
  <1> DEFINE m == web[t].m
             r == [meetings[m] EXCEPT !.end = web[t].end, !.updatedAt = web[t].at]
  <1>1. m \in MeetingIds /\ Exists(m) /\ Reply(t) /\ meetings' = [meetings EXCEPT ![m] = r]
    BY DEF EditActive, ExtendWrite, ApiTypeOK, WellFormed, StoreTypeOK
  <1>2. r.status = meetings[m].status /\ r.start = meetings[m].start /\ r.end = web[t].end
    <2>1. meetings[m] \in MeetingRow
      BY <1>1 DEF StoreTypeOK
    <2> QED BY ONLY <2>1 DEF MeetingRow
  <1>3. meetings[m].start < web[t].end
    BY <1>1 DEF EditActive, ExtendWrite, PendingEnds, WritesEnd, EndIsLater
  <1>4. meetings'[m] = r /\ (n # m => meetings'[n] = meetings[n])
    BY <1>1 DEF StoreTypeOK
  <1> HIDE DEF r
  <1>5. CASE n = m
    BY <1>1, <1>2, <1>3, <1>4, <1>5 DEF TimesGood, StartKept, Exists
  <1> QED BY <1>1, <1>4, <1>5, SameRowGood

LEMMA SlotTimes ==
    ASSUME TypeOK, NEW t \in Threads, NEW slot \in Slots, NEW E \in SUBSET Aliases,
           EditScheduled(t, slot, E), NEW n \in MeetingIds
    PROVE  TimesGood(n) /\ Reply(t) /\ web[t].pc = "editWrite"
  <1> USE DEF TypeOK
  <1>1. web[t].m \in MeetingIds
    BY DEF EditScheduled, ApiTypeOK, WellFormed
  <1>2. CASE n # web[t].m
    BY <1>1, <1>2, SameRowGood DEF EditScheduled, StoreTypeOK
  <1>3. CASE n = web[t].m
    <2>1. meetings'[n].start = slot[1] /\ meetings'[n].end = slot[2]
      BY <1>1, <1>3 DEF EditScheduled, StoreTypeOK, MeetingRow
    <2>2. meetings'[n].start < meetings'[n].end
      BY <2>1, ApiAssumption
    <2> QED BY <2>2 DEF TimesGood, EditScheduled
  <1> QED BY <1>2, <1>3 DEF EditScheduled

(* A thread that begins to write an end has compared it.                   *)
LEMMA ReadTimes ==
    ASSUME TypeOK, NEW t \in Threads, NEW m \in MeetingIds,
           EditRead(t, m) \/ \E d \in Minutes : ExtendRead(t, m, d)
    PROVE  /\ UNCHANGED meetings
           /\ \E r : /\ web' = [web EXCEPT ![t] = r] /\ r.m = m
                     /\ \/ r.pc = "editWrite" /\ ~r.active
                        \/ EndIsLater(m, r.end)
  <1> DEFINE s == [Read("editWrite", m) EXCEPT !.at = now]
             a(x) == [Read("editWrite", m) EXCEPT !.at = now, !.active = TRUE, !.end = x]
             x(d) == [Read("extendWrite", m) EXCEPT !.at = now, !.end = meetings[m].end + d]
  <1>1. /\ s.m = m /\ s.pc = "editWrite" /\ ~s.active
        /\ \A y : a(y).m = m /\ a(y).end = y
        /\ \A d : x(d).m = m /\ x(d).end = meetings[m].end + d
    BY DEF Read, Free
  <1>2. \/ web' = [web EXCEPT ![t] = s]
        \/ \E y \in Times : web' = [web EXCEPT ![t] = a(y)] /\ meetings[m].start < y
                            /\ Editable(m)
        \/ \E d \in Minutes : /\ web' = [web EXCEPT ![t] = x(d)] /\ Exists(m)
                              /\ meetings[m].start < meetings[m].end + d
    <2>1. ASSUME NEW d \in Minutes, ExtendRead(t, m, d)
          PROVE  /\ web' = [web EXCEPT ![t] = x(d)] /\ Exists(m)
                 /\ meetings[m].start < meetings[m].end + d
      <3>1. meetings[m].start \in Int /\ meetings[m].end + d \in Int
        BY ApiAssumption DEF TypeOK, StoreTypeOK, MeetingRow, Times
      <3> QED BY <2>1, <3>1 DEF ExtendRead, CanExtend
    <2>2. CASE EditRead(t, m)
      <3>1. \A y \in Times : y \in Int /\ meetings[m].start \in Int
        BY DEF TypeOK, StoreTypeOK, MeetingRow, Times
      <3> QED BY <2>2, <3>1 DEF EditRead
    <2> QED BY <2>1, <2>2
  <1>3. /\ Editable(m) => meetings[m].status # "unused"
        /\ Exists(m) => meetings[m].status # "unused"
    BY DEF Editable, Exists, Active, Over, Stored
  <1>4. UNCHANGED meetings
    BY DEF EditRead, ExtendRead, storeVars
  <1> HIDE DEF s, a, x
  <1> QED BY <1>1, <1>2, <1>3, <1>4 DEF EndIsLater

(* Requests that do not touch the table meetings, and the threads they     *)
(* leave in a place where no end is written.                               *)
LEMMA OtherTimes ==
    ASSUME TypeOK, NEW t \in Threads, Redial(t) \/ Add(t) \/ Remove(t) \/ Abandon(t)
    PROVE  /\ UNCHANGED meetings
           /\ \E r : web' = [web EXCEPT ![t] = r] /\ r.pc \notin {"editWrite", "extendWrite"}
  <1>1. UNCHANGED meetings
    BY DEF Redial, RedialRead, RedialCall, RedialWrite, Add, AddRead, AddInsert, AddCall,
       AddWrite, AddLocked, Remove, RemoveRead, RemoveLive, RemoveCall, RemoveDelete, Abandon,
       storeVars
  <1> DEFINE Elsewhere == \E r : /\ web' = [web EXCEPT ![t] = r]
                                 /\ r.pc \notin {"editWrite", "extendWrite"}
  <1>2. ASSUME Reply(t) PROVE Elsewhere
    <2>1. Free.pc \notin {"editWrite", "extendWrite"}
      BY DEF Free
    <2> QED BY <1>2, <2>1 DEF Reply
  <1>3. ASSUME NEW p \in OnEndpoint, Goto(t, p) PROVE Elsewhere
    <2>1. [web[t] EXCEPT !.pc = p].pc = p
      BY DEF TypeOK, ApiTypeOK, ThreadState
    <2>2. web' = [web EXCEPT ![t] = [web[t] EXCEPT !.pc = p]]
      BY <1>3 DEF Goto, TypeOK, ApiTypeOK
    <2> QED BY <2>1, <2>2 DEF OnEndpoint
  <1>4. ASSUME NEW m \in MeetingIds, NEW k \in RowKeys, RedialRead(t, m, k) PROVE Elsewhere
    <2> DEFINE r == [Read("redialCall", m) EXCEPT !.e = k[1], !.row = k]
    <2>1. r.pc = "redialCall"
      BY DEF Read, Free
    <2>2. web' = [web EXCEPT ![t] = r]
      BY <1>4 DEF RedialRead
    <2> HIDE DEF r
    <2> QED BY <2>1, <2>2
  <1>5. ASSUME NEW m \in MeetingIds, NEW e \in Aliases, AddRead(t, m, e) \/ RemoveRead(t, m, e)
        PROVE  Elsewhere
    <2> DEFINE r(p) == [Read(p, m) EXCEPT !.e = e]
    <2>1. \A p : r(p).pc = p
      BY DEF Read, Free
    <2>2. \E p \in OnEndpoint : web' = [web EXCEPT ![t] = r(p)]
      BY <1>5 DEF AddRead, RemoveRead, OnEndpoint
    <2> HIDE DEF r
    <2> QED BY <2>1, <2>2 DEF OnEndpoint
  <1>6. ASSUME AddCall(t) PROVE Elsewhere
    <2> DEFINE r(ok) == [web[t] EXCEPT !.pc = "addWrite", !.ok = ok]
    <2>1. \A ok : r(ok).pc = "addWrite"
      BY DEF TypeOK, ApiTypeOK, ThreadState
    <2>2. \E ok \in BOOLEAN : web' = [web EXCEPT ![t] = r(ok)]
      BY <1>6 DEF AddCall, TypeOK, ApiTypeOK
    <2> HIDE DEF r
    <2> QED BY <2>1, <2>2
  <1>7. ASSUME RemoveLive(t) PROVE Elsewhere
    <2>1. Goto(t, "removeDelete") \/ Goto(t, "removeCall") \/ Reply(t)
      BY <1>7 DEF RemoveLive
    <2> QED BY <1>2, <1>3, <2>1 DEF OnEndpoint
  <1>8. Elsewhere
    <2>1. \/ Reply(t) \/ \E p \in OnEndpoint : Goto(t, p)
          \/ \E m \in MeetingIds, k \in RowKeys : RedialRead(t, m, k)
          \/ \E m \in MeetingIds, e \in Aliases : AddRead(t, m, e) \/ RemoveRead(t, m, e)
          \/ AddCall(t) \/ RemoveLive(t)
      BY DEF Redial, RedialCall, RedialWrite, Add, AddInsert, AddWrite, AddLocked, Remove,
         RemoveCall, RemoveDelete, Abandon, OnEndpoint
    <2> QED BY <1>2, <1>3, <1>4, <1>5, <1>6, <1>7, <2>1
  <1> QED BY <1>1, <1>8

LEMMA PendingStep ==
    ASSUME OneAtATime, TypeOK, OnlyAsked, PendingEnds, EndAfterStart, [Next]_vars
    PROVE  PendingEnds' /\ EndAfterStart'
  <1> USE DEF TypeOK
  <1>1. \A m \in MeetingIds : meetings[m].status # "unused" => meetings'[m].status # "unused"
    BY MeetingsStep, UsedStays
  <1>2. ASSUME \A m \in MeetingIds : TimesGood(m) PROVE EndAfterStart'
    BY <1>2 DEF TimesGood, SameTimes, EndAfterStart
  (* the threads other than u keep what they remember                      *)
  <1>3. ASSUME NEW u \in Threads, NEW r, web' = [web EXCEPT ![u] = r],
               \A m \in MeetingIds : StartKept(m),
               r.pc \in {"editWrite", "extendWrite"} /\ (r.pc = "editWrite" => r.active)
                  => r.m \in MeetingIds /\ EndIsLater(r.m, r.end)
        PROVE  PendingEnds'
    <2> SUFFICES ASSUME NEW t \in Threads, WritesEnd(t)' PROVE EndIsLater(web[t].m, web[t].end)'
      BY DEF PendingEnds
    <2>1. web'[t].m \in MeetingIds /\ EndIsLater(web'[t].m, web'[t].end)
      <3>1. CASE t = u
        BY <1>3, <3>1 DEF ApiTypeOK, WritesEnd
      <3>2. CASE t # u
        BY <1>3, <3>2 DEF ApiTypeOK, WritesEnd, PendingEnds, WellFormed
      <3> QED BY <3>1, <3>2
    <2> QED BY <1>3, <2>1 DEF StartKept, EndIsLater
  <1>4. ASSUME UNCHANGED web, \A m \in MeetingIds : StartKept(m) PROVE PendingEnds'
    <2> SUFFICES ASSUME NEW t \in Threads, WritesEnd(t)' PROVE EndIsLater(web[t].m, web[t].end)'
      BY DEF PendingEnds
    <2>1. web'[t].m \in MeetingIds /\ EndIsLater(web'[t].m, web'[t].end)
      BY <1>4 DEF ApiTypeOK, WritesEnd, PendingEnds, WellFormed
    <2> QED BY <1>4, <2>1 DEF StartKept, EndIsLater
  <1>f. Free.pc = "free"
    BY DEF Free
  <1>5. CASE UNCHANGED <<meetings, web>>
    BY <1>2, <1>4, <1>5, SameRowGood
  <1>6. CASE WorkerStep /\ UNCHANGED web
    <2>1. \A m \in MeetingIds : TimesGood(m) /\ StartKept(m)
      BY <1>1, <1>6, WorkerKeepsTimes
      DEF AllMoves, Moves, NoRow, TimesGood, StartKept, SameTimes, Exists, Stored, Active, Over,
          StoreTypeOK, MeetingRow
    <2> QED BY <1>2, <1>4, <1>6, <2>1
  <1>7. CASE Manage
    <2>1. UNCHANGED web
      BY <1>7 DEF Manage, CreateMeeting, DeleteMeeting, UpdateMeeting
    <2> QED BY <1>2, <1>4, <1>7, <2>1, ManageTimes
  <1>8. ASSUME NEW t \in Threads, Redial(t) \/ Add(t) \/ Remove(t) \/ Abandon(t)
        PROVE  PendingEnds' /\ EndAfterStart'
    BY <1>2, <1>3, <1>8, OtherTimes, SameRowGood
  <1>9. ASSUME NEW t \in Threads, Edit(t)
        PROVE  PendingEnds' /\ EndAfterStart'
    <2>1. ASSUME NEW m \in MeetingIds, EditRead(t, m) \/ \E d \in Minutes : ExtendRead(t, m, d)
          PROVE  PendingEnds' /\ EndAfterStart'
      <3>1. PICK r : /\ web' = [web EXCEPT ![t] = r] /\ r.m = m
                     /\ \/ r.pc = "editWrite" /\ ~r.active
                        \/ EndIsLater(m, r.end)
        BY <2>1, ReadTimes
      <3>2. UNCHANGED meetings
        BY <2>1, ReadTimes
      <3> QED BY <1>2, <1>3, <3>1, <3>2, SameRowGood
    <2>2. CASE EditActive(t) \/ ExtendWrite(t)
      <3>1. (\A n \in MeetingIds : TimesGood(n) /\ StartKept(n)) /\ Reply(t)
        <4>1. web[t].m \in MeetingIds
          BY <2>2 DEF EditActive, ExtendWrite, ApiTypeOK, WellFormed
        <4> QED BY <2>2, <4>1, EndTimes
      <3>2. PendingEnds'
        BY <1>3, <1>f, <3>1 DEF Reply
      <3> QED BY <1>2, <3>1, <3>2
    <2>3. ASSUME NEW slot \in Slots, NEW E \in SUBSET Aliases, EditScheduled(t, slot, E)
          PROVE  PendingEnds' /\ EndAfterStart'
      <3>1. (\A n \in MeetingIds : TimesGood(n)) /\ Reply(t) /\ web[t].pc = "editWrite"
        BY <2>3, SlotTimes DEF EditScheduled
      <3>2. \A u \in Threads : u = t
        BY <3>1 DEF OneAtATime, OnlyAsked, AskedFor
      <3>3. \A u \in Threads : web'[u].pc = "free"
        BY <1>f, <3>1, <3>2 DEF Reply, ApiTypeOK
      <3>4. PendingEnds'
        BY <3>3 DEF PendingEnds, WritesEnd
      <3> QED BY <1>2, <3>1, <3>4
    <2> QED BY <1>9, <2>1, <2>2, <2>3 DEF Edit
  <1> QED
    BY <1>5, <1>6, <1>7, <1>8, <1>9
    DEF Next, ApiStep, Calls, Answer, GiveUp, HangUp, Tick, storeVars, vars

(* No sequence of bookings, edits and extensions, and no step of worker or *)
(* calls, leaves a meeting that ends before it starts - if nobody edits,   *)
(* or requests are served one at a time.  With edits and two threads TLC   *)
(* finds how one is left.                                                  *)
THEOREM EndsAfterItStarts == ASSUME OneAtATime PROVE Spec => []EndAfterStart
  <1>1. Init => PendingEnds /\ EndAfterStart
    <2> SUFFICES ASSUME Init PROVE PendingEnds /\ EndAfterStart
      OBVIOUS
    <2>1. \A m \in MeetingIds : ~Exists(m)
      BY DEF Init, StoreInit, UnusedMeeting, Exists, Stored, Active, Over
    <2>2. \A t \in Threads : web[t].pc = "free"
      BY DEF Init, ApiInit, Free
    <2> QED BY <2>1, <2>2 DEF PendingEnds, WritesEnd, EndAfterStart
  <1>2. TypeOK /\ OnlyAsked /\ PendingEnds /\ EndAfterStart /\ [Next]_vars
            => PendingEnds' /\ EndAfterStart'
    BY PendingStep
  <1> QED BY <1>1, <1>2, TypeCorrect, AskedAlways, PTL DEF Spec
=============================================================================
