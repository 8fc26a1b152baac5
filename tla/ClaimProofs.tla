----------------------------- MODULE ClaimProofs -----------------------------
(***************************************************************************)
(* A claim is exclusive: while the worker handles a meeting that it        *)
(* claimed, or found abandoned in recovery, nobody moves the meeting.      *)
(*                                                                         *)
(* OwnsClaim is not inductive: that a meeting recovery goes on to is still *)
(* where it was found depends on the candidates not yet processed.  Claims *)
(* adds what these are.                                                    *)
(*                                                                         *)
(* From the claims follows, in the second part, that what is recorded as   *)
(* ended is quiet; in the third, that the worker dials no row that is      *)
(* marked as dialled, whatever crashes, recoveries, locked databases and   *)
(* requests come in between; and in the fourth, that a meeting recorded as *)
(* started has had all its rows dialled.                                   *)
(***************************************************************************)
EXTENDS LifecycleProofs

(* The meetings of M are in status s, unless they have been deleted.       *)
In(M, s) == \A m \in M : meetings[m].status \in {s, "deleted"}

(* In the middle of a meeting of the first loop of recovery.               *)
RecoverMid == {"recToken", "recLive", "recGiveUp", "recEp", "recCommit"}

(* The inductive invariant.                                                *)
Claims ==
    /\ w.pc \in Starting => In({w.m}, "starting")
    /\ w.pc \in Ending => In({w.m}, "ending")
    /\ w.pc = "recStarting" => In(w.todo, "starting")
    /\ w.pc \in RecoverMid => In(w.todo \ {w.m}, "starting")
    /\ w.pc = "recEnding" => In(w.todo, "ending")
    /\ w.pc = "recEndCommit" => In(w.todo \ {w.m}, "ending")
----------------------------------------------------------------------------
(* What other processes may do to the status of a meeting.                 *)
Held(m) ==
    \/ meetings'[m].status \in {meetings[m].status, "deleted"}
    \/ meetings[m].status = "unused" /\ meetings'[m].status = "scheduled"

LEMMA SameHeld == UNCHANGED meetings => \A m \in MeetingIds : Held(m)
  BY DEF Held

LEMMA OneHeld ==
    ASSUME NEW m \in MeetingIds, NEW r, StoreTypeOK,
           meetings' = [meetings EXCEPT ![m] = r],
           \/ r.status \in {meetings[m].status, "deleted"}
           \/ meetings[m].status = "unused" /\ r.status = "scheduled"
    PROVE  \A n \in MeetingIds : Held(n)
  BY DEF StoreTypeOK, Held

(* Requests book meetings and delete them, and leave the status alone      *)
(* otherwise.                                                              *)
LEMMA RequestsHold ==
    ASSUME TypeOK, ApiStep
    PROVE  \A m \in MeetingIds : Held(m)
  <1> USE DEF TypeOK
  <1>1. ASSUME NEW m \in MeetingIds, NEW slot \in Slots, NEW E \in SUBSET Aliases,
               CreateMeeting(m, slot, E)
        PROVE  \A n \in MeetingIds : Held(n)
    BY <1>1, OneHeld DEF CreateMeeting
  <1>2. ASSUME NEW m \in MeetingIds, DeleteMeeting(m)
        PROVE  \A n \in MeetingIds : Held(n)
    BY <1>2, OneHeld DEF DeleteMeeting, UnusedMeeting
  <1>3. ASSUME NEW m \in MeetingIds, NEW E \in SUBSET Aliases, UpdateMeeting(m, E)
        PROVE  \A n \in MeetingIds : Held(n)
    <2> DEFINE r == [meetings[m] EXCEPT !.updatedAt = now]
    <2>1. meetings' = [meetings EXCEPT ![m] = r] /\ r.status = meetings[m].status
      BY <1>3 DEF UpdateMeeting, StoreTypeOK, MeetingRow
    <2> QED BY ONLY <2>1, OneHeld, TypeOK, m \in MeetingIds DEF TypeOK
  <1>4. ASSUME NEW t \in Threads, Edit(t)
        PROVE  \A n \in MeetingIds : Held(n)
    <2> DEFINE m == web[t].m
    <2>1. CASE UNCHANGED meetings
      BY <2>1, SameHeld
    <2>2. ASSUME NEW slot \in Slots, NEW E \in SUBSET Aliases, EditScheduled(t, slot, E)
          PROVE  \A n \in MeetingIds : Held(n)
      <3> DEFINE r == [meetings[m] EXCEPT !.start = slot[1], !.end = slot[2],
                                          !.updatedAt = web[t].at]
      <3>1. m \in MeetingIds
        BY <2>2 DEF EditScheduled, ApiTypeOK, WellFormed
      <3>2. r.status = meetings[m].status
        BY <3>1 DEF StoreTypeOK, MeetingRow
      <3>3. meetings' = [meetings EXCEPT ![m] = r]
        BY <2>2 DEF EditScheduled
      <3> QED BY <3>1, <3>2, <3>3, OneHeld
    <2>3. CASE EditActive(t) \/ ExtendWrite(t)
      <3> DEFINE r == [meetings[m] EXCEPT !.end = web[t].end, !.updatedAt = web[t].at]
      <3>1. m \in MeetingIds
        BY <2>3 DEF EditActive, ExtendWrite, ApiTypeOK, WellFormed
      <3>2. r.status = meetings[m].status
        BY <3>1 DEF StoreTypeOK, MeetingRow
      <3>3. meetings' = [meetings EXCEPT ![m] = r]
        BY <2>3 DEF EditActive, ExtendWrite
      <3> QED BY <3>1, <3>2, <3>3, OneHeld
    <2> QED BY <1>4, <2>1, <2>2, <2>3 DEF Edit, EditRead, ExtendRead, storeVars
  <1>5. ASSUME NEW t \in Threads, Redial(t) \/ Add(t) \/ Remove(t) \/ Abandon(t)
        PROVE  UNCHANGED meetings
    BY <1>5 DEF Redial, RedialRead, RedialCall, RedialWrite, Add, AddRead, AddInsert, AddCall,
       AddWrite, AddLocked, Remove, RemoveRead, RemoveLive, RemoveCall, RemoveDelete, Abandon,
       storeVars
  <1> QED BY <1>1, <1>2, <1>3, <1>4, <1>5, SameHeld DEF ApiStep, Manage

LEMMA OthersHold ==
    ASSUME TypeOK, ApiStep \/ Calls \/ Tick \/ UNCHANGED vars
    PROVE  \A m \in MeetingIds : Held(m)
  BY RequestsHold, SameHeld DEF Calls, Answer, GiveUp, HangUp, Tick, vars, storeVars

(* So the claims stand while the worker does nothing.                      *)
LEMMA OthersKeepClaims ==
    ASSUME TypeOK, Claims, ApiStep \/ Calls \/ Tick \/ UNCHANGED vars, UNCHANGED w
    PROVE  Claims'
  <1>1. ASSUME NEW M, M \subseteq MeetingIds, NEW s \in {"starting", "ending"}, In(M, s)
        PROVE  In(M, s)'
    BY <1>1, OthersHold DEF In, Held
  <1>2. w.todo \subseteq MeetingIds /\ (w.pc \in Starting \cup Ending => w.m \in MeetingIds)
    BY DEF TypeOK, WorkerTypeOK, WorkerState
  <1>3. w' = w
    OBVIOUS
  <1>4. w.pc \in Starting => In({w.m}, "starting")'
    BY <1>1, <1>2 DEF Claims
  <1>5. w.pc \in Ending => In({w.m}, "ending")'
    BY <1>1, <1>2 DEF Claims
  <1>6. /\ w.pc = "recStarting" => In(w.todo, "starting")'
        /\ w.pc \in RecoverMid => In(w.todo \ {w.m}, "starting")'
    BY <1>1, <1>2 DEF Claims
  <1>7. /\ w.pc = "recEnding" => In(w.todo, "ending")'
        /\ w.pc = "recEndCommit" => In(w.todo \ {w.m}, "ending")'
    BY <1>1, <1>2 DEF Claims
  <1> QED BY <1>3, <1>4, <1>5, <1>6, <1>7 DEF Claims, In
----------------------------------------------------------------------------
(* The worker's own UPDATEs leave all meetings but one alone.              *)
LEMMA OneRowMoves ==
    ASSUME NEW m \in MeetingIds, NEW from, NEW r, StoreTypeOK, UpdateWhere(m, from, r)
    PROVE  \A n \in MeetingIds \ {m} : meetings'[n] = meetings[n]
  BY DEF UpdateWhere, StoreTypeOK

(* The states in which the worker handles no claim.                        *)
LEMMA NoClaim ==
    ASSUME w'.pc \notin Starting \cup Ending \cup {"recStarting", "recEnding"}
    PROVE  Claims'
  BY DEF Claims, Starting, Ending, RecoverMid

(* The step to the next candidate of recovery's loops.                     *)
LEMMA NextClaim ==
    ASSUME TypeOK, Claims, w.m \in MeetingIds,
           \A n \in MeetingIds \ {w.m} : meetings'[n] = meetings[n],
           \/ w.pc \in RecoverMid /\ w' = NextCandidate("recStarting")
           \/ w.pc = "recEndCommit" /\ w' = NextCandidate("recEnding")
    PROVE  Claims'
  <1>1. w.todo \subseteq MeetingIds
    BY DEF TypeOK, WorkerTypeOK, WorkerState
  <1>2. w'.todo = w.todo \ {w.m} /\ w'.pc \in {"recStarting", "recEnding"}
    BY DEF NextCandidate, At
  <1>3. CASE w.pc \in RecoverMid
    <2>1. w'.pc = "recStarting"
      BY <1>3 DEF NextCandidate, At, RecoverMid
    <2>2. In(w.todo \ {w.m}, "starting")
      BY <1>3 DEF Claims
    <2>3. \A n \in w'.todo : meetings'[n].status \in {"starting", "deleted"}
      BY <1>1, <1>2, <2>2 DEF In
    <2> QED BY <2>1, <2>3 DEF Claims, In, Starting, Ending, RecoverMid
  <1>4. CASE w.pc = "recEndCommit"
    <2>1. w'.pc = "recEnding"
      BY <1>4 DEF NextCandidate, At, RecoverMid
    <2>2. In(w.todo \ {w.m}, "ending")
      BY <1>4 DEF Claims
    <2>3. \A n \in w'.todo : meetings'[n].status \in {"ending", "deleted"}
      BY <1>1, <1>2, <2>2 DEF In
    <2> QED BY <2>1, <2>3 DEF Claims, In, Starting, Ending, RecoverMid
  <1> QED BY <1>3, <1>4

(* The worker goes on with the meeting it has claimed.                     *)
LEMMA SameClaim ==
    ASSUME Claims, UNCHANGED meetings, w'.m = w.m, w'.todo = w.todo,
           \/ w.pc \in RecoverMid /\ w'.pc \in RecoverMid
           \/ /\ w.pc \in {"startToken", "startEp", "startCommit"}
              /\ w'.pc \in {"startToken", "startEp", "startCommit"}
           \/ w.pc = "endCall" /\ w'.pc = "endCommit"
    PROVE  Claims'
  BY DEF Claims, In, Starting, Ending, RecoverMid

LEMMA RecoverClaims ==
    ASSUME TypeOK, Claims, Recover
    PROVE  Claims'
  <1> USE DEF TypeOK
  <1>w. w \in WorkerState /\ w.todo \subseteq MeetingIds
    BY DEF WorkerTypeOK, WorkerState
  <1>m. w.pc \in Starting \cup Ending => w.m \in MeetingIds
    BY DEF WorkerTypeOK
  <1>1. CASE RecoverSelect
    <2>1. /\ w'.pc = "recStarting" /\ w'.todo = Stuck("starting", now)
          /\ UNCHANGED meetings
      BY <1>1 DEF RecoverSelect, At, storeVars
    <2> QED BY <2>1 DEF Claims, In, Stuck, Starting, Ending, RecoverMid
  <1>2. CASE RecoverToken
    <2>1. w.pc \in RecoverMid /\ w'.pc \in RecoverMid /\ w'.m = w.m /\ w'.todo = w.todo
      BY <1>2, <1>w DEF RecoverToken, RecoverMid, WorkerState
    <2> QED BY <1>2, <2>1, SameClaim DEF RecoverToken, storeVars
  <1>3. CASE RecoverLive
    <2>1. w.pc \in RecoverMid /\ w'.pc \in RecoverMid /\ w'.m = w.m /\ w'.todo = w.todo
      BY <1>3, <1>w DEF RecoverLive, RecoverMid, WorkerState
    <2> QED BY <1>3, <2>1, SameClaim DEF RecoverLive, storeVars
  <1>4. CASE RecoverGiveUp
    <2>1. w.pc \in RecoverMid /\ w.m \in MeetingIds
      BY <1>4, <1>m DEF RecoverGiveUp, RecoverMid, Starting
    <2> QED BY <1>4, <2>1, OneRowMoves, NextClaim DEF RecoverGiveUp
  <1>5. CASE RecoverCommit
    <2>1. w.pc \in RecoverMid /\ w'.pc \in RecoverMid /\ w'.m = w.m /\ w'.todo = w.todo
      BY <1>5, <1>w DEF RecoverCommit, Recorded, RecoverMid, WorkerState
    <2> QED BY <1>5, <2>1, SameClaim DEF RecoverCommit
  <1>6. CASE RecoverFinish
    <2>1. w.pc \in RecoverMid /\ w.m \in MeetingIds
      BY <1>6, <1>m DEF RecoverFinish, RecoverMid, Starting
    <2> QED BY <1>6, <2>1, OneRowMoves, NextClaim DEF RecoverFinish
  <1>7. CASE RecoverEndingSelect
    <2>1. /\ w'.pc = "recEnding" /\ w'.todo = Stuck("ending", w.cur)
          /\ UNCHANGED meetings
      BY <1>7 DEF RecoverEndingSelect, At, storeVars
    <2> QED BY <2>1 DEF Claims, In, Stuck, Starting, Ending, RecoverMid
  <1>8. CASE RecoverEnded
    <2>1. w.pc = "recEndCommit" /\ w.m \in MeetingIds
      BY <1>8, <1>m DEF RecoverEnded, Ending
    <2> QED BY <1>8, <2>1, OneRowMoves, NextClaim DEF RecoverEnded
  <1>9. CASE RecoverDone
    BY <1>9, NoClaim DEF RecoverDone, At, Starting, Ending
  <1>10. ASSUME NEW m \in MeetingIds, RecoverPast(m) PROVE Claims'
    <2>1. \A n \in MeetingIds \ {m} : meetings'[n] = meetings[n]
      BY <1>10, OneRowMoves DEF RecoverPast
    <2>2. w'.pc = "recStarting" /\ w'.todo = w.todo \ {m} /\ w.pc = "recStarting"
      BY <1>10, <1>w DEF RecoverPast, Skip, WorkerState
    <2> QED BY <1>w, <2>1, <2>2 DEF Claims, In, Starting, Ending, RecoverMid
  <1>11. ASSUME NEW m \in MeetingIds, RecoverBegin(m) PROVE Claims'
    <2>1. /\ w.pc = "recStarting" /\ m \in w.todo /\ UNCHANGED meetings
          /\ w'.pc = "recToken" /\ w'.m = m /\ w'.todo = w.todo
      BY <1>11, <1>w DEF RecoverBegin, Begin, WorkerState, storeVars
    <2> QED BY <1>w, <2>1 DEF Claims, In, Starting, Ending, RecoverMid
  <1>12. ASSUME NEW m \in MeetingIds, RecoverDisconnect(m) PROVE Claims'
    <2>1. /\ w.pc = "recEnding" /\ m \in w.todo /\ UNCHANGED meetings
          /\ w'.pc = "recEndCommit" /\ w'.m = m /\ w'.todo = w.todo
      BY <1>12, <1>w DEF RecoverDisconnect, Begin, WorkerState, storeVars
    <2> QED BY <1>w, <2>1 DEF Claims, In, Starting, Ending, RecoverMid
  <1>13. ASSUME NEW k \in RowKeys, RecoverSeen(k) PROVE Claims'
    <2>1. w.pc \in RecoverMid /\ w'.pc \in RecoverMid /\ w'.m = w.m /\ w'.todo = w.todo
      BY <1>13, <1>w DEF RecoverSeen, RecoverMid, WorkerState
    <2> QED BY <1>13, <2>1, SameClaim DEF RecoverSeen
  <1>14. ASSUME NEW k \in RowKeys, RecoverDial(k) PROVE Claims'
    <2>1. w.pc \in RecoverMid /\ w'.pc \in RecoverMid /\ w'.m = w.m /\ w'.todo = w.todo
      BY <1>14, <1>w DEF RecoverDial, RecoverMid, WorkerState
    <2> QED BY <1>14, <2>1, SameClaim DEF RecoverDial, storeVars
  <1> QED
    BY <1>1, <1>2, <1>3, <1>4, <1>5, <1>6, <1>7, <1>8, <1>9, <1>10, <1>11, <1>12, <1>13,
       <1>14 DEF Recover

LEMMA EndClaims ==
    ASSUME TypeOK, Claims, Expire \/ End
    PROVE  Claims'
  <1> USE DEF TypeOK
  <1>w. w \in WorkerState /\ w.todo \subseteq MeetingIds
    BY DEF WorkerTypeOK, WorkerState
  <1>1. CASE ExpireSelect \/ ExpireDone \/ EndSelect \/ EndDone
    <2>1. w'.pc \in {"expLoop", "end", "endLoop", "start"}
      <3>1. ExpireSelect => w'.pc = "expLoop"
        BY DEF ExpireSelect, At
      <3>2. EndSelect => w'.pc = "endLoop"
        BY DEF EndSelect, At
      <3>3. (ExpireDone => w'.pc = "end") /\ (EndDone => w'.pc = "start")
        BY DEF ExpireDone, EndDone, At
      <3> QED BY <1>1, <3>1, <3>2, <3>3
    <2> QED BY <2>1, NoClaim DEF Starting, Ending
  <1>2. ASSUME NEW m \in MeetingIds, ExpireOne(m) PROVE Claims'
    <2>1. w'.pc = "expLoop"
      BY <1>2, <1>w DEF ExpireOne, Skip, WorkerState
    <2> QED BY <2>1, NoClaim DEF Starting, Ending
  <1>3. ASSUME NEW m \in MeetingIds, EndClaim(m) PROVE Claims'
    <2>1. CASE CanClaimEnd(m)
      <3>1. w'.pc = "endCall" /\ w'.m = m
        BY <1>3, <2>1, <1>w DEF EndClaim, Begin, WorkerState
      <3>2. meetings'[m].status = "ending"
        <4>1. meetings' = [meetings EXCEPT ![m] = ClaimedRow(m, "ending")]
          BY <1>3, <2>1 DEF EndClaim
        <4>2. ClaimedRow(m, "ending").status = "ending"
          BY DEF ClaimedRow, StoreTypeOK, MeetingRow
        <4> QED BY <4>1, <4>2 DEF StoreTypeOK
      <3> QED BY <3>1, <3>2 DEF Claims, In, Starting, Ending, RecoverMid
    <2>2. CASE ~CanClaimEnd(m)
      <3>1. w'.pc = "endLoop"
        BY <1>3, <2>2, <1>w DEF EndClaim, Skip, WorkerState
      <3> QED BY <3>1, NoClaim DEF Starting, Ending
    <2> QED BY <2>1, <2>2
  <1>4. CASE EndDisconnect
    <2>1. w.pc = "endCall" /\ w'.pc = "endCommit" /\ w'.m = w.m /\ w'.todo = w.todo
      BY <1>4, <1>w DEF EndDisconnect, WorkerState
    <2> QED BY <1>4, <2>1, SameClaim DEF EndDisconnect, storeVars
  <1>5. CASE EndCommit
    BY <1>5, NoClaim DEF EndCommit, NextCandidate, At, Starting, Ending
  <1> QED
    BY <1>1, <1>2, <1>3, <1>4, <1>5 DEF Expire, End

LEMMA StartClaims ==
    ASSUME TypeOK, Claims, Start
    PROVE  Claims'
  <1> USE DEF TypeOK
  <1> DEFINE Mid == {"startToken", "startEp", "startCommit"}
  <1>w. w \in WorkerState /\ w.todo \subseteq MeetingIds
    BY DEF WorkerTypeOK, WorkerState
  <1>1. CASE StartSelect \/ StartDone \/ StartFinish
    <2>1. w'.pc \in {"startLoop", "idle"}
      <3>1. StartSelect => w'.pc = "startLoop"
        BY DEF StartSelect, At
      <3>2. StartFinish => w'.pc = "startLoop"
        BY DEF StartFinish, NextCandidate, At
      <3>3. StartDone => w'.pc = "idle"
        BY DEF StartDone, At
      <3> QED BY <1>1, <3>1, <3>2, <3>3
    <2> QED BY <2>1, NoClaim DEF Starting, Ending
  <1>2. ASSUME NEW m \in MeetingIds, StartClaim(m) PROVE Claims'
    <2>1. CASE CanClaimStart(m)
      <3>1. w'.pc = "startToken" /\ w'.m = m
        BY <1>2, <2>1, <1>w DEF StartClaim, Begin, WorkerState
      <3>2. meetings'[m].status = "starting"
        <4>1. meetings' = [meetings EXCEPT ![m] = ClaimedRow(m, "starting")]
          BY <1>2, <2>1 DEF StartClaim
        <4>2. ClaimedRow(m, "starting").status = "starting"
          BY DEF ClaimedRow, StoreTypeOK, MeetingRow
        <4> QED BY <4>1, <4>2 DEF StoreTypeOK
      <3> QED BY <3>1, <3>2 DEF Claims, In, Starting, Ending, RecoverMid
    <2>2. CASE ~CanClaimStart(m)
      <3>1. w'.pc = "startLoop"
        BY <1>2, <2>2, <1>w DEF StartClaim, Skip, WorkerState
      <3> QED BY <3>1, NoClaim DEF Starting, Ending
    <2> QED BY <2>1, <2>2
  <1>3. CASE StartToken
    <2>1. w.pc \in Mid /\ w'.pc \in Mid /\ w'.m = w.m /\ w'.todo = w.todo
      BY <1>3, <1>w DEF StartToken, WorkerState
    <2> QED BY <1>3, <2>1, SameClaim DEF StartToken, storeVars
  <1>4. CASE StartCommit
    <2>1. w.pc \in Mid /\ w'.pc \in Mid /\ w'.m = w.m /\ w'.todo = w.todo
      BY <1>4, <1>w DEF StartCommit, Recorded, WorkerState
    <2> QED BY <1>4, <2>1, SameClaim DEF StartCommit
  <1>5. ASSUME NEW k \in RowKeys, StartDial(k) PROVE Claims'
    <2>1. w.pc \in Mid /\ w'.pc \in Mid /\ w'.m = w.m /\ w'.todo = w.todo
      BY <1>5, <1>w DEF StartDial, WorkerState
    <2> QED BY <1>5, <2>1, SameClaim DEF StartDial, storeVars
  <1> QED
    BY <1>1, <1>2, <1>3, <1>4, <1>5 DEF Start

(* A job that raises, a crash: the claim is given up, or goes on.          *)
LEMMA FaultyClaims ==
    ASSUME TypeOK, Claims, Faulty
    PROVE  Claims'
  <1> USE DEF TypeOK
  <1> DEFINE Mid == {"startToken", "startEp", "startCommit"}
  <1>w. w \in WorkerState /\ (w.pc \in Starting \cup Ending => w.m \in MeetingIds)
    BY DEF WorkerTypeOK
  <1>1. CASE LockedJob \/ Crash
    BY <1>1, NoClaim DEF LockedJob, Crash, At, NextJob, Starting, Ending
  <1>2. CASE LockedDial \/ LockedStart
    <2>1. /\ \/ w.pc \in RecoverMid /\ w'.pc \in RecoverMid
             \/ w.pc \in Mid /\ w'.pc \in Mid
          /\ w'.m = w.m /\ w'.todo = w.todo
      BY <1>2, <1>w DEF LockedDial, LockedStart, Recorded, RecoverMid, WorkerState
    <2> QED BY <1>2, <2>1, SameClaim DEF LockedDial, LockedStart
  <1>3. CASE LockedEnded
    <2>1. w.pc = "recEndCommit" /\ w.m \in MeetingIds
      BY <1>3, <1>w DEF LockedEnded, Ending
    <2> QED BY <1>3, <2>1, OneRowMoves, NextClaim DEF LockedEnded
  <1>4. ASSUME NEW k \in RowKeys, LockedSeen(k) PROVE Claims'
    <2>1. w.pc \in RecoverMid /\ w'.pc \in RecoverMid /\ w'.m = w.m /\ w'.todo = w.todo
      BY <1>4, <1>w DEF LockedSeen, RecoverMid, WorkerState
    <2> QED BY <1>4, <2>1, SameClaim DEF LockedSeen
  <1> QED
    BY <1>1, <1>2, <1>3, <1>4 DEF Faulty

LEMMA ClaimsStep ==
    ASSUME TypeOK, Claims, [Next]_vars
    PROVE  Claims'
  <1>1. CASE WorkerStep
    <2>1. CASE BeginTick \/ Restart
      BY <2>1, NoClaim DEF BeginTick, Restart, At, Starting, Ending
    <2> QED
      BY <1>1, <2>1, RecoverClaims, EndClaims, StartClaims, FaultyClaims
      DEF WorkerStep, WorkerRuns
  <1>2. CASE (ApiStep \/ Calls \/ Tick \/ UNCHANGED vars) /\ UNCHANGED w
    BY <1>2, OthersKeepClaims
  <1> QED BY <1>1, <1>2 DEF Next, vars

(* In every behaviour the candidates and the meeting being handled are     *)
(* where the worker found or put them.                                     *)
THEOREM ClaimsHold == Spec => []Claims
  <1>1. Init => Claims
    BY DEF Init, WorkerInit, At, Claims, Starting, Ending, RecoverMid
  <1>2. TypeOK /\ Claims /\ [Next]_vars => Claims'
    BY ClaimsStep
  <1> QED BY <1>1, <1>2, TypeCorrect, PTL DEF Spec

(* The worker owns the meeting it handles: the claims exclude the other    *)
(* jobs, later ticks and the requests.                                     *)
THEOREM ClaimExclusive == Spec => []OwnsClaim
  <1>1. Claims => OwnsClaim
    BY DEF Claims, In, OwnsClaim
  <1> QED BY <1>1, ClaimsHold, PTL
----------------------------------------------------------------------------
(* Who is recorded as ended is left alone.  Between a disconnect that      *)
(* succeeded and the commit of 'ended' nobody else may dial into the       *)
(* meeting: the other jobs dial only into what they have claimed, requests *)
(* not at all, if operators issue none that dial.                          *)
NoDialing == Requests \cap {"redial", "add"} = {}

(* The inductive invariant.                                                *)
Hush ==
    /\ EndedIsQuiet
    /\ w.pc \in {"endCommit", "recEndCommit"} /\ w.ok => Quiet(w.m)

StaysQuiet(m) == Quiet(m) => Quiet(m)'
DialsInto(m) == w.pc \in {"startEp", "recEp"} /\ w.m = m
----------------------------------------------------------------------------
(* Whoever is neither connected nor called does not come in by himself,    *)
(* and no call that disconnects brings him in.                             *)
LEMMA CallsStayQuiet ==
    ASSUME TypeOK, NEW n \in MeetingIds, NEW e \in Aliases,
           Answer(n, e) \/ GiveUp(n, e) \/ HangUp(n, e) \/ DisconnectOne(n, e)
    PROVE  \A m \in MeetingIds : StaysQuiet(m)
  <1> SUFFICES ASSUME NEW m \in MeetingIds, Quiet(m) PROVE Quiet(m)'
    BY DEF StaysQuiet
  <1> USE DEF TypeOK, PexipTypeOK, Quiet, Live
  <1>1. ringing[m] = {} /\ \A a \in Aliases : ~(legs[m][a] > 0)
    OBVIOUS
  <1>2. CASE n = m
    <2>1. e \notin ringing[n] /\ ~(legs[n][e] > 0)
      BY <1>1, <1>2
    <2>2. ringing' = [ringing EXCEPT ![n] = @ \ {e}] /\ legs' = legs
      BY <2>1 DEF Answer, GiveUp, HangUp, DisconnectOne
    <2> QED BY <1>1, <2>2
  <1>3. CASE n # m
    <2>1. ringing'[m] = ringing[m] /\ legs'[m] = legs[m]
      BY <1>3 DEF Answer, GiveUp, HangUp, DisconnectOne
    <2> QED BY <1>1, <2>1
  <1> QED BY <1>2, <1>3

LEMMA DisconnectStaysQuiet ==
    ASSUME TypeOK, NEW n \in MeetingIds, Disconnect(n)
    PROVE  Quiet(n)' /\ \A m \in MeetingIds : StaysQuiet(m)
  BY DEF TypeOK, PexipTypeOK, Disconnect, Quiet, Live, StaysQuiet

LEMMA DialStaysQuiet ==
    ASSUME TypeOK, NEW n \in MeetingIds, NEW e \in Aliases, Dial(n, e)
    PROVE  \A m \in MeetingIds \ {n} : StaysQuiet(m)
  BY DEF TypeOK, PexipTypeOK, Dial, Quiet, Live, StaysQuiet

LEMMA SameQuiet == UNCHANGED pexipVars => \A m : StaysQuiet(m)
  BY DEF pexipVars, Quiet, Live, StaysQuiet

(* So only the worker's two dialling actions disturb, the one meeting they *)
(* dial into, which is not over.                                           *)
LEMMA RequestsStayQuiet ==
    ASSUME NoDialing, TypeOK, OnlyAsked, ApiStep
    PROVE  \A m \in MeetingIds : StaysQuiet(m)
  <1>1. ASSUME NEW t \in Threads, RemoveCall(t) PROVE \A m \in MeetingIds : StaysQuiet(m)
    <2>1. web[t].m \in MeetingIds /\ web[t].e \in Aliases
      BY <1>1 DEF RemoveCall, TypeOK, ApiTypeOK, WellFormed, OnEndpoint
    <2> QED BY <1>1, <2>1, CallsStayQuiet DEF RemoveCall
  <1>2. ASSUME NEW t \in Threads PROVE ~RedialCall(t) /\ ~AddCall(t)
    BY DEF RedialCall, AddCall, NoDialing, OnlyAsked, AskedFor
  <1> QED
    BY <1>1, <1>2, SameQuiet DEF ApiStep, Manage, CreateMeeting, DeleteMeeting, UpdateMeeting,
       Edit, EditRead, EditScheduled, EditActive, ExtendRead, ExtendWrite, Redial, RedialRead,
       RedialWrite, Add, AddRead, AddInsert, AddWrite, AddLocked, Remove, RemoveRead,
       RemoveLive, RemoveDelete, Abandon, storeVars

LEMMA WorkerStaysQuiet ==
    ASSUME TypeOK, WorkerStep
    PROVE  \A m \in MeetingIds : StaysQuiet(m) \/ DialsInto(m)
  <1> DEFINE Goal == \A m \in MeetingIds : StaysQuiet(m) \/ DialsInto(m)
  <1> USE DEF TypeOK
  <1>1. ASSUME NEW k \in RowKeys, RecoverDial(k) \/ StartDial(k) PROVE Goal
    <2>1. w.m \in MeetingIds /\ DialsInto(w.m)
      BY <1>1 DEF RecoverDial, StartDial, WorkerTypeOK, Starting, DialsInto
    <2>2. k[1] \in Aliases
      BY DEF RowKeys
    <2>3. Dial(w.m, k[1]) \/ UNCHANGED pexipVars
      BY <1>1 DEF RecoverDial, StartDial, TryDial
    <2> QED BY <2>1, <2>2, <2>3, DialStaysQuiet, SameQuiet
  <1>2. ASSUME NEW m \in MeetingIds, NEW ok, TryDisconnect(m, ok) PROVE Goal
    BY <1>2, DisconnectStaysQuiet, SameQuiet DEF TryDisconnect
  <1>3. CASE EndDisconnect
    <2>1. w.m \in MeetingIds
      BY <1>3 DEF EndDisconnect, WorkerTypeOK, Ending
    <2> QED BY <1>2, <1>3, <2>1 DEF EndDisconnect
  <1>4. ASSUME NEW m \in MeetingIds, RecoverDisconnect(m) PROVE Goal
    BY <1>2, <1>4 DEF RecoverDisconnect
  <1> QED
    BY <1>1, <1>3, <1>4, SameQuiet
    DEF WorkerStep, WorkerRuns, BeginTick, Restart, Recover, RecoverSelect, RecoverToken,
        RecoverLive, RecoverGiveUp, RecoverCommit, RecoverFinish, RecoverEndingSelect,
        RecoverEnded, RecoverDone, RecoverPast, RecoverBegin, RecoverSeen, Expire,
        ExpireSelect, ExpireOne, ExpireDone, End, EndSelect, EndClaim, EndCommit, EndDone,
        Start, StartSelect, StartClaim, StartToken, StartCommit, StartFinish, StartDone,
        Faulty, LockedJob, LockedDial, LockedStart, LockedEnded, LockedSeen, Crash

LEMMA QuietStep ==
    ASSUME NoDialing, TypeOK, OnlyAsked, [Next]_vars
    PROVE  \A m \in MeetingIds : StaysQuiet(m) \/ DialsInto(m)
  <1>1. CASE Calls
    BY <1>1, CallsStayQuiet DEF Calls
  <1> QED
    BY <1>1, WorkerStaysQuiet, RequestsStayQuiet, SameQuiet DEF Next, Tick, vars, pexipVars
----------------------------------------------------------------------------
(* What is recorded without errors is recorded by the job that has just    *)
(* dialled all there was to dial, or has just disconnected.                *)
StartsNow(m) == w.pc \in {"startEp", "recEp"} /\ w.rows = {} /\ w.ok /\ w.m = m
EndsNow(m) == w.pc \in {"endCommit", "recEndCommit"} /\ w.ok /\ w.m = m
OutcomeOk(m, s) ==
    /\ s = "started" => meetings[m].status = "started" \/ StartsNow(m)
    /\ s = "ended" => meetings[m].status = "ended" \/ EndsNow(m)
OutcomesOk == \A m \in MeetingIds : OutcomeOk(m, meetings'[m].status)

LEMMA OneOutcome ==
    ASSUME NEW m \in MeetingIds, NEW r, NEW from, StoreTypeOK, UpdateWhere(m, from, r),
           OutcomeOk(m, r.status)
    PROVE  OutcomesOk
  BY DEF StoreTypeOK, UpdateWhere, OutcomesOk, OutcomeOk

LEMMA SameOutcomes ==
    (\A m \in MeetingIds : Held(m)) => OutcomesOk
  BY DEF Held, OutcomesOk, OutcomeOk

LEMMA JobRows ==
    ASSUME NEW m \in MeetingIds, NEW s, NEW t, StoreTypeOK
    PROVE  /\ StartedRow(m, s, t).status = s
           /\ EndedRow(m, s).status = s
           /\ ClaimedRow(m, s).status = s
  BY DEF StoreTypeOK, MeetingRow, StartedRow, EndedRow, ClaimedRow

LEMMA WorkerOutcomes ==
    ASSUME TypeOK, WorkerStep
    PROVE  OutcomesOk
  <1> USE DEF TypeOK
  <1>w. w.pc \in Starting \cup Ending => w.m \in MeetingIds
    BY DEF WorkerTypeOK
  <1>1. CASE RecoverGiveUp \/ RecoverFinish \/ StartFinish
    <2>1. w.m \in MeetingIds
      BY <1>1, <1>w DEF RecoverGiveUp, RecoverFinish, StartFinish, Starting
    <2>2. \E s \in Active : \E t : /\ UpdateWhere(w.m, {"starting"}, StartedRow(w.m, s, t))
                                   /\ OutcomeOk(w.m, s)
      BY <1>1 DEF RecoverGiveUp, RecoverFinish, StartFinish, Active, OutcomeOk, StartsNow
    <2>3. \A s \in Active : \A t : StartedRow(w.m, s, t).status = s
      BY <2>1, JobRows
    <2> QED BY <2>1, <2>2, <2>3, OneOutcome
  <1>2. CASE RecoverEnded \/ EndCommit \/ LockedEnded
    <2>1. w.m \in MeetingIds
      BY <1>2, <1>w DEF RecoverEnded, EndCommit, LockedEnded, Ending
    <2>2. \E s \in Over : /\ UpdateWhere(w.m, {"ending"}, EndedRow(w.m, s))
                          /\ OutcomeOk(w.m, s)
      BY <1>2 DEF RecoverEnded, EndCommit, LockedEnded, Over, OutcomeOk, EndsNow
    <2>3. \A s \in Over : EndedRow(w.m, s).status = s
      BY <2>1, JobRows
    <2> QED BY <2>1, <2>2, <2>3, OneOutcome
  <1>3. ASSUME NEW m \in MeetingIds, RecoverPast(m) \/ ExpireOne(m) PROVE OutcomesOk
    <2>1. \E from : UpdateWhere(m, from, EndedRow(m, "ended_with_errors"))
      BY <1>3 DEF RecoverPast, ExpireOne
    <2>2. EndedRow(m, "ended_with_errors").status = "ended_with_errors"
      BY JobRows
    <2> QED BY <2>1, <2>2, OneOutcome DEF OutcomeOk
  <1>4. ASSUME NEW m \in MeetingIds, EndClaim(m) \/ StartClaim(m) PROVE OutcomesOk
    <2>1. \/ UNCHANGED meetings
          \/ \E s \in {"starting", "ending"} : meetings' = [meetings EXCEPT ![m] = ClaimedRow(m, s)]
      BY <1>4 DEF EndClaim, StartClaim
    <2>2. \A s \in {"starting", "ending"} : ClaimedRow(m, s).status = s
      BY JobRows
    <2> QED BY <2>1, <2>2 DEF StoreTypeOK, OutcomesOk, OutcomeOk
  <1>5. CASE UNCHANGED meetings
    BY <1>5 DEF OutcomesOk, OutcomeOk
  <1> QED
    BY <1>1, <1>2, <1>3, <1>4, <1>5
    DEF WorkerStep, WorkerRuns, BeginTick, Restart, Recover, RecoverSelect, RecoverToken,
        RecoverLive, RecoverCommit, RecoverEndingSelect, RecoverDone, RecoverBegin,
        RecoverDisconnect, RecoverSeen, RecoverDial, Expire, ExpireSelect, ExpireDone, End,
        EndSelect, EndDisconnect, EndDone, Start, StartSelect, StartToken, StartDial,
        StartCommit, StartDone, Faulty, LockedJob, LockedDial, LockedStart, LockedSeen, Crash,
        storeVars

LEMMA OutcomeStep ==
    ASSUME TypeOK, [Next]_vars
    PROVE  OutcomesOk
  BY WorkerOutcomes, OthersHold, SameOutcomes DEF Next, vars

(* A worker that is about to record 'ended' has just disconnected.         *)
LEMMA EndsAfterCall ==
    ASSUME TypeOK, [Next]_vars, w' # w, w'.pc \in {"endCommit", "recEndCommit"}, w'.ok
    PROVE  w'.m \in MeetingIds /\ Disconnect(w'.m)
  <1> USE DEF TypeOK
  <1>w. w \in WorkerState
    BY DEF WorkerTypeOK
  <1>0. WorkerStep
    BY DEF Next, vars
  <1>1. CASE EndDisconnect
    <2>1. w.m \in MeetingIds
      BY <1>1 DEF EndDisconnect, WorkerTypeOK, Ending
    <2>2. PICK ok \in BOOLEAN : TryDisconnect(w.m, ok) /\ w'.ok = ok /\ w'.m = w.m
      BY <1>1, <1>w DEF EndDisconnect, WorkerState
    <2> QED BY <2>1, <2>2 DEF TryDisconnect
  <1>2. ASSUME NEW m \in MeetingIds, RecoverDisconnect(m)
        PROVE  w'.m \in MeetingIds /\ Disconnect(w'.m)
    <2>1. PICK ok \in BOOLEAN : TryDisconnect(m, ok) /\ w'.ok = ok /\ w'.m = m
      BY <1>2, <1>w DEF RecoverDisconnect, Begin, WorkerState
    <2> QED BY <2>1 DEF TryDisconnect
  <1>3. ASSUME \/ BeginTick \/ Restart \/ RecoverSelect \/ RecoverEndingSelect \/ RecoverDone
               \/ ExpireSelect \/ ExpireDone \/ EndSelect \/ EndDone \/ StartSelect
               \/ StartDone \/ LockedJob \/ Crash
        PROVE  FALSE
    <2>1. \A p : At(p).pc = p
      BY DEF At
    <2>2. /\ RecoverSelect => w'.pc = "recStarting"
          /\ RecoverEndingSelect => w'.pc = "recEnding"
      <3>1. RecoverSelect => w'.pc = "recStarting"
        BY DEF RecoverSelect, At
      <3>2. RecoverEndingSelect => w'.pc = "recEnding"
        BY DEF RecoverEndingSelect, At
      <3> QED BY <3>1, <3>2
    <2>3. /\ ExpireSelect => w'.pc = "expLoop"
          /\ EndSelect => w'.pc = "endLoop"
          /\ StartSelect => w'.pc = "startLoop"
      <3>1. ExpireSelect => w'.pc = "expLoop"
        BY DEF ExpireSelect, At
      <3>2. EndSelect => w'.pc = "endLoop"
        BY DEF EndSelect, At
      <3>3. StartSelect => w'.pc = "startLoop"
        BY DEF StartSelect, At
      <3> QED BY <3>1, <3>2, <3>3
    <2>4. CASE LockedJob
      BY <2>1, <2>4 DEF LockedJob, NextJob
    <2> QED
      BY <1>3, <2>1, <2>2, <2>3, <2>4
      DEF BeginTick, Restart, RecoverDone, ExpireDone, EndDone, StartDone, Crash
  <1>5. ASSUME \/ RecoverGiveUp \/ RecoverFinish \/ RecoverEnded \/ EndCommit \/ StartFinish
               \/ LockedEnded
        PROVE  FALSE
    <2>1. \A p : NextCandidate(p).pc = p
      BY DEF NextCandidate, At
    <2> QED
      BY <1>5, <2>1 DEF RecoverGiveUp, RecoverFinish, RecoverEnded, EndCommit, StartFinish,
         LockedEnded
  <1>4. ASSUME \/ RecoverToken \/ RecoverLive \/ RecoverCommit \/ StartToken \/ StartCommit
               \/ LockedDial \/ LockedStart
        PROVE  FALSE
    BY <1>4, <1>w DEF RecoverToken, RecoverLive, RecoverCommit, StartToken, StartCommit,
       LockedDial, LockedStart, Recorded, WorkerState
  <1>6. ASSUME NEW m \in MeetingIds,
               RecoverPast(m) \/ RecoverBegin(m) \/ ExpireOne(m) \/ EndClaim(m) \/ StartClaim(m)
        PROVE  FALSE
    BY <1>6, <1>w DEF RecoverPast, RecoverBegin, ExpireOne, EndClaim, StartClaim, Skip, Begin,
       WorkerState
  <1>7. ASSUME NEW k \in RowKeys, RecoverSeen(k) \/ RecoverDial(k) \/ StartDial(k) \/ LockedSeen(k)
        PROVE  FALSE
    BY <1>7, <1>w DEF RecoverSeen, RecoverDial, StartDial, LockedSeen, WorkerState
  <1> QED
    BY <1>0, <1>1, <1>2, <1>3, <1>4, <1>5, <1>6, <1>7
    DEF WorkerStep, WorkerRuns, Recover, Expire, End, Start, Faulty

LEMMA HushStep ==
    ASSUME NoDialing, TypeOK, OnlyAsked, Claims, Hush, [Next]_vars
    PROVE  Hush'
  <1>1. EndedIsQuiet'
    <2> SUFFICES ASSUME NEW m \in MeetingIds, meetings'[m].status = "ended" PROVE Quiet(m)'
      BY DEF EndedIsQuiet
    <2>1. meetings[m].status = "ended" \/ EndsNow(m)
      BY OutcomeStep DEF OutcomesOk, OutcomeOk
    <2>2. Quiet(m)
      BY <2>1 DEF Hush, EndedIsQuiet, EndsNow
    <2>3. ~DialsInto(m)
      BY <2>1 DEF DialsInto, EndsNow, Claims, In, Starting
    <2> QED BY <2>2, <2>3, QuietStep DEF StaysQuiet
  <1>2. ASSUME w'.pc \in {"endCommit", "recEndCommit"}, w'.ok
        PROVE  Quiet(w.m)'
    <2>1. PICK n \in MeetingIds : n = w'.m /\ Quiet(n)'
      <3>1. CASE w' = w
        <4>1. w.m \in MeetingIds /\ Quiet(w.m) /\ ~DialsInto(w.m)
          BY <1>2, <3>1 DEF Hush, DialsInto, TypeOK, WorkerTypeOK, Ending
        <4>2. PICK n \in MeetingIds : n = w.m
          BY <4>1
        <4>3. Quiet(n)'
          BY <4>1, <4>2, QuietStep DEF StaysQuiet
        <4> QED BY <3>1, <4>2, <4>3
      <3>2. CASE w' # w
        <4>1. PICK n \in MeetingIds : n = w'.m /\ Disconnect(n)
          BY <1>2, <3>2, EndsAfterCall
        <4> QED BY <4>1, DisconnectStaysQuiet
      <3> QED BY <3>1, <3>2
    <2> QED BY <2>1
  <1> QED BY <1>1, <1>2 DEF Hush

(* A meeting recorded as ended has nobody connected or being called, as    *)
(* long as the operators dial nobody by hand.                              *)
THEOREM EndedLeavesNobody ==
    ASSUME NoDialing
    PROVE  Spec => []EndedIsQuiet
  <1>1. Init => Hush
    BY DEF Init, StoreInit, UnusedMeeting, WorkerInit, At, Hush, EndedIsQuiet
  <1>2. TypeOK /\ OnlyAsked /\ Claims /\ Hush /\ [Next]_vars => Hush'
    BY NoDialing, HushStep
  <1>3. Hush => EndedIsQuiet
    BY DEF Hush
  <1> QED BY <1>1, <1>2, <1>3, TypeCorrect, AskedAlways, ClaimsHold, PTL DEF Spec
----------------------------------------------------------------------------
(* The worker dials no row that is marked as dialled.  The reason is in    *)
(* three places: a meeting that has not been claimed has no row marked     *)
(* dialled; the first attempt begins with such a meeting and recovery with *)
(* the rows that are not marked; and while the worker goes through the     *)
(* rows, only it marks rows as dialled, each after it left the rows still  *)
(* to be dialled.                                                          *)
Undialed(m, K) == \A k \in K : endpoints[m][k] # "dialed"

Fresh == {"unused", "scheduled"}
Dialing == {"startEp", "startCommit", "recEp", "recCommit"}

(* The inductive invariant.                                                *)
DialsLeft ==
    /\ \A m \in MeetingIds : meetings[m].status \in Fresh => Undialed(m, RowKeys)
    /\ w.pc = "startToken" => Undialed(w.m, RowKeys)
    /\ w.pc \in Dialing => Undialed(w.m, w.rows)
    /\ w.pc \in Committing => w.row \notin w.rows

(* A step that marks no row of m as dialled.                               *)
NotMarked(m) ==
    \A k \in RowKeys : endpoints'[m][k] = "dialed" => endpoints[m][k] = "dialed"
NoMark == \A m \in MeetingIds : NotMarked(m)
----------------------------------------------------------------------------
LEMMA SameRows == UNCHANGED endpoints => NoMark
  BY DEF NoMark, NotMarked

LEMMA ReplaceMarks ==
    ASSUME NEW m \in MeetingIds, NEW gone, NEW E, StoreTypeOK, ReplaceRows(m, gone, E)
    PROVE  NoMark
  BY DEF StoreTypeOK, ReplaceRows, NoMark, NotMarked

LEMMA SetMarks ==
    ASSUME NEW m \in MeetingIds, NEW K, NEW s, s # "dialed", StoreTypeOK, SetRows(m, K, s)
    PROVE  NoMark
  BY DEF StoreTypeOK, SetRows, NoMark, NotMarked

(* Marking a row as dialled concerns that row only.                        *)
LEMMA OneMark ==
    ASSUME NEW m \in MeetingIds, NEW k, NEW s, StoreTypeOK, SetRows(m, {k}, s)
    PROVE  /\ \A n \in MeetingIds \ {m} : NotMarked(n)
           /\ \A j \in RowKeys \ {k} : endpoints'[m][j] = endpoints[m][j]
  BY DEF StoreTypeOK, SetRows, NotMarked

(* No step takes a meeting back to where it has not been claimed.          *)
LEMMA NeverFreshAgain ==
    ASSUME TypeOK, [Next]_vars
    PROVE  \A m \in MeetingIds :
                meetings'[m].status \in Fresh => meetings[m].status \in Fresh
  <1>1. \A m \in MeetingIds : Kept(m) \/ Moved(m)
    BY MeetingsStep DEF RowStep
  <1> QED
    BY <1>1 DEF Kept, Moved, Booked, Claimed, Begun, Finished, Dropped, Fresh, Active, Over
----------------------------------------------------------------------------
(* The requests mark rows as redialed, never as dialed.                    *)
LEMMA RequestMarks ==
    ASSUME TypeOK, ApiStep
    PROVE  NoMark
  <1> USE DEF TypeOK
  <1>1. CASE Manage
    <2>1. ASSUME NEW m \in MeetingIds, NEW slot \in Slots, NEW E \in SUBSET Aliases,
                 CreateMeeting(m, slot, E)
          PROVE  NoMark
      BY <2>1, ReplaceMarks DEF CreateMeeting
    <2>2. ASSUME NEW m \in MeetingIds, DeleteMeeting(m) PROVE NoMark
      BY <2>2, SetMarks DEF DeleteMeeting, DeleteRows
    <2>3. ASSUME NEW m \in MeetingIds, NEW E \in SUBSET Aliases, UpdateMeeting(m, E)
          PROVE  NoMark
      BY <2>3, ReplaceMarks DEF UpdateMeeting
    <2> QED BY <1>1, <2>1, <2>2, <2>3 DEF Manage
  <1>2. ASSUME NEW t \in Threads, Edit(t) PROVE NoMark
    <2>1. ASSUME NEW slot \in Slots, NEW E \in SUBSET Aliases, EditScheduled(t, slot, E)
          PROVE  NoMark
      <3>1. web[t].m \in MeetingIds
        BY <2>1 DEF EditScheduled, ApiTypeOK, WellFormed
      <3> QED BY <2>1, <3>1, ReplaceMarks DEF EditScheduled
    <2> QED
      BY <1>2, <2>1, SameRows DEF Edit, EditRead, EditActive, ExtendRead, ExtendWrite, storeVars
  <1>3. ASSUME NEW t \in Threads, Redial(t) \/ Add(t) \/ Remove(t) \/ Abandon(t) PROVE NoMark
    <2> DEFINE m == web[t].m
    <2>1. web[t].pc # "free" => m \in MeetingIds
      BY DEF ApiTypeOK, WellFormed
    <2>2. CASE RedialWrite(t)
      BY <2>1, <2>2, SetMarks DEF RedialWrite
    <2>3. CASE AddInsert(t)
      BY <2>1, <2>3, ReplaceMarks DEF AddInsert
    <2>4. CASE AddWrite(t)
      <3>1. m \in MeetingIds
        BY <2>1, <2>4 DEF AddWrite
      <3>2. \E s \in {"redialed", "deleted"} : SetRows(m, RowsOf(m, web[t].e), s)
        BY <2>4 DEF AddWrite
      <3> QED BY <3>1, <3>2, SetMarks
    <2>5. CASE AddLocked(t)
      BY <2>1, <2>5, SetMarks DEF AddLocked, DeleteRows
    <2>6. CASE RemoveDelete(t)
      BY <2>1, <2>6, SetMarks DEF RemoveDelete, DeleteRows
    <2> QED
      BY <1>3, <2>2, <2>3, <2>4, <2>5, <2>6, SameRows DEF Redial, RedialRead, RedialCall, Add,
         AddRead, AddCall, Remove, RemoveRead, RemoveLive, RemoveCall, Abandon, storeVars
  <1> QED BY <1>1, <1>2, <1>3 DEF ApiStep

LEMMA OtherMarks ==
    ASSUME TypeOK, ApiStep \/ Calls \/ Tick \/ UNCHANGED vars
    PROVE  NoMark
  BY RequestMarks, SameRows DEF Calls, Answer, GiveUp, HangUp, Tick, vars, storeVars
----------------------------------------------------------------------------
(* A step that marks no row and dials none.                                *)
LEMMA Unmarked ==
    ASSUME TypeOK, [Next]_vars, DialsLeft, NoMark,
           \/ w'.pc \notin Dialing \cup {"startToken"}
           \/ /\ w.pc \in Dialing /\ w'.pc \in Dialing
              /\ w'.m = w.m /\ w'.rows \subseteq w.rows
              /\ w'.pc \in Committing => w'.row \notin w'.rows
           \/ w' = w
    PROVE  DialsLeft'
  <1>1. /\ w.rows \subseteq RowKeys
        /\ w.pc \in Dialing \cup {"startToken"} => w.m \in MeetingIds
    BY DEF TypeOK, WorkerTypeOK, WorkerState, Dialing, Starting
  <1>2. \A m \in MeetingIds : meetings'[m].status \in Fresh => Undialed(m, RowKeys)'
    BY NeverFreshAgain DEF DialsLeft, NoMark, NotMarked, Undialed
  <1>3. CASE w'.pc \notin Dialing \cup {"startToken"}
    BY <1>2, <1>3 DEF DialsLeft, Dialing, Committing
  <1>4. CASE /\ w.pc \in Dialing /\ w'.pc \in Dialing
             /\ w'.m = w.m /\ w'.rows \subseteq w.rows
             /\ w'.pc \in Committing => w'.row \notin w'.rows
    <2>1. \A k \in w'.rows : endpoints'[w'.m][k] # "dialed"
      BY <1>1, <1>4 DEF DialsLeft, NoMark, NotMarked, Undialed
    <2> QED BY <1>2, <1>4, <2>1 DEF DialsLeft, Undialed, Dialing
  <1>5. CASE w' = w
    <2>1. w.pc \in Dialing => \A k \in w.rows : endpoints'[w.m][k] # "dialed"
      BY <1>1 DEF DialsLeft, NoMark, NotMarked, Undialed
    <2>2. w.pc = "startToken" => \A k \in RowKeys : endpoints'[w.m][k] # "dialed"
      BY <1>1 DEF DialsLeft, NoMark, NotMarked, Undialed
    <2> QED BY <1>2, <1>5, <2>1, <2>2 DEF DialsLeft, Undialed
  <1> QED BY <1>3, <1>4, <1>5

(* A step that records the outcome of a dial, or that an endpoint is there *)
(* already: the row it marks is not one of those still to be dialled.      *)
LEMMA Marked ==
    ASSUME TypeOK, Claims, [Next]_vars, DialsLeft,
           w.pc \in Dialing, w'.pc \in {"startEp", "recEp"}, w'.m = w.m,
           UNCHANGED meetings,
           NEW k, NEW s, SetRows(w.m, {k}, s),
           w'.rows \subseteq w.rows, k \notin w'.rows
    PROVE  DialsLeft'
  <1>1. w.rows \subseteq RowKeys /\ w.m \in MeetingIds
    BY DEF TypeOK, WorkerTypeOK, WorkerState, Dialing, Starting
  <1>2. /\ \A n \in MeetingIds \ {w.m} : NotMarked(n)
        /\ \A j \in RowKeys \ {k} : endpoints'[w.m][j] = endpoints[w.m][j]
    BY <1>1, OneMark DEF TypeOK
  <1>3. meetings[w.m].status \notin Fresh
    BY DEF Claims, In, Dialing, Starting, Fresh
  <1>4. \A n \in MeetingIds : meetings'[n].status \in Fresh => Undialed(n, RowKeys)'
    BY <1>2, <1>3 DEF DialsLeft, NotMarked, Undialed
  <1>5. \A j \in w'.rows : endpoints'[w'.m][j] # "dialed"
    BY <1>1, <1>2 DEF DialsLeft, Undialed
  <1> QED BY <1>4, <1>5 DEF DialsLeft, Undialed, Committing
----------------------------------------------------------------------------
LEMMA RecoverDials ==
    ASSUME TypeOK, Claims, DialsLeft, [Next]_vars, Recover
    PROVE  DialsLeft'
  <1> USE DEF TypeOK
  <1>w. w \in WorkerState
    BY DEF WorkerTypeOK
  <1>1. CASE RecoverSelect \/ RecoverToken \/ RecoverEndingSelect \/ RecoverDone
    <2>1. NoMark
      BY <1>1, SameRows
      DEF RecoverSelect, RecoverToken, RecoverEndingSelect, RecoverDone, storeVars
    <2>2. w'.pc \in {"recStarting", "recLive", "recGiveUp", "recEnding", "expire"}
      <3>1. RecoverSelect => w'.pc = "recStarting"
        BY DEF RecoverSelect, At
      <3>2. RecoverToken => w'.pc \in {"recLive", "recGiveUp"}
        BY <1>w DEF RecoverToken, WorkerState
      <3>3. RecoverEndingSelect => w'.pc = "recEnding"
        BY DEF RecoverEndingSelect, At
      <3>4. RecoverDone => w'.pc = "expire"
        BY DEF RecoverDone, At
      <3> QED BY <1>1, <3>1, <3>2, <3>3, <3>4
    <2> QED BY <2>1, <2>2, Unmarked DEF Dialing
  <1>2. CASE RecoverGiveUp \/ RecoverFinish \/ RecoverEnded
    <2>1. NoMark
      BY <1>2, SameRows DEF RecoverGiveUp, RecoverFinish, RecoverEnded
    <2>2. w'.pc \in {"recStarting", "recEnding"}
      BY <1>2 DEF RecoverGiveUp, RecoverFinish, RecoverEnded, NextCandidate, At
    <2> QED BY <2>1, <2>2, Unmarked DEF Dialing
  <1>3. ASSUME NEW m \in MeetingIds, RecoverPast(m) \/ RecoverBegin(m) \/ RecoverDisconnect(m)
        PROVE  DialsLeft'
    <2>1. NoMark
      BY <1>3, SameRows DEF RecoverPast, RecoverBegin, RecoverDisconnect, storeVars
    <2>2. w'.pc \in {"recStarting", "recToken", "recEndCommit"}
      BY <1>3, <1>w
      DEF RecoverPast, RecoverBegin, RecoverDisconnect, Skip, Begin, WorkerState
    <2> QED BY <2>1, <2>2, Unmarked DEF Dialing
  <1>4. CASE RecoverLive
    <2>1. NoMark /\ UNCHANGED endpoints
      BY <1>4, SameRows DEF RecoverLive, storeVars
    <2>2. CASE w'.pc = "recGiveUp"
      BY <2>1, <2>2, Unmarked DEF Dialing
    <2>3. CASE w'.pc # "recGiveUp"
      <3>1. w'.pc = "recEp" /\ w'.m = w.m /\ w'.rows = RowsToRedial(w.m)
        BY <1>4, <1>w, <2>3 DEF RecoverLive, WorkerState
      <3>2. \A k \in w'.rows : endpoints'[w'.m][k] # "dialed"
        BY <2>1, <3>1 DEF RowsToRedial
      <3>3. \A m \in MeetingIds : meetings'[m].status \in Fresh => Undialed(m, RowKeys)'
        BY <2>1, NeverFreshAgain DEF DialsLeft, Undialed
      <3> QED BY <3>1, <3>2, <3>3 DEF DialsLeft, Undialed, Committing
    <2> QED BY <2>2, <2>3
  <1>5. ASSUME NEW k \in RowKeys, RecoverDial(k) PROVE DialsLeft'
    <2>1. NoMark
      BY <1>5, SameRows DEF RecoverDial, storeVars
    <2>2. /\ w.pc = "recEp" /\ w'.pc = "recCommit" /\ w'.m = w.m
          /\ w'.rows = w.rows \ {k} /\ w'.row = k
      BY <1>5, <1>w DEF RecoverDial, WorkerState
    <2> QED BY <2>1, <2>2, Unmarked DEF Dialing
  <1>6. ASSUME NEW k \in RowKeys, RecoverSeen(k) PROVE DialsLeft'
    <2>1. /\ w.pc = "recEp" /\ w'.pc = "recEp" /\ w'.m = w.m /\ w'.rows = w.rows \ {k}
          /\ SetRows(w.m, {k}, "dialed") /\ UNCHANGED meetings
      BY <1>6, <1>w DEF RecoverSeen, WorkerState
    <2> QED BY <2>1, Marked DEF Dialing
  <1>7. CASE RecoverCommit
    <2>1. /\ w.pc = "recCommit" /\ w'.pc = "recEp" /\ w'.m = w.m /\ w'.rows = w.rows
          /\ SetRows(w.m, {w.row}, w.res) /\ UNCHANGED meetings
      BY <1>7, <1>w DEF RecoverCommit, Recorded, WorkerState
    <2>2. w.row \notin w'.rows
      BY <2>1 DEF DialsLeft, Committing
    <2> QED BY <2>1, <2>2, Marked DEF Dialing
  <1> QED
    BY <1>1, <1>2, <1>3, <1>4, <1>5, <1>6, <1>7 DEF Recover

LEMMA EndDials ==
    ASSUME TypeOK, DialsLeft, [Next]_vars, Expire \/ End
    PROVE  DialsLeft'
  <1> USE DEF TypeOK
  <1>w. w \in WorkerState
    BY DEF WorkerTypeOK
  <1>1. CASE ExpireSelect \/ ExpireDone \/ EndSelect \/ EndDone
    <2>1. NoMark
      BY <1>1, SameRows DEF ExpireSelect, ExpireDone, EndSelect, EndDone, storeVars
    <2>2. w'.pc \in {"expLoop", "end", "endLoop", "start"}
      <3>1. ExpireSelect => w'.pc = "expLoop"
        BY DEF ExpireSelect, At
      <3>2. EndSelect => w'.pc = "endLoop"
        BY DEF EndSelect, At
      <3>3. (ExpireDone => w'.pc = "end") /\ (EndDone => w'.pc = "start")
        BY DEF ExpireDone, EndDone, At
      <3> QED BY <1>1, <3>1, <3>2, <3>3
    <2> QED BY <2>1, <2>2, Unmarked DEF Dialing
  <1>2. ASSUME NEW m \in MeetingIds, ExpireOne(m) \/ EndClaim(m) PROVE DialsLeft'
    <2>1. NoMark
      BY <1>2, SameRows DEF ExpireOne, EndClaim
    <2>2. w'.pc \in {"expLoop", "endLoop", "endCall"}
      BY <1>2, <1>w DEF ExpireOne, EndClaim, Skip, Begin, WorkerState
    <2> QED BY <2>1, <2>2, Unmarked DEF Dialing
  <1>3. CASE EndDisconnect
    <2>1. NoMark
      BY <1>3, SameRows DEF EndDisconnect, storeVars
    <2>2. w'.pc = "endCommit"
      BY <1>3, <1>w DEF EndDisconnect, WorkerState
    <2> QED BY <2>1, <2>2, Unmarked DEF Dialing
  <1>4. CASE EndCommit
    <2>1. w.m \in MeetingIds
      BY <1>4 DEF EndCommit, WorkerTypeOK, Ending
    <2>2. NoMark
      BY <1>4, <2>1, SetMarks DEF EndCommit
    <2>3. w'.pc = "endLoop"
      BY <1>4 DEF EndCommit, NextCandidate, At
    <2> QED BY <2>2, <2>3, Unmarked DEF Dialing
  <1> QED BY <1>1, <1>2, <1>3, <1>4 DEF Expire, End

LEMMA StartDials ==
    ASSUME TypeOK, Claims, DialsLeft, [Next]_vars, Start
    PROVE  DialsLeft'
  <1> USE DEF TypeOK
  <1>w. w \in WorkerState
    BY DEF WorkerTypeOK
  <1>1. CASE StartSelect \/ StartFinish \/ StartDone
    <2>1. NoMark
      BY <1>1, SameRows DEF StartSelect, StartFinish, StartDone, storeVars
    <2>2. w'.pc \in {"startLoop", "idle"}
      <3>1. StartSelect => w'.pc = "startLoop"
        BY DEF StartSelect, At
      <3>2. StartFinish => w'.pc = "startLoop"
        BY DEF StartFinish, NextCandidate, At
      <3>3. StartDone => w'.pc = "idle"
        BY DEF StartDone, At
      <3> QED BY <1>1, <3>1, <3>2, <3>3
    <2> QED BY <2>1, <2>2, Unmarked DEF Dialing
  <1>2. ASSUME NEW m \in MeetingIds, StartClaim(m) PROVE DialsLeft'
    <2>1. NoMark /\ UNCHANGED endpoints
      BY <1>2, SameRows DEF StartClaim
    <2>2. CASE CanClaimStart(m)
      <3>1. w'.pc = "startToken" /\ w'.m = m
        BY <1>2, <1>w, <2>2 DEF StartClaim, Begin, WorkerState
      <3>2. Undialed(m, RowKeys)
        BY <2>2 DEF CanClaimStart, DialsLeft, Fresh
      <3>3. \A n \in MeetingIds : meetings'[n].status \in Fresh => Undialed(n, RowKeys)'
        BY <2>1, NeverFreshAgain DEF DialsLeft, Undialed
      <3> QED BY <2>1, <3>1, <3>2, <3>3 DEF DialsLeft, Undialed, Dialing, Committing
    <2>3. CASE ~CanClaimStart(m)
      <3>1. w'.pc = "startLoop"
        BY <1>2, <1>w, <2>3 DEF StartClaim, Skip, WorkerState
      <3> QED BY <2>1, <3>1, Unmarked DEF Dialing
    <2> QED BY <2>2, <2>3
  <1>3. CASE StartToken
    <2>1. UNCHANGED endpoints
      BY <1>3 DEF StartToken, storeVars
    <2>2. w.pc = "startToken" /\ w'.pc = "startEp" /\ w'.m = w.m /\ w'.rows \subseteq RowKeys
      BY <1>3, <1>w DEF StartToken, WorkerState, Rows
    <2>3. \A n \in MeetingIds : meetings'[n].status \in Fresh => Undialed(n, RowKeys)'
      BY <2>1, NeverFreshAgain DEF DialsLeft, Undialed
    <2> QED BY <2>1, <2>2, <2>3 DEF DialsLeft, Undialed, Committing
  <1>4. ASSUME NEW k \in RowKeys, StartDial(k) PROVE DialsLeft'
    <2>1. NoMark
      BY <1>4, SameRows DEF StartDial, storeVars
    <2>2. /\ w.pc = "startEp" /\ w'.pc = "startCommit" /\ w'.m = w.m
          /\ w'.rows = w.rows \ {k} /\ w'.row = k
      BY <1>4, <1>w DEF StartDial, WorkerState
    <2> QED BY <2>1, <2>2, Unmarked DEF Dialing
  <1>5. CASE StartCommit
    <2>1. /\ w.pc = "startCommit" /\ w'.pc = "startEp" /\ w'.m = w.m /\ w'.rows = w.rows
          /\ SetRows(w.m, {w.row}, w.res) /\ UNCHANGED meetings
      BY <1>5, <1>w DEF StartCommit, Recorded, WorkerState
    <2>2. w.row \notin w'.rows
      BY <2>1 DEF DialsLeft, Committing
    <2> QED BY <2>1, <2>2, Marked DEF Dialing
  <1> QED BY <1>1, <1>2, <1>3, <1>4, <1>5 DEF Start

LEMMA FaultyDials ==
    ASSUME TypeOK, Claims, DialsLeft, [Next]_vars, Faulty
    PROVE  DialsLeft'
  <1> USE DEF TypeOK
  <1>w. /\ w \in WorkerState
        /\ w.pc \in Starting \cup Ending => w.m \in MeetingIds
    BY DEF WorkerTypeOK
  <1>1. CASE LockedJob \/ Crash \/ LockedEnded
    <2>1. NoMark
      BY <1>1, SameRows DEF LockedJob, Crash, LockedEnded
    <2>2. w'.pc \in {"expire", "end", "start", "idle", "down", "recEnding"}
      <3>1. CASE LockedJob
        BY <3>1, <1>w DEF LockedJob, NextJob, At
      <3>2. CASE Crash
        BY <3>2 DEF Crash, At
      <3>3. CASE LockedEnded
        BY <3>3, <1>w DEF LockedEnded, NextCandidate, At
      <3> QED BY <1>1, <3>1, <3>2, <3>3
    <2> QED BY <2>1, <2>2, Unmarked DEF Dialing
  <1>2. CASE LockedStart
    <2>1. NoMark
      BY <1>2, SameRows DEF LockedStart
    <2>2. w.pc = "startCommit" /\ w'.pc = "startEp" /\ w'.m = w.m /\ w'.rows = {}
      BY <1>2, <1>w DEF LockedStart, Recorded, WorkerState
    <2> QED BY <2>1, <2>2, Unmarked DEF Dialing, Committing
  <1>3. CASE LockedDial
    <2>1. /\ w.pc \in {"recCommit", "startCommit"} /\ w'.pc \in {"recEp", "startEp"}
          /\ w'.m = w.m /\ w'.rows = w.rows /\ SetRows(w.m, {w.row}, "error")
      BY <1>3, <1>w DEF LockedDial, Recorded, WorkerState
    <2>2. NoMark
      BY <1>w, <2>1, SetMarks DEF Starting
    <2> QED BY <2>1, <2>2, Unmarked DEF Dialing, Committing
  <1>4. ASSUME NEW k \in RowKeys, LockedSeen(k) PROVE DialsLeft'
    <2>1. /\ w.pc = "recEp" /\ w'.pc = "recEp" /\ w'.m = w.m /\ w'.rows = w.rows \ {k}
          /\ SetRows(w.m, {k}, "error")
      BY <1>4, <1>w DEF LockedSeen, WorkerState
    <2>2. NoMark
      BY <1>w, <2>1, SetMarks DEF Starting
    <2> QED BY <2>1, <2>2, Unmarked DEF Dialing, Committing
  <1> QED BY <1>1, <1>2, <1>3, <1>4 DEF Faulty

LEMMA DialsStep ==
    ASSUME TypeOK, Claims, DialsLeft, [Next]_vars
    PROVE  DialsLeft'
  <1>1. CASE WorkerStep
    <2>1. CASE BeginTick \/ Restart
      <3>1. NoMark
        BY <2>1, SameRows DEF BeginTick, Restart, storeVars
      <3>2. w'.pc \in {"recover", "idle"}
        BY <2>1 DEF BeginTick, Restart, At
      <3> QED BY <3>1, <3>2, Unmarked DEF Dialing
    <2> QED
      BY <1>1, <2>1, RecoverDials, EndDials, StartDials, FaultyDials
      DEF WorkerStep, WorkerRuns
  <1>2. CASE (ApiStep \/ Calls \/ Tick \/ UNCHANGED vars) /\ UNCHANGED w
    BY <1>2, OtherMarks, Unmarked
  <1> QED BY <1>1, <1>2 DEF Next, vars

(* In every behaviour the rows still to be dialled are not marked.         *)
THEOREM DialsLeftHolds == Spec => []DialsLeft
  <1>1. Init => DialsLeft
    BY DEF Init, StoreInit, WorkerInit, At, DialsLeft, Undialed, Dialing, Committing
  <1>2. TypeOK /\ Claims /\ DialsLeft /\ [Next]_vars => DialsLeft'
    BY DialsStep
  <1> QED BY <1>1, <1>2, TypeCorrect, ClaimsHold, PTL DEF Spec

(* Only the two dialling actions make a row the one just dialled.          *)
LEMMA WhoDials ==
    ASSUME TypeOK, [Next]_vars, NEW k \in RowKeys, WorkerDials(k)
    PROVE  k \in w.rows
  <1> USE DEF TypeOK
  <1>w. w \in WorkerState
    BY DEF WorkerTypeOK
  <1>k. k # None /\ w.pc \in {"startEp", "recEp"} /\ w.row # k /\ w'.row = k
    BY StoreAssumption DEF WorkerDials, RowKeys
  <1>1. w' # w
    BY <1>k
  <1>2. Recover \/ Expire \/ End \/ Start \/ Faulty \/ BeginTick \/ Restart
    BY <1>1 DEF Next, WorkerStep, WorkerRuns, vars
  <1>3. ASSUME NEW j \in RowKeys, RecoverDial(j) \/ StartDial(j) PROVE k \in w.rows
    <2>1. j \in w.rows /\ w'.row = j
      BY <1>3, <1>w DEF RecoverDial, StartDial, WorkerState
    <2> QED BY <2>1, <1>k
  <1>4. ASSUME NEW j \in RowKeys, RecoverSeen(j) \/ LockedSeen(j) PROVE FALSE
    <2>1. w'.row = w.row
      BY <1>4, <1>w DEF RecoverSeen, LockedSeen, WorkerState
    <2> QED BY <2>1, <1>k
  <1>5. CASE RecoverFinish \/ StartFinish \/ LockedJob \/ Crash
    <2>1. w'.row = None
      <3>1. CASE RecoverFinish \/ StartFinish
        BY <3>1 DEF RecoverFinish, StartFinish, NextCandidate, At
      <3>2. CASE LockedJob
        BY <3>2 DEF LockedJob, At
      <3>3. CASE Crash
        BY <3>3 DEF Crash, At
      <3> QED BY <1>5, <3>1, <3>2, <3>3
    <2> QED BY <2>1, <1>k
  <1> QED
    BY <1>2, <1>3, <1>4, <1>5, <1>k DEF Recover, RecoverSelect, RecoverToken, RecoverLive,
       RecoverGiveUp, RecoverCommit, RecoverEndingSelect, RecoverEnded, RecoverDone,
       RecoverPast, RecoverBegin, RecoverDisconnect, Expire, ExpireSelect, ExpireOne,
       ExpireDone, End, EndSelect, EndClaim, EndDisconnect, EndCommit, EndDone, Start,
       StartSelect, StartClaim, StartToken, StartCommit, StartDone, Faulty, LockedDial,
       LockedStart, LockedEnded, BeginTick, Restart

(* The worker never dials a row that is marked as dialled.                 *)
THEOREM DialedOnce == Spec => NeverDialedTwice
  <1>1. TypeOK /\ DialsLeft /\ [Next]_vars =>
            [\A k \in RowKeys : WorkerDials(k) => endpoints[w.m][k] # "dialed"]_vars
    <2> SUFFICES ASSUME TypeOK, DialsLeft, [Next]_vars, NEW k \in RowKeys, WorkerDials(k)
                 PROVE  endpoints[w.m][k] # "dialed"
      OBVIOUS
    <2>1. w.pc \in Dialing
      BY DEF WorkerDials, Dialing
    <2> QED BY <2>1, WhoDials DEF DialsLeft, Undialed
  <1> QED BY <1>1, TypeCorrect, DialsLeftHolds, PTL DEF Spec, NeverDialedTwice
----------------------------------------------------------------------------
(* Started means dialled: as long as nothing has gone wrong (w.ok), each   *)
(* row of the meeting being started is dialled, or the worker has it still *)
(* before it.  For this no request may put a new row under a running       *)
(* meeting.                                                                *)
NoNewRows == Requests \cap {"update", "edit", "add"} = {}

Settled == {"dialed", "redialed", "unused", "deleted"}
Filled(m, K) == \A k \in RowKeys \ K : endpoints[m][k] \in Settled

(* The inductive invariant.                                                *)
Complete ==
    /\ StartedMeansDialed
    /\ w.pc \in {"startEp", "recEp"} /\ w.ok => Filled(w.m, w.rows)
    /\ w.pc \in Committing /\ w.ok => Filled(w.m, w.rows \cup {w.row})

Fills(m) == \A k \in RowKeys : endpoints[m][k] \in Settled => endpoints'[m][k] \in Settled
----------------------------------------------------------------------------
LEMMA SameFills == UNCHANGED endpoints => \A m : Fills(m)
  BY DEF Fills

LEMMA SetFills ==
    ASSUME NEW m \in MeetingIds, NEW K, NEW s, StoreTypeOK, SetRows(m, K, s)
    PROVE  /\ \A n \in MeetingIds \ {m} : Fills(n)
           /\ s \in Settled => Fills(m)
           /\ s \in Settled => \A k \in K \cap RowKeys : endpoints'[m][k] \in Settled
  BY DEF StoreTypeOK, SetRows, Fills, RowExists, RowStatus, EndpointStatus, Settled

(* The requests that remain mark rows as redialed or deleted, or fill a    *)
(* meeting that was not there before.                                      *)
LEMMA RequestFills ==
    ASSUME NoNewRows, TypeOK, OnlyAsked, ApiStep
    PROVE  \A m \in MeetingIds : Fills(m) \/ meetings[m].status = "unused"
  <1> USE DEF TypeOK
  <1> DEFINE Goal == \A m \in MeetingIds : Fills(m) \/ meetings[m].status = "unused"
  <1>s. ASSUME NEW m \in MeetingIds, NEW K, NEW s \in {"redialed", "deleted"}, SetRows(m, K, s)
        PROVE  Goal
    BY <1>s, SetFills DEF Settled
  <1>1. CASE Manage
    <2>1. ASSUME NEW m \in MeetingIds, NEW slot \in Slots, NEW E \in SUBSET Aliases,
                 CreateMeeting(m, slot, E)
          PROVE  Goal
      BY <2>1 DEF CreateMeeting, ReplaceRows, StoreTypeOK, Fills
    <2>2. ASSUME NEW m \in MeetingIds, DeleteMeeting(m) PROVE Goal
      BY <2>2, <1>s DEF DeleteMeeting, DeleteRows
    <2> QED BY <1>1, <2>1, <2>2 DEF Manage, UpdateMeeting, Ask, NoNewRows
  <1>2. ASSUME NEW t \in Threads, Edit(t) PROVE Goal
    BY <1>2, SameFills DEF Edit, EditRead, EditActive, EditScheduled, ExtendRead, ExtendWrite,
       OnlyAsked, AskedFor, NoNewRows, storeVars
  <1>3. ASSUME NEW t \in Threads, Redial(t) \/ Add(t) \/ Remove(t) \/ Abandon(t) PROVE Goal
    <2>1. web[t].pc # "free" => web[t].m \in MeetingIds
      BY DEF ApiTypeOK, WellFormed
    <2>2. CASE RedialWrite(t)
      BY <2>1, <2>2, <1>s DEF RedialWrite
    <2>3. CASE RemoveDelete(t)
      BY <2>1, <2>3, <1>s DEF RemoveDelete, DeleteRows
    <2>4. ~AddInsert(t) /\ ~AddWrite(t) /\ ~AddLocked(t)
      BY DEF AddInsert, AddWrite, AddLocked, OnlyAsked, AskedFor, NoNewRows
    <2> QED
      BY <1>3, <2>2, <2>3, <2>4, SameFills DEF Redial, RedialRead, RedialCall, Add, AddRead,
         AddCall, Remove, RemoveRead, RemoveLive, RemoveCall, Abandon, storeVars
  <1> QED BY <1>1, <1>2, <1>3 DEF ApiStep

LEMMA OtherFills ==
    ASSUME NoNewRows, TypeOK, OnlyAsked, ApiStep \/ Calls \/ Tick \/ UNCHANGED vars
    PROVE  \A m \in MeetingIds : Fills(m) \/ meetings[m].status = "unused"
  BY RequestFills, SameFills DEF Calls, Answer, GiveUp, HangUp, Tick, vars, storeVars

(* The worker touches the rows of the meeting it has claimed only, and no  *)
(* more once it has none left to dial.                                     *)
Mine(m) ==
    /\ w.pc \in Starting \cup Ending /\ w.m = m
    /\ w.pc \in {"startEp", "recEp"} => w.rows # {}

LEMMA WorkerFills ==
    ASSUME TypeOK, WorkerStep
    PROVE  \A m \in MeetingIds : Fills(m) \/ Mine(m)
  <1> USE DEF TypeOK
  <1> DEFINE Goal == \A m \in MeetingIds : Fills(m) \/ Mine(m)
  <1>s. ASSUME Mine(w.m), NEW K, NEW s, SetRows(w.m, K, s)
        PROVE  Goal
    BY <1>s, SetFills DEF Mine, WorkerTypeOK
  <1>1. CASE RecoverCommit \/ EndCommit \/ StartCommit \/ LockedDial
    BY <1>s, <1>1 DEF RecoverCommit, EndCommit, StartCommit, LockedDial, Mine, Starting, Ending
  <1>2. ASSUME NEW k \in RowKeys, RecoverSeen(k) \/ LockedSeen(k) PROVE Goal
    BY <1>s, <1>2 DEF RecoverSeen, LockedSeen, Mine, Starting
  <1>3. CASE UNCHANGED endpoints
    BY <1>3, SameFills
  <1> QED
    BY <1>1, <1>2, <1>3
    DEF WorkerStep, WorkerRuns, BeginTick, Restart, Recover, RecoverSelect, RecoverToken,
        RecoverLive, RecoverGiveUp, RecoverFinish, RecoverEndingSelect, RecoverEnded,
        RecoverDone, RecoverPast, RecoverBegin, RecoverDisconnect, RecoverDial, Expire,
        ExpireSelect, ExpireOne, ExpireDone, End, EndSelect, EndClaim, EndDisconnect, EndDone,
        Start, StartSelect, StartClaim, StartToken, StartDial, StartFinish, StartDone, Faulty,
        LockedJob, LockedStart, LockedEnded, Crash, storeVars
----------------------------------------------------------------------------
(* The second and third part of Complete, and how a step of the worker     *)
(* brings them about.                                                      *)
Going ==
    /\ w.pc \in {"startEp", "recEp"} /\ w.ok => Filled(w.m, w.rows)
    /\ w.pc \in Committing /\ w.ok => Filled(w.m, w.rows \cup {w.row})

LEMMA NotGoing ==
    ASSUME w'.pc \notin Dialing \/ ~w'.ok, w' \in WorkerState
    PROVE  Going'
  BY DEF Going, Dialing, Committing, WorkerState

LEMMA RecoverGoes ==
    ASSUME TypeOK, TypeOK', Going, Recover
    PROVE  Going'
  <1> USE DEF TypeOK
  <1>w. w \in WorkerState /\ w' \in WorkerState
    BY DEF WorkerTypeOK
  <1>m. w.pc \in Starting => w.m \in MeetingIds
    BY DEF WorkerTypeOK
  <1>1. CASE RecoverSelect \/ RecoverEndingSelect \/ RecoverDone
    <2>1. RecoverSelect => w'.pc = "recStarting"
      BY DEF RecoverSelect, At
    <2>2. RecoverEndingSelect => w'.pc = "recEnding"
      BY DEF RecoverEndingSelect, At
    <2>3. RecoverDone => w'.pc = "expire"
      BY DEF RecoverDone, At
    <2> QED BY <1>1, <1>w, <2>1, <2>2, <2>3, NotGoing DEF Dialing
  <1>2. CASE RecoverGiveUp \/ RecoverFinish \/ RecoverEnded
    <2>1. w'.pc \in {"recStarting", "recEnding"}
      BY <1>2 DEF RecoverGiveUp, RecoverFinish, RecoverEnded, NextCandidate, At
    <2> QED BY <1>w, <2>1, NotGoing DEF Dialing
  <1>3. CASE RecoverToken \/ \E m \in MeetingIds : RecoverPast(m) \/ RecoverBegin(m) \/ RecoverDisconnect(m)
    <2>1. w'.pc \in {"recStarting", "recToken", "recEndCommit", "recLive", "recGiveUp"}
      BY <1>3, <1>w
      DEF RecoverToken, RecoverPast, RecoverBegin, RecoverDisconnect, Skip, Begin, WorkerState
    <2> QED BY <1>w, <2>1, NotGoing DEF Dialing
  <1>4. CASE RecoverLive
    <2>1. CASE w'.pc = "recGiveUp"
      BY <1>w, <2>1, NotGoing DEF Dialing
    <2>2. CASE w'.pc # "recGiveUp"
      <3>1. /\ w'.pc = "recEp" /\ w'.m = w.m /\ w'.rows = RowsToRedial(w.m)
            /\ endpoints' = endpoints
        BY <1>4, <1>w, <2>2 DEF RecoverLive, WorkerState, storeVars
      <3>2. w.m \in MeetingIds
        BY <1>4, <1>m DEF RecoverLive, Starting
      <3>3. \A k \in RowKeys \ RowsToRedial(w.m) : endpoints[w.m][k] \in Settled
        BY <3>2 DEF RowsToRedial, Rows, RowExists, RowStatus, EndpointStatus, Settled, StoreTypeOK
      <3> QED BY <3>1, <3>3 DEF Going, Filled, Committing
    <2> QED BY <2>1, <2>2
  <1>5. ASSUME NEW k \in RowKeys, RecoverDial(k) PROVE Going'
    <2>1. /\ w.pc = "recEp" /\ w'.pc = "recCommit" /\ w'.m = w.m /\ w'.ok = w.ok
          /\ w'.rows = w.rows \ {k} /\ w'.row = k /\ endpoints' = endpoints
      BY <1>5, <1>w DEF RecoverDial, WorkerState, storeVars
    <2> QED BY <2>1 DEF Going, Filled, Committing
  <1>6. ASSUME NEW k \in RowKeys, RecoverSeen(k) PROVE Going'
    <2>1. /\ w.pc = "recEp" /\ w'.pc = "recEp" /\ w'.m = w.m /\ w'.rows = w.rows \ {k}
          /\ w'.ok = w.ok /\ SetRows(w.m, {k}, "dialed")
      BY <1>6, <1>w DEF RecoverSeen, WorkerState
    <2>2. Fills(w.m) /\ endpoints'[w.m][k] \in Settled
      BY <1>m, <2>1, SetFills DEF Starting, Settled
    <2> QED BY <2>1, <2>2 DEF Going, Filled, Fills, Committing
  <1>7. CASE RecoverCommit
    <2>1. /\ w.pc = "recCommit" /\ w'.pc = "recEp" /\ w'.m = w.m /\ w'.rows = w.rows
          /\ w'.ok = (w.ok /\ w.res = "dialed") /\ SetRows(w.m, {w.row}, w.res)
      BY <1>7, <1>w DEF RecoverCommit, Recorded, WorkerState
    <2>2. CASE w.res # "dialed"
      BY <1>w, <2>1, <2>2, NotGoing
    <2>3. CASE w.res = "dialed"
      <3>1. Fills(w.m) /\ \A k \in {w.row} \cap RowKeys : endpoints'[w.m][k] \in Settled
        BY <1>m, <2>1, <2>3, SetFills DEF Starting, Settled
      <3> QED BY <2>1, <2>3, <3>1 DEF Going, Filled, Fills, Committing
    <2> QED BY <2>2, <2>3
  <1> QED
    BY <1>1, <1>2, <1>3, <1>4, <1>5, <1>6, <1>7 DEF Recover

LEMMA StartGoes ==
    ASSUME TypeOK, TypeOK', Going, Start
    PROVE  Going'
  <1> USE DEF TypeOK
  <1>w. w \in WorkerState /\ w' \in WorkerState
    BY DEF WorkerTypeOK
  <1>m. w.pc \in Starting => w.m \in MeetingIds
    BY DEF WorkerTypeOK
  <1>1. CASE StartSelect \/ StartFinish \/ StartDone
    <2>1. StartSelect => w'.pc = "startLoop"
      BY DEF StartSelect, At
    <2>2. StartFinish => w'.pc = "startLoop"
      BY DEF StartFinish, NextCandidate, At
    <2>3. StartDone => w'.pc = "idle"
      BY DEF StartDone, At
    <2> QED BY <1>1, <1>w, <2>1, <2>2, <2>3, NotGoing DEF Dialing
  <1>2. ASSUME NEW m \in MeetingIds, StartClaim(m) PROVE Going'
    <2>1. w'.pc \in {"startToken", "startLoop"}
      BY <1>2, <1>w DEF StartClaim, Skip, Begin, WorkerState
    <2> QED BY <1>w, <2>1, NotGoing DEF Dialing
  <1>3. CASE StartToken
    <2>1. /\ w'.pc = "startEp" /\ w'.m = w.m /\ endpoints' = endpoints
          /\ w'.ok => w'.rows = Rows(w.m)
      BY <1>3, <1>w DEF StartToken, WorkerState, storeVars
    <2>2. w.m \in MeetingIds
      BY <1>3, <1>m DEF StartToken, Starting
    <2>3. \A k \in RowKeys \ Rows(w.m) : endpoints[w.m][k] \in Settled
      BY <2>2 DEF Rows, RowExists, RowStatus, EndpointStatus, Settled, StoreTypeOK
    <2> QED BY <2>1, <2>3 DEF Going, Filled, Committing
  <1>4. ASSUME NEW k \in RowKeys, StartDial(k) PROVE Going'
    <2>1. /\ w.pc = "startEp" /\ w'.pc = "startCommit" /\ w'.m = w.m /\ w'.ok = w.ok
          /\ w'.rows = w.rows \ {k} /\ w'.row = k /\ endpoints' = endpoints
      BY <1>4, <1>w DEF StartDial, WorkerState, storeVars
    <2> QED BY <2>1 DEF Going, Filled, Committing
  <1>5. CASE StartCommit
    <2>1. /\ w.pc = "startCommit" /\ w'.pc = "startEp" /\ w'.m = w.m /\ w'.rows = w.rows
          /\ w'.ok = (w.ok /\ w.res = "dialed") /\ SetRows(w.m, {w.row}, w.res)
      BY <1>5, <1>w DEF StartCommit, Recorded, WorkerState
    <2>2. CASE w.res # "dialed"
      BY <1>w, <2>1, <2>2, NotGoing
    <2>3. CASE w.res = "dialed"
      <3>1. Fills(w.m) /\ \A k \in {w.row} \cap RowKeys : endpoints'[w.m][k] \in Settled
        BY <1>m, <2>1, <2>3, SetFills DEF Starting, Settled
      <3> QED BY <2>1, <2>3, <3>1 DEF Going, Filled, Fills, Committing
    <2> QED BY <2>2, <2>3
  <1> QED BY <1>1, <1>2, <1>3, <1>4, <1>5 DEF Start

LEMMA WorkerGoes ==
    ASSUME TypeOK, TypeOK', Going, WorkerStep
    PROVE  Going'
  <1> USE DEF TypeOK
  <1>w. w \in WorkerState /\ w' \in WorkerState
    BY DEF WorkerTypeOK
  <1>1. CASE BeginTick \/ Restart \/ LockedJob \/ LockedEnded \/ Crash
    <2>1. w'.pc \notin Dialing
      <3>1. CASE LockedJob
        BY <3>1 DEF LockedJob, NextJob, At, Dialing
      <3>2. CASE LockedEnded
        BY <3>2 DEF LockedEnded, NextCandidate, At, Dialing
      <3> QED BY <1>1, <3>1, <3>2 DEF BeginTick, Restart, Crash, At, Dialing
    <2> QED BY <1>w, <2>1, NotGoing
  <1>2. CASE Expire \/ End
    <2>1. w'.pc \notin Dialing
      <3>1. ExpireSelect => w'.pc = "expLoop"
        BY DEF ExpireSelect, At
      <3>2. EndSelect => w'.pc = "endLoop"
        BY DEF EndSelect, At
      <3>3. ExpireDone \/ EndDone => w'.pc \in {"end", "start"}
        BY DEF ExpireDone, EndDone, At
      <3>4. EndDisconnect \/ EndCommit => w'.pc \in {"endCommit", "endLoop"}
        BY <1>w DEF EndDisconnect, EndCommit, NextCandidate, At, WorkerState
      <3>5. ASSUME NEW m \in MeetingIds, ExpireOne(m) \/ EndClaim(m) PROVE w'.pc \notin Dialing
        BY <1>w, <3>5 DEF ExpireOne, EndClaim, Skip, Begin, WorkerState, Dialing
      <3> QED BY <1>2, <3>1, <3>2, <3>3, <3>4, <3>5 DEF Expire, End, Dialing
    <2> QED BY <1>w, <2>1, NotGoing
  <1>3. CASE LockedDial \/ LockedStart \/ \E k \in RowKeys : LockedSeen(k)
    <2>1. ~w'.ok
      BY <1>3, <1>w DEF LockedDial, LockedStart, LockedSeen, Recorded, WorkerState
    <2> QED BY <1>w, <2>1, NotGoing
  <1> QED
    BY <1>1, <1>2, <1>3, RecoverGoes, StartGoes DEF WorkerStep, WorkerRuns, Faulty

LEMMA CompleteStep ==
    ASSUME NoNewRows, TypeOK, TypeOK', OnlyAsked, Claims, Complete, [Next]_vars
    PROVE  Complete'
  <1>c. w.pc \in Starting \cup Ending =>
            /\ w.m \in MeetingIds
            /\ meetings[w.m].status \in {"starting", "ending", "deleted"}
    BY DEF TypeOK, WorkerTypeOK, Claims, In
  <1>1. Going'
    <2>1. CASE WorkerStep
      BY <2>1, WorkerGoes DEF Complete, Going
    <2>2. CASE (ApiStep \/ Calls \/ Tick \/ UNCHANGED vars) /\ w' = w
      <3>1. w.pc \in Dialing => Fills(w.m)
        BY <1>c, <2>2, OtherFills DEF Dialing, Starting
      <3> QED BY <2>2, <3>1 DEF Complete, Going, Filled, Fills, Dialing, Committing
    <2> QED BY <2>1, <2>2 DEF Next, vars
  <1>2. StartedMeansDialed'
    <2> SUFFICES ASSUME NEW m \in MeetingIds, meetings'[m].status = "started",
                        NEW k \in RowKeys
                 PROVE  endpoints'[m][k] \in Settled
      BY DEF StartedMeansDialed, Rows, RowExists, EndpointStatus, Settled
    <2>1. meetings[m].status = "started" \/ StartsNow(m)
      BY OutcomeStep DEF OutcomesOk, OutcomeOk
    <2>2. endpoints[m][k] \in Settled
      <3>1. CASE meetings[m].status = "started"
        BY <3>1 DEF Complete, StartedMeansDialed, Rows, RowExists, EndpointStatus, RowStatus,
           Settled, TypeOK, StoreTypeOK
      <3>2. CASE StartsNow(m)
        BY <3>2 DEF StartsNow, Complete, Filled
      <3> QED BY <2>1, <3>1, <3>2
    <2>3. CASE WorkerStep
      <3>1. CASE Mine(m)
        BY <1>c, <2>1, <3>1 DEF Mine, StartsNow
      <3>2. CASE Fills(m)
        BY <2>2, <3>2 DEF Fills
      <3> QED BY <2>3, <3>1, <3>2, WorkerFills
    <2>4. CASE (ApiStep \/ Calls \/ Tick \/ UNCHANGED vars) /\ w' = w
      <3>1. meetings[m].status # "unused"
        BY <1>c, <2>1 DEF StartsNow, Starting
      <3> QED BY <2>2, <2>4, <3>1, OtherFills DEF Fills
    <2> QED BY <2>3, <2>4 DEF Next, vars
  <1> QED BY <1>1, <1>2 DEF Complete, Going

(* A meeting recorded as started has had every endpoint dialled, as long   *)
(* as no request puts new rows under it.                                   *)
THEOREM StartedIsComplete ==
    ASSUME NoNewRows
    PROVE  Spec => []StartedMeansDialed
  <1>1. Init => Complete
    BY DEF Init, StoreInit, UnusedMeeting, WorkerInit, At, Complete, StartedMeansDialed, Committing
  <1>2. TypeOK /\ TypeOK' /\ OnlyAsked /\ Claims /\ Complete /\ [Next]_vars => Complete'
    BY NoNewRows, CompleteStep
  <1>3. Complete => StartedMeansDialed
    BY DEF Complete
  <1> QED BY <1>1, <1>2, <1>3, TypeCorrect, AskedAlways, ClaimsHold, PTL DEF Spec
=============================================================================
