---------------------------- MODULE SystemProofs ----------------------------
(***************************************************************************)
(* Theorems about System, for any sets of meetings, endpoints and threads, *)
(* any requests and any values of the bounds: type correctness, which the  *)
(* other theorems rest on, and that a tick of the worker comes to an end.  *)
(***************************************************************************)
EXTENDS System, TLAPS

(***************************************************************************)
(* The operators that update the database keep the types of its tables.    *)
(***************************************************************************)
LEMMA UpdateWhereType ==
    ASSUME NEW m \in MeetingIds, NEW from, NEW r \in MeetingRow,
           StoreTypeOK, UpdateWhere(m, from, r)
    PROVE  meetings' \in [MeetingIds -> MeetingRow]
  BY DEF StoreTypeOK, UpdateWhere

LEMMA SetRowsType ==
    ASSUME NEW m \in MeetingIds, NEW K, NEW s \in RowStatus,
           StoreTypeOK, SetRows(m, K, s)
    PROVE  endpoints' \in [MeetingIds -> [RowKeys -> RowStatus]]
  BY DEF StoreTypeOK, SetRows

LEMMA ReplaceRowsType ==
    ASSUME NEW m \in MeetingIds, NEW gone, NEW E,
           StoreTypeOK, ReplaceRows(m, gone, E)
    PROVE  endpoints' \in [MeetingIds -> [RowKeys -> RowStatus]]
  BY DEF StoreTypeOK, ReplaceRows, RowStatus, EndpointStatus

(* The rows of meetings that the jobs write.                               *)
LEMMA JobRowTypes ==
    ASSUME NEW m \in MeetingIds, StoreTypeOK, WorkerTypeOK
    PROVE  /\ \A s \in Over : EndedRow(m, s) \in MeetingRow
           /\ \A s \in Active, t \in Times : StartedRow(m, s, t) \in MeetingRow
           /\ \A s \in {"starting", "ending"} : ClaimedRow(m, s) \in MeetingRow
  <1>1. meetings[m] \in MeetingRow /\ w.cur \in Times
    BY DEF StoreTypeOK, WorkerTypeOK, WorkerState
  <1>2. \A s \in Over : EndedRow(m, s) \in MeetingRow
    BY <1>1 DEF MeetingRow, Stored, Over, EndedRow
  <1>3. \A s \in Active, t \in Times : StartedRow(m, s, t) \in MeetingRow
    BY <1>1 DEF MeetingRow, Stored, Active, StartedRow
  <1>4. \A s \in {"starting", "ending"} : ClaimedRow(m, s) \in MeetingRow
    BY <1>1 DEF MeetingRow, Stored, ClaimedRow
  <1> QED BY <1>2, <1>3, <1>4

(* The calls to Pexip keep the types of its state.                         *)
LEMMA PexipTypes ==
    ASSUME NEW m \in MeetingIds, NEW e \in Aliases, PexipTypeOK
    PROVE  /\ Dial(m, e) => PexipTypeOK'
           /\ Disconnect(m) => PexipTypeOK'
           /\ DisconnectOne(m, e) => PexipTypeOK'
  <1> USE PexipAssumption DEF PexipTypeOK
  <1>1. Dial(m, e) => PexipTypeOK'
    BY DEF Dial
  <1>2. Disconnect(m) => PexipTypeOK'
    BY DEF Disconnect
  <1>3. DisconnectOne(m, e) => PexipTypeOK'
    BY DEF DisconnectOne
  <1> QED BY <1>1, <1>2, <1>3

(* So do the worker's attempts, whether they fail or not.                  *)
LEMMA TryTypes ==
    ASSUME NEW m \in MeetingIds, PexipTypeOK
    PROVE  /\ \A ok \in BOOLEAN : TryDisconnect(m, ok) => PexipTypeOK'
           /\ \A k \in RowKeys, res \in {"dialed", "error"} : TryDial(m, k, res) => PexipTypeOK'
  <1> USE DEF PexipTypeOK, pexipVars
  <1>1. Disconnect(m) => PexipTypeOK'
    BY PexipAssumption DEF Disconnect
  <1>2. \A k \in RowKeys : k[1] \in Aliases
    BY DEF RowKeys
  <1>3. ASSUME NEW ok \in BOOLEAN, TryDisconnect(m, ok) PROVE PexipTypeOK'
    BY <1>1, <1>3 DEF TryDisconnect
  <1>4. ASSUME NEW k \in RowKeys, NEW res \in {"dialed", "error"}, TryDial(m, k, res) PROVE PexipTypeOK'
    BY <1>2, <1>4, PexipTypes DEF TryDial
  <1> QED BY <1>3, <1>4

----------------------------------------------------------------------------
(***************************************************************************)
(* The state of the worker keeps its type.                                 *)
(***************************************************************************)
LEMMA AtTypes ==
    ASSUME NEW p \in PCs
    PROVE  At(p) \in WorkerState /\ At(p).pc = p
  BY StoreAssumption DEF At, WorkerState, Times

LEMMA Frames ==
    /\ StoreTypeOK /\ UNCHANGED storeVars => StoreTypeOK'
    /\ PexipTypeOK /\ UNCHANGED pexipVars => PexipTypeOK'
    /\ WorkerTypeOK /\ UNCHANGED w => WorkerTypeOK'
    /\ ApiTypeOK /\ UNCHANGED web => ApiTypeOK'
  <1>1. StoreTypeOK /\ UNCHANGED storeVars => StoreTypeOK'
    BY DEF StoreTypeOK, storeVars
  <1>2. PexipTypeOK /\ UNCHANGED pexipVars => PexipTypeOK'
    BY DEF PexipTypeOK, pexipVars
  <1>3. WorkerTypeOK /\ UNCHANGED w => WorkerTypeOK'
    BY DEF WorkerTypeOK
  <1>4. ApiTypeOK /\ UNCHANGED web => ApiTypeOK'
    BY DEF ApiTypeOK
  <1> QED BY <1>1, <1>2, <1>3, <1>4

(* The steps of recover_stuck_meetings.                                    *)
LEMMA RecoverTypes ==
    ASSUME TypeOK, Recover
    PROVE  StoreTypeOK' /\ PexipTypeOK' /\ WorkerTypeOK'
  <1> DEFINE TypesNext == StoreTypeOK' /\ PexipTypeOK' /\ WorkerTypeOK'
  <1> USE DEF TypeOK
  <1>w. /\ w \in WorkerState
        /\ \A p \in {"recover", "recStarting", "recToken", "recLive", "recGiveUp", "recEp",
                    "recCommit", "recEnding", "recEndCommit", "expire"} : p \in PCs
    BY DEF WorkerTypeOK, PCs, RecoverAt, ExpireAt
  <1>1. CASE RecoverSelect
    BY <1>1, <1>w, AtTypes, Frames DEF RecoverSelect, WorkerTypeOK, WorkerState, Starting, Ending, Committing, Stuck, At, StoreTypeOK
  <1>2. CASE RecoverToken
    BY <1>2, <1>w, AtTypes, Frames DEF RecoverToken, WorkerTypeOK, WorkerState, Starting, Ending, Committing
  <1>3. CASE RecoverLive
    <2>1. RowsToRedial(w.m) \in SUBSET RowKeys
      BY DEF RowsToRedial, Rows
    <2>2. \A L \in Listings(w.m) : L \in SUBSET Aliases
      BY <1>3, <1>w DEF RecoverLive, Listings, Live, PexipTypeOK, WorkerTypeOK, Starting
    <2>3. CASE w' = [w EXCEPT !.pc = "recGiveUp"]
      BY <1>3, <1>w, <2>3, Frames DEF RecoverLive, WorkerTypeOK, WorkerState, Starting,
         Ending, Committing
    <2>4. ASSUME NEW L \in Listings(w.m),
                 w' = [w EXCEPT !.pc = "recEp", !.live = L, !.rows = RowsToRedial(w.m)]
          PROVE  TypesNext
      <3>1. w' \in WorkerState
        BY <1>w, <2>1, <2>2, <2>4 DEF WorkerState
      <3> QED
        BY <1>3, <1>w, <2>4, <3>1, Frames DEF RecoverLive, WorkerTypeOK, WorkerState,
           Starting, Committing
    <2> QED BY <1>3, <2>3, <2>4 DEF RecoverLive
  <1>4. CASE RecoverGiveUp
    <2>m. w.m \in MeetingIds /\ w.cur \in Times
      BY <1>4, <1>w DEF RecoverGiveUp, WorkerTypeOK, WorkerState, Starting, Ending, Committing
    <2>1. meetings' \in [MeetingIds -> MeetingRow]
      BY <1>4, <1>w, <2>m, UpdateWhereType, JobRowTypes DEF RecoverGiveUp, Active, Over
    <2>2. endpoints' \in [MeetingIds -> [RowKeys -> RowStatus]]
      BY <1>4 DEF RecoverGiveUp, StoreTypeOK
    <2>3. StoreTypeOK'
      BY <1>4, <2>1, <2>2 DEF RecoverGiveUp, StoreTypeOK
    <2>4. PexipTypeOK'
      BY <1>4, Frames DEF RecoverGiveUp
    <2>5. WorkerTypeOK'
      BY <1>4, <1>w, <2>m, AtTypes DEF RecoverGiveUp, WorkerTypeOK, WorkerState, Starting, Ending, Committing, NextCandidate, At
    <2> QED BY <2>3, <2>4, <2>5
  <1>5. CASE RecoverCommit
    <2>m. w.m \in MeetingIds /\ w.cur \in Times
      BY <1>5, <1>w DEF RecoverCommit, WorkerTypeOK, WorkerState, Starting, Ending, Committing
    <2>1. meetings' \in [MeetingIds -> MeetingRow]
      BY <1>5 DEF RecoverCommit, StoreTypeOK
    <2>2. endpoints' \in [MeetingIds -> [RowKeys -> RowStatus]]
      BY <1>5, <1>w, <2>m, SetRowsType DEF RecoverCommit, WorkerTypeOK, WorkerState, RowStatus, EndpointStatus
    <2>3. StoreTypeOK'
      BY <1>5, <2>1, <2>2 DEF RecoverCommit, StoreTypeOK
    <2>4. PexipTypeOK'
      BY <1>5, Frames DEF RecoverCommit
    <2>5. WorkerTypeOK'
      BY <1>5, <1>w, <2>m, AtTypes DEF RecoverCommit, WorkerTypeOK, WorkerState, Starting, Ending, Committing, Recorded
    <2> QED BY <2>3, <2>4, <2>5
  <1>6. CASE RecoverFinish
    <2>m. w.m \in MeetingIds /\ w.cur \in Times
      BY <1>6, <1>w DEF RecoverFinish, WorkerTypeOK, WorkerState, Starting, Ending, Committing
    <2>1. meetings' \in [MeetingIds -> MeetingRow]
      <3> DEFINE at == IF meetings[w.m].startedAt # Null
                       THEN meetings[w.m].startedAt ELSE w.cur
                 status == IF w.ok THEN "started" ELSE "started_with_errors"
      <3>1. at \in Times
        BY <2>m DEF StoreTypeOK, MeetingRow
      <3>2. status \in Active
        BY DEF Active
      <3>3. StartedRow(w.m, status, at) \in MeetingRow
        BY <2>m, <3>1, <3>2, JobRowTypes
      <3>4. UpdateWhere(w.m, {"starting"}, StartedRow(w.m, status, at))
        BY <1>6 DEF RecoverFinish
      <3> QED BY ONLY <2>m, <3>3, <3>4, UpdateWhereType, TypeOK DEF TypeOK
    <2>2. endpoints' \in [MeetingIds -> [RowKeys -> RowStatus]]
      BY <1>6 DEF RecoverFinish, StoreTypeOK
    <2>3. StoreTypeOK'
      BY <1>6, <2>1, <2>2 DEF RecoverFinish, StoreTypeOK
    <2>4. PexipTypeOK'
      BY <1>6, Frames DEF RecoverFinish
    <2>5. WorkerTypeOK'
      BY <1>6, <1>w, <2>m, AtTypes DEF RecoverFinish, WorkerTypeOK, WorkerState, Starting, Ending, Committing, NextCandidate, At
    <2> QED BY <2>3, <2>4, <2>5
  <1>7. CASE RecoverEndingSelect
    BY <1>7, <1>w, AtTypes, Frames DEF RecoverEndingSelect, WorkerTypeOK, WorkerState, Starting, Ending, Committing, Stuck, At
  <1>8. CASE RecoverEnded
    <2>m. w.m \in MeetingIds /\ w.cur \in Times
      BY <1>8, <1>w DEF RecoverEnded, WorkerTypeOK, WorkerState, Starting, Ending, Committing
    <2>1. meetings' \in [MeetingIds -> MeetingRow]
      BY <1>8, <1>w, <2>m, UpdateWhereType, JobRowTypes DEF RecoverEnded, Active, Over
    <2>2. endpoints' \in [MeetingIds -> [RowKeys -> RowStatus]]
      BY <1>8 DEF RecoverEnded, StoreTypeOK
    <2>3. StoreTypeOK'
      BY <1>8, <2>1, <2>2 DEF RecoverEnded, StoreTypeOK
    <2>4. PexipTypeOK'
      BY <1>8, Frames DEF RecoverEnded
    <2>5. WorkerTypeOK'
      BY <1>8, <1>w, <2>m, AtTypes DEF RecoverEnded, WorkerTypeOK, WorkerState, Starting, Ending, Committing, NextCandidate, At
    <2> QED BY <2>3, <2>4, <2>5
  <1>9. CASE RecoverDone
    BY <1>9, <1>w, AtTypes, Frames DEF RecoverDone, WorkerTypeOK, WorkerState, Starting, Ending, Committing, At
  <1>10. ASSUME NEW m \in MeetingIds, RecoverPast(m) PROVE TypesNext
    <2>m. m \in MeetingIds /\ w.cur \in Times
      BY <1>10, <1>w DEF RecoverPast, WorkerTypeOK, WorkerState, Starting, Ending, Committing
    <2>1. meetings' \in [MeetingIds -> MeetingRow]
      BY <1>10, <1>w, <2>m, UpdateWhereType, JobRowTypes DEF RecoverPast, Active, Over
    <2>2. endpoints' \in [MeetingIds -> [RowKeys -> RowStatus]]
      BY <1>10 DEF RecoverPast, StoreTypeOK
    <2>3. StoreTypeOK'
      BY <1>10, <2>1, <2>2 DEF RecoverPast, StoreTypeOK
    <2>4. PexipTypeOK'
      BY <1>10, Frames DEF RecoverPast
    <2>5. WorkerTypeOK'
      BY <1>10, <1>w, <2>m, AtTypes DEF RecoverPast, WorkerTypeOK, WorkerState, Starting, Ending, Committing, Skip
    <2> QED BY <2>3, <2>4, <2>5
  <1>11. ASSUME NEW m \in MeetingIds, RecoverBegin(m) PROVE TypesNext
    BY <1>11, <1>w, AtTypes, Frames DEF RecoverBegin, WorkerTypeOK, WorkerState, Starting, Ending, Committing, Begin
  <1>12. ASSUME NEW m \in MeetingIds, RecoverDisconnect(m) PROVE TypesNext
    <2>1. StoreTypeOK' /\ PexipTypeOK'
      BY <1>12, Frames, TryTypes DEF RecoverDisconnect
    <2>2. WorkerTypeOK'
      BY <1>12, <1>w DEF RecoverDisconnect, Begin, WorkerTypeOK, WorkerState, Starting, Ending, Committing
    <2> QED BY <2>1, <2>2
  <1>13. ASSUME NEW k \in RowKeys, RecoverSeen(k) PROVE TypesNext
    <2>m. w.m \in MeetingIds /\ w.cur \in Times
      BY <1>13, <1>w DEF RecoverSeen, WorkerTypeOK, WorkerState, Starting, Ending, Committing
    <2>1. meetings' \in [MeetingIds -> MeetingRow]
      BY <1>13 DEF RecoverSeen, StoreTypeOK
    <2>2. endpoints' \in [MeetingIds -> [RowKeys -> RowStatus]]
      BY <1>13, <1>w, <2>m, SetRowsType DEF RecoverSeen, WorkerTypeOK, WorkerState, RowStatus, EndpointStatus
    <2>3. StoreTypeOK'
      BY <1>13, <2>1, <2>2 DEF RecoverSeen, StoreTypeOK
    <2>4. PexipTypeOK'
      BY <1>13, Frames DEF RecoverSeen
    <2>5. WorkerTypeOK'
      BY <1>13, <1>w, <2>m, AtTypes DEF RecoverSeen, WorkerTypeOK, WorkerState, Starting, Ending, Committing
    <2> QED BY <2>3, <2>4, <2>5
  <1>14. ASSUME NEW k \in RowKeys, RecoverDial(k) PROVE TypesNext
    <2>1. StoreTypeOK' /\ PexipTypeOK'
      <3>1. w.m \in MeetingIds
        BY <1>14 DEF RecoverDial, WorkerTypeOK, Starting
      <3> QED BY <1>14, <3>1, Frames, TryTypes DEF RecoverDial
    <2>2. WorkerTypeOK'
      BY <1>14, <1>w DEF RecoverDial, WorkerTypeOK, WorkerState, Starting, Ending, Committing
    <2> QED BY <2>1, <2>2
  <1> QED
    BY <1>1, <1>2, <1>3, <1>4, <1>5, <1>6, <1>7, <1>8, <1>9, <1>10, <1>11, <1>12, <1>13, <1>14
    DEF Recover

(* The steps of expire_missed_meetings.                                    *)
LEMMA ExpireTypes ==
    ASSUME TypeOK, Expire
    PROVE  StoreTypeOK' /\ PexipTypeOK' /\ WorkerTypeOK'
  <1> DEFINE TypesNext == StoreTypeOK' /\ PexipTypeOK' /\ WorkerTypeOK'
  <1> USE DEF TypeOK
  <1>w. /\ w \in WorkerState
        /\ \A p \in {"expire", "expLoop", "end"} : p \in PCs
    BY DEF WorkerTypeOK, PCs, RecoverAt, ExpireAt, EndAt, StartAt
  <1>1. CASE ExpireSelect
    BY <1>1, <1>w, AtTypes, Frames DEF ExpireSelect, WorkerTypeOK, WorkerState, Starting, Ending, Committing, At, StoreTypeOK
  <1>2. CASE ExpireDone
    BY <1>2, <1>w, AtTypes, Frames DEF ExpireDone, WorkerTypeOK, WorkerState, Starting, Ending, Committing, At
  <1>3. ASSUME NEW m \in MeetingIds, ExpireOne(m) PROVE TypesNext
    <2>m. m \in MeetingIds /\ w.cur \in Times
      BY <1>3, <1>w DEF ExpireOne, WorkerTypeOK, WorkerState, Starting, Ending, Committing
    <2>1. meetings' \in [MeetingIds -> MeetingRow]
      BY <1>3, <1>w, <2>m, UpdateWhereType, JobRowTypes DEF ExpireOne, Active, Over
    <2>2. endpoints' \in [MeetingIds -> [RowKeys -> RowStatus]]
      BY <1>3 DEF ExpireOne, StoreTypeOK
    <2>3. StoreTypeOK'
      BY <1>3, <2>1, <2>2 DEF ExpireOne, StoreTypeOK
    <2>4. PexipTypeOK'
      BY <1>3, Frames DEF ExpireOne
    <2>5. WorkerTypeOK'
      BY <1>3, <1>w, <2>m, AtTypes DEF ExpireOne, WorkerTypeOK, WorkerState, Starting, Ending, Committing, Skip
    <2> QED BY <2>3, <2>4, <2>5
  <1> QED
    BY <1>1, <1>2, <1>3 DEF Expire

(* The steps of end_due_meetings.                                          *)
LEMMA EndTypes ==
    ASSUME TypeOK, End
    PROVE  StoreTypeOK' /\ PexipTypeOK' /\ WorkerTypeOK'
  <1> DEFINE TypesNext == StoreTypeOK' /\ PexipTypeOK' /\ WorkerTypeOK'
  <1> USE DEF TypeOK
  <1>w. /\ w \in WorkerState
        /\ \A p \in {"end", "endLoop", "endCall", "endCommit", "start"} : p \in PCs
    BY DEF WorkerTypeOK, PCs, RecoverAt, ExpireAt, EndAt, StartAt
  <1>1. CASE EndSelect
    BY <1>1, <1>w, AtTypes, Frames DEF EndSelect, WorkerTypeOK, WorkerState, Starting, Ending, Committing, At, StoreTypeOK, EndDue
  <1>2. CASE EndDisconnect
    <2>1. StoreTypeOK' /\ PexipTypeOK'
      BY <1>2, Frames, TryTypes DEF EndDisconnect, WorkerTypeOK, Ending
    <2>2. WorkerTypeOK'
      BY <1>2, <1>w DEF EndDisconnect, WorkerTypeOK, WorkerState, Starting, Ending, Committing
    <2> QED BY <2>1, <2>2
  <1>3. CASE EndCommit
    <2>m. w.m \in MeetingIds /\ w.cur \in Times
      BY <1>3, <1>w DEF EndCommit, WorkerTypeOK, WorkerState, Starting, Ending, Committing
    <2>1. meetings' \in [MeetingIds -> MeetingRow]
      BY <1>3, <1>w, <2>m, UpdateWhereType, JobRowTypes DEF EndCommit, Active, Over
    <2>2. endpoints' \in [MeetingIds -> [RowKeys -> RowStatus]]
      BY <1>3, <1>w, <2>m, SetRowsType DEF EndCommit, WorkerTypeOK, WorkerState, RowStatus,
         EndpointStatus
    <2>3. StoreTypeOK'
      BY <1>3, <2>1, <2>2 DEF EndCommit, StoreTypeOK
    <2>4. PexipTypeOK'
      BY <1>3, Frames DEF EndCommit
    <2>5. WorkerTypeOK'
      BY <1>3, <1>w, <2>m, AtTypes DEF EndCommit, WorkerTypeOK, WorkerState, Starting, Ending, Committing, NextCandidate, At
    <2> QED BY <2>3, <2>4, <2>5
  <1>4. CASE EndDone
    BY <1>4, <1>w, AtTypes, Frames DEF EndDone, WorkerTypeOK, WorkerState, Starting, Ending, Committing, At
  <1>5. ASSUME NEW m \in MeetingIds, EndClaim(m) PROVE TypesNext
    <2>m. m \in MeetingIds /\ w.cur \in Times
      BY <1>5, <1>w DEF EndClaim, WorkerTypeOK, WorkerState, Starting, Ending, Committing
    <2>1. meetings' \in [MeetingIds -> MeetingRow]
      BY <1>5, <1>w, <2>m, UpdateWhereType, JobRowTypes DEF EndClaim, Active, Over, StoreTypeOK
    <2>2. endpoints' \in [MeetingIds -> [RowKeys -> RowStatus]]
      BY <1>5 DEF EndClaim, StoreTypeOK
    <2>3. StoreTypeOK'
      BY <1>5, <2>1, <2>2 DEF EndClaim, StoreTypeOK
    <2>4. PexipTypeOK'
      BY <1>5, Frames DEF EndClaim
    <2>5. WorkerTypeOK'
      <3>1. CASE w' = Begin(m, "endCall")
        BY <1>w, <3>1 DEF WorkerTypeOK, WorkerState, Starting, Ending, Committing, Begin
      <3>2. CASE w' = Skip(m)
        BY <1>5, <1>w, <3>2 DEF EndClaim, WorkerTypeOK, WorkerState, Starting, Ending,
           Committing, Skip
      <3> QED BY <1>5, <3>1, <3>2 DEF EndClaim
    <2> QED BY <2>3, <2>4, <2>5
  <1> QED
    BY <1>1, <1>2, <1>3, <1>4, <1>5 DEF End

(* The steps of start_due_meetings.                                        *)
LEMMA StartTypes ==
    ASSUME TypeOK, Start
    PROVE  StoreTypeOK' /\ PexipTypeOK' /\ WorkerTypeOK'
  <1> DEFINE TypesNext == StoreTypeOK' /\ PexipTypeOK' /\ WorkerTypeOK'
  <1> USE DEF TypeOK
  <1>w. /\ w \in WorkerState
        /\ \A p \in {"start", "startLoop", "startToken", "startEp", "startCommit", "idle"} : p \in PCs
    BY DEF WorkerTypeOK, PCs, RecoverAt, ExpireAt, EndAt, StartAt
  <1>1. CASE StartSelect
    BY <1>1, <1>w, AtTypes, Frames DEF StartSelect, WorkerTypeOK, WorkerState, Starting, Ending, Committing, At, StoreTypeOK, StartDue
  <1>2. CASE StartToken
    <2>1. Rows(w.m) \in SUBSET RowKeys
      BY DEF Rows
    <2>2. PICK ok \in BOOLEAN : w' = [w EXCEPT !.pc = "startEp", !.ok = ok,
                                               !.rows = IF ok THEN Rows(w.m) ELSE {}]
      BY <1>2 DEF StartToken
    <2>3. w' \in WorkerState
      BY <1>w, <2>1, <2>2 DEF WorkerState
    <2> QED
      BY <1>2, <1>w, <2>2, <2>3, Frames DEF StartToken, WorkerTypeOK, WorkerState, Starting,
         Committing
  <1>3. CASE StartCommit
    <2>m. w.m \in MeetingIds /\ w.cur \in Times
      BY <1>3, <1>w DEF StartCommit, WorkerTypeOK, WorkerState, Starting, Ending, Committing
    <2>1. meetings' \in [MeetingIds -> MeetingRow]
      BY <1>3 DEF StartCommit, StoreTypeOK
    <2>2. endpoints' \in [MeetingIds -> [RowKeys -> RowStatus]]
      BY <1>3, <1>w, <2>m, SetRowsType DEF StartCommit, WorkerTypeOK, WorkerState, RowStatus,
         EndpointStatus
    <2>3. StoreTypeOK'
      BY <1>3, <2>1, <2>2 DEF StartCommit, StoreTypeOK
    <2>4. PexipTypeOK'
      BY <1>3, Frames DEF StartCommit
    <2>5. WorkerTypeOK'
      BY <1>3, <1>w, <2>m, AtTypes DEF StartCommit, WorkerTypeOK, WorkerState, Starting, Ending, Committing, Recorded
    <2> QED BY <2>3, <2>4, <2>5
  <1>4. CASE StartFinish
    <2>m. w.m \in MeetingIds /\ w.cur \in Times
      BY <1>4, <1>w DEF StartFinish, WorkerTypeOK, WorkerState, Starting, Ending, Committing
    <2>1. meetings' \in [MeetingIds -> MeetingRow]
      BY <1>4, <1>w, <2>m, UpdateWhereType, JobRowTypes DEF StartFinish, Active, Over
    <2>2. endpoints' \in [MeetingIds -> [RowKeys -> RowStatus]]
      BY <1>4 DEF StartFinish, StoreTypeOK
    <2>3. StoreTypeOK'
      BY <1>4, <2>1, <2>2 DEF StartFinish, StoreTypeOK
    <2>4. PexipTypeOK'
      BY <1>4, Frames DEF StartFinish
    <2>5. WorkerTypeOK'
      BY <1>4, <1>w, <2>m, AtTypes DEF StartFinish, WorkerTypeOK, WorkerState, Starting, Ending, Committing, NextCandidate, At
    <2> QED BY <2>3, <2>4, <2>5
  <1>5. CASE StartDone
    BY <1>5, <1>w, AtTypes, Frames DEF StartDone, WorkerTypeOK, WorkerState, Starting, Ending, Committing, At
  <1>6. ASSUME NEW m \in MeetingIds, StartClaim(m) PROVE TypesNext
    <2>m. m \in MeetingIds /\ w.cur \in Times
      BY <1>6, <1>w DEF StartClaim, WorkerTypeOK, WorkerState, Starting, Ending, Committing
    <2>1. meetings' \in [MeetingIds -> MeetingRow]
      BY <1>6, <1>w, <2>m, UpdateWhereType, JobRowTypes DEF StartClaim, Active, Over, StoreTypeOK
    <2>2. endpoints' \in [MeetingIds -> [RowKeys -> RowStatus]]
      BY <1>6 DEF StartClaim, StoreTypeOK
    <2>3. StoreTypeOK'
      BY <1>6, <2>1, <2>2 DEF StartClaim, StoreTypeOK
    <2>4. PexipTypeOK'
      BY <1>6, Frames DEF StartClaim
    <2>5. WorkerTypeOK'
      <3>1. CASE w' = Begin(m, "startToken")
        BY <1>w, <3>1 DEF WorkerTypeOK, WorkerState, Starting, Ending, Committing, Begin
      <3>2. CASE w' = Skip(m)
        BY <1>6, <1>w, <3>2 DEF StartClaim, WorkerTypeOK, WorkerState, Starting, Ending,
           Committing, Skip
      <3> QED BY <1>6, <3>1, <3>2 DEF StartClaim
    <2> QED BY <2>3, <2>4, <2>5
  <1>7. ASSUME NEW k \in RowKeys, StartDial(k) PROVE TypesNext
    <2>1. StoreTypeOK' /\ PexipTypeOK'
      <3>1. w.m \in MeetingIds
        BY <1>7 DEF StartDial, WorkerTypeOK, Starting
      <3> QED BY <1>7, <3>1, Frames, TryTypes DEF StartDial
    <2>2. WorkerTypeOK'
      <3>1. w' \in WorkerState
        BY <1>7, <1>w DEF StartDial, WorkerState
      <3>2. w'.pc = "startCommit" /\ w'.m = w.m /\ w'.row = k
        BY <1>7, <1>w DEF StartDial, WorkerState
      <3> QED
        BY <1>7, <3>1, <3>2 DEF StartDial, WorkerTypeOK, Starting, Ending, Committing
    <2> QED BY <2>1, <2>2
  <1> QED
    BY <1>1, <1>2, <1>3, <1>4, <1>5, <1>6, <1>7 DEF Start

(* Crashes and the locked database.                                        *)
LEMMA FaultyTypes ==
    ASSUME TypeOK, Faulty
    PROVE  StoreTypeOK' /\ PexipTypeOK' /\ WorkerTypeOK'
  <1> DEFINE TypesNext == StoreTypeOK' /\ PexipTypeOK' /\ WorkerTypeOK'
  <1> USE DEF TypeOK
  <1>w. /\ w \in WorkerState
        /\ \A p \in {"down", "idle", "expire", "end", "start", "recEp", "startEp", "recEnding"} : p \in PCs
    BY DEF WorkerTypeOK, PCs, RecoverAt, ExpireAt, EndAt, StartAt
  <1>1. CASE LockedJob
    <2>1. StoreTypeOK' /\ PexipTypeOK'
      BY <1>1, Frames, StoreAssumption DEF LockedJob, Fault, StoreTypeOK
    <2>2. NextJob \in {"expire", "end", "start", "idle"}
      BY <1>1, <1>w DEF NextJob
    <2>3. WorkerTypeOK'
      BY <1>1, <1>w, <2>2, AtTypes DEF LockedJob, WorkerTypeOK, Starting, Ending, Committing
    <2> QED BY <2>1, <2>3
  <1>2. CASE LockedDial
    <2>m. w.m \in MeetingIds /\ w.cur \in Times
      BY <1>2, <1>w DEF LockedDial, WorkerTypeOK, WorkerState, Starting, Ending, Committing
    <2>1. meetings' \in [MeetingIds -> MeetingRow]
      BY <1>2 DEF LockedDial, StoreTypeOK
    <2>2. endpoints' \in [MeetingIds -> [RowKeys -> RowStatus]]
      BY <1>2, <1>w, <2>m, SetRowsType DEF LockedDial, WorkerTypeOK, WorkerState, RowStatus,
         EndpointStatus
    <2>3. StoreTypeOK'
      BY <1>2, <2>1, <2>2, StoreAssumption DEF LockedDial, StoreTypeOK, Fault
    <2>4. PexipTypeOK'
      BY <1>2, Frames DEF LockedDial
    <2>5. WorkerTypeOK'
      BY <1>2, <1>w, <2>m, AtTypes DEF LockedDial, WorkerTypeOK, WorkerState, Starting, Ending, Committing, Recorded
    <2> QED BY <2>3, <2>4, <2>5
  <1>3. CASE LockedStart
    <2>1. StoreTypeOK' /\ PexipTypeOK'
      BY <1>3, Frames, StoreAssumption DEF LockedStart, Fault, StoreTypeOK
    <2>2. WorkerTypeOK'
      BY <1>3, <1>w DEF LockedStart, Recorded, WorkerTypeOK, WorkerState, Starting, Ending, Committing
    <2> QED BY <2>1, <2>2
  <1>4. CASE LockedEnded
    <2>m. w.m \in MeetingIds /\ w.cur \in Times
      BY <1>4, <1>w DEF LockedEnded, WorkerTypeOK, WorkerState, Starting, Ending, Committing
    <2>1. meetings' \in [MeetingIds -> MeetingRow]
      BY <1>4, <1>w, <2>m, UpdateWhereType, JobRowTypes DEF LockedEnded, Active, Over
    <2>2. endpoints' \in [MeetingIds -> [RowKeys -> RowStatus]]
      BY <1>4 DEF LockedEnded, StoreTypeOK
    <2>3. StoreTypeOK'
      BY <1>4, <2>1, <2>2, StoreAssumption DEF LockedEnded, StoreTypeOK, Fault
    <2>4. PexipTypeOK'
      BY <1>4, Frames DEF LockedEnded
    <2>5. WorkerTypeOK'
      BY <1>4, <1>w, <2>m, AtTypes DEF LockedEnded, WorkerTypeOK, WorkerState, Starting, Ending, Committing, NextCandidate, At
    <2> QED BY <2>3, <2>4, <2>5
  <1>5. CASE Crash
    <2>1. StoreTypeOK' /\ PexipTypeOK'
      BY <1>5, Frames, StoreAssumption DEF Crash, Fault, StoreTypeOK
    <2>2. WorkerTypeOK'
      BY <1>5, <1>w, AtTypes DEF Crash, WorkerTypeOK, Starting, Ending, Committing
    <2> QED BY <2>1, <2>2
  <1>6. ASSUME NEW k \in RowKeys, LockedSeen(k) PROVE TypesNext
    <2>m. w.m \in MeetingIds /\ w.cur \in Times
      BY <1>6, <1>w DEF LockedSeen, WorkerTypeOK, WorkerState, Starting, Ending, Committing
    <2>1. meetings' \in [MeetingIds -> MeetingRow]
      BY <1>6 DEF LockedSeen, StoreTypeOK
    <2>2. endpoints' \in [MeetingIds -> [RowKeys -> RowStatus]]
      BY <1>6, <1>w, <2>m, SetRowsType DEF LockedSeen, WorkerTypeOK, WorkerState, RowStatus,
         EndpointStatus
    <2>3. StoreTypeOK'
      BY <1>6, <2>1, <2>2, StoreAssumption DEF LockedSeen, StoreTypeOK, Fault
    <2>4. PexipTypeOK'
      BY <1>6, Frames DEF LockedSeen
    <2>5. WorkerTypeOK'
      BY <1>6, <1>w, <2>m, AtTypes DEF LockedSeen, WorkerTypeOK, WorkerState, Starting, Ending, Committing
    <2> QED BY <2>3, <2>4, <2>5
  <1> QED
    BY <1>1, <1>2, <1>3, <1>4, <1>5, <1>6 DEF Faulty

LEMMA WorkerTypes ==
    ASSUME TypeOK, WorkerStep, UNCHANGED web
    PROVE  TypeOK'
  <1>1. "recover" \in PCs /\ "idle" \in PCs
    BY DEF PCs, RecoverAt
  <1>2. CASE BeginTick
    BY <1>1, <1>2, AtTypes, Frames DEF TypeOK, BeginTick, WorkerTypeOK, Starting, Ending,
       Committing
  <1>3. CASE Restart
    BY <1>1, <1>3, AtTypes, Frames DEF TypeOK, Restart, WorkerTypeOK, Starting, Ending,
       Committing
  <1> QED
    BY <1>2, <1>3, RecoverTypes, ExpireTypes, EndTypes, StartTypes, FaultyTypes, Frames
    DEF TypeOK, WorkerStep, WorkerRuns

----------------------------------------------------------------------------
(***************************************************************************)
(* The requests of the web process keep the types.                         *)
(***************************************************************************)
(* Requests that are one transaction.                                      *)
LEMMA ManageTypes ==
    ASSUME TypeOK, Manage
    PROVE  StoreTypeOK' /\ PexipTypeOK' /\ ApiTypeOK'
  <1> DEFINE TypesNext == StoreTypeOK' /\ PexipTypeOK' /\ ApiTypeOK'
  <1> USE DEF TypeOK
  <1>1. ASSUME NEW m \in MeetingIds, NEW slot \in Slots, NEW E \in SUBSET Aliases, CreateMeeting(m, slot, E) PROVE TypesNext
    <2>1. meetings' \in [MeetingIds -> MeetingRow]
      BY <1>1, ApiAssumption DEF CreateMeeting, StoreTypeOK, MeetingRow, Stored, Times, Null, UnusedMeeting
    <2>2. endpoints' \in [MeetingIds -> [RowKeys -> RowStatus]]
      BY <1>1, ReplaceRowsType DEF CreateMeeting, RowStatus, EndpointStatus, DeleteRows
    <2>3. StoreTypeOK'
      BY <1>1, <2>1, <2>2 DEF CreateMeeting, StoreTypeOK
    <2> QED BY <1>1, <2>3, Frames DEF CreateMeeting
  <1>2. ASSUME NEW m \in MeetingIds, DeleteMeeting(m) PROVE TypesNext
    <2>1. meetings' \in [MeetingIds -> MeetingRow]
      BY <1>2, StoreAssumption DEF DeleteMeeting, StoreTypeOK, MeetingRow, Stored, Times, Null, UnusedMeeting
    <2>2. endpoints' \in [MeetingIds -> [RowKeys -> RowStatus]]
      BY <1>2, SetRowsType DEF DeleteMeeting, RowStatus, EndpointStatus, DeleteRows
    <2>3. StoreTypeOK'
      BY <1>2, <2>1, <2>2 DEF DeleteMeeting, StoreTypeOK
    <2> QED BY <1>2, <2>3, Frames DEF DeleteMeeting
  <1>3. ASSUME NEW m \in MeetingIds, NEW E \in SUBSET Aliases, UpdateMeeting(m, E) PROVE TypesNext
    <2>1. meetings' \in [MeetingIds -> MeetingRow]
      <3>1. [meetings[m] EXCEPT !.updatedAt = now] \in MeetingRow
        BY DEF StoreTypeOK, MeetingRow
      <3>2. meetings' = [meetings EXCEPT ![m] = [meetings[m] EXCEPT !.updatedAt = now]]
        BY <1>3 DEF UpdateMeeting
      <3> QED BY <3>1, <3>2 DEF StoreTypeOK
    <2>2. endpoints' \in [MeetingIds -> [RowKeys -> RowStatus]]
      BY <1>3, ReplaceRowsType DEF UpdateMeeting, RowStatus, EndpointStatus, DeleteRows
    <2>3. StoreTypeOK'
      BY <1>3, <2>1, <2>2 DEF UpdateMeeting, StoreTypeOK
    <2> QED BY <1>3, <2>3, Frames DEF UpdateMeeting
  <1> QED
    BY <1>1, <1>2, <1>3 DEF Manage

LEMMA ZeroTime == 0 \in Times
  BY StoreAssumption DEF Times

(* A thread takes a new state.                                             *)
LEMMA ThreadTypes ==
    ASSUME ApiTypeOK, NEW t \in Threads, NEW r \in ThreadState, WellFormed(r),
           web' = [web EXCEPT ![t] = r]
    PROVE  ApiTypeOK'
  BY DEF ApiTypeOK, WellFormed

LEMMA ReplyTypes ==
    ASSUME ApiTypeOK, NEW t \in Threads, Reply(t)
    PROVE  ApiTypeOK'
  <1>1. Free \in ThreadState /\ WellFormed(Free)
    BY StoreAssumption DEF Free, ThreadState, WellFormed, OnEndpoint, Times
  <1> QED BY <1>1, ThreadTypes DEF Reply

LEMMA GotoTypes ==
    ASSUME ApiTypeOK, NEW t \in Threads, web[t].pc \in OnEndpoint,
           NEW p \in OnEndpoint, Goto(t, p)
    PROVE  ApiTypeOK'
  <1> DEFINE r == [web[t] EXCEPT !.pc = p]
  <1>1. r \in ThreadState /\ WellFormed(r)
    BY DEF ApiTypeOK, ThreadState, WellFormed, OnEndpoint
  <1> QED BY <1>1, ThreadTypes DEF Goto

(* What edit and extend write into a row of meetings.                      *)
SameColumns(r, s) ==
    s.status = r.status /\ s.startedAt = r.startedAt /\ s.endedAt = r.endedAt

LEMMA EditedRow ==
    ASSUME NEW r \in MeetingRow, NEW a \in Times, NEW b \in Times, NEW c \in Times
    PROVE  /\ [r EXCEPT !.end = b, !.updatedAt = c] \in MeetingRow
           /\ SameColumns(r, [r EXCEPT !.end = b, !.updatedAt = c])
           /\ [r EXCEPT !.start = a, !.end = b, !.updatedAt = c] \in MeetingRow
           /\ SameColumns(r, [r EXCEPT !.start = a, !.end = b, !.updatedAt = c])
  BY DEF MeetingRow, SameColumns

(* edit and extend.                                                        *)
LEMMA EditTypes ==
    ASSUME TypeOK, NEW t \in Threads, Edit(t)
    PROVE  StoreTypeOK' /\ PexipTypeOK' /\ ApiTypeOK'
  <1> DEFINE TypesNext == StoreTypeOK' /\ PexipTypeOK' /\ ApiTypeOK'
  <1> USE DEF TypeOK
  <1>1. ASSUME NEW m \in MeetingIds, EditRead(t, m) PROVE TypesNext
    <2>1. StoreTypeOK' /\ PexipTypeOK'
      BY <1>1, Frames DEF EditRead
    <2>2. ApiTypeOK'
      <3>1. CASE meetings[m].status = "scheduled"
        <4> DEFINE r == [Read("editWrite", m) EXCEPT !.at = now]
        <4>1. r \in ThreadState /\ WellFormed(r)
          BY ZeroTime DEF Read, Free, ThreadState, WellFormed, OnEndpoint, StoreTypeOK
        <4> QED BY <1>1, <3>1, <4>1, ThreadTypes DEF EditRead
      <3>2. CASE meetings[m].status # "scheduled"
        <4> DEFINE r(end) == [Read("editWrite", m) EXCEPT !.at = now, !.active = TRUE,
                                                          !.end = end]
        <4>1. \A end \in Times : r(end) \in ThreadState /\ WellFormed(r(end))
          BY DEF Read, Free, ThreadState, WellFormed, OnEndpoint, StoreTypeOK
        <4> QED BY <1>1, <3>2, <4>1, ThreadTypes DEF EditRead
      <3> QED BY <3>1, <3>2
    <2> QED BY <2>1, <2>2
  <1>2. ASSUME NEW slot \in Slots, NEW E \in SUBSET Aliases, EditScheduled(t, slot, E) PROVE TypesNext
    <2>m. web[t] \in ThreadState /\ web[t].m \in MeetingIds
      BY <1>2 DEF EditScheduled, ApiTypeOK, WellFormed, OnEndpoint
    <2>1. meetings' \in [MeetingIds -> MeetingRow]
      <3>1. slot[1] \in Times /\ slot[2] \in Times
        BY <1>2, ApiAssumption
      <3>2. meetings[web[t].m] \in MeetingRow /\ web[t].at \in Times
        BY <2>m DEF StoreTypeOK, ThreadState
      <3>3. [meetings[web[t].m] EXCEPT !.start = slot[1], !.end = slot[2],
                                       !.updatedAt = web[t].at] \in MeetingRow
        BY <3>1, <3>2, EditedRow
      <3> QED BY <1>2, <2>m, <3>3 DEF EditScheduled, StoreTypeOK
    <2>2. endpoints' \in [MeetingIds -> [RowKeys -> RowStatus]]
      BY <1>2, <2>m, ReplaceRowsType DEF EditScheduled, RowStatus, EndpointStatus, DeleteRows
    <2>3. StoreTypeOK'
      BY <1>2, <2>1, <2>2 DEF EditScheduled, StoreTypeOK
    <2>4. PexipTypeOK'
      BY <1>2, Frames DEF EditScheduled
    <2>5. ApiTypeOK'
      BY <1>2, ReplyTypes DEF EditScheduled
    <2> QED BY <2>3, <2>4, <2>5
  <1>3. CASE EditActive(t)
    <2>m. web[t] \in ThreadState /\ web[t].m \in MeetingIds
      BY <1>3 DEF EditActive, ApiTypeOK, WellFormed, OnEndpoint
    <2>1. meetings' \in [MeetingIds -> MeetingRow]
      <3>2. /\ meetings[web[t].m] \in MeetingRow
            /\ web[t].at \in Times /\ web[t].end \in Times
        BY <2>m DEF StoreTypeOK, ThreadState
      <3>1. [meetings[web[t].m] EXCEPT !.end = web[t].end, !.updatedAt = web[t].at]
                \in MeetingRow
        BY <3>2, EditedRow
      <3> QED BY <1>3, <2>m, <3>1 DEF EditActive, StoreTypeOK
    <2>2. endpoints' \in [MeetingIds -> [RowKeys -> RowStatus]]
      BY <1>3 DEF EditActive, StoreTypeOK
    <2>3. StoreTypeOK'
      BY <1>3, <2>1, <2>2 DEF EditActive, StoreTypeOK
    <2>4. PexipTypeOK'
      BY <1>3, Frames DEF EditActive
    <2>5. ApiTypeOK'
      BY <1>3, ReplyTypes DEF EditActive
    <2> QED BY <2>3, <2>4, <2>5
  <1>4. ASSUME NEW m \in MeetingIds, NEW d \in Minutes, ExtendRead(t, m, d) PROVE TypesNext
    <2>1. StoreTypeOK' /\ PexipTypeOK'
      BY <1>4, Frames DEF ExtendRead
    <2>2. ApiTypeOK'
      <3> DEFINE r == [Read("extendWrite", m) EXCEPT !.at = now, !.end = meetings[m].end + d]
      <3>1. r \in ThreadState /\ WellFormed(r)
        BY <1>4, ZeroTime DEF ExtendRead, Read, Free, ThreadState, WellFormed, OnEndpoint,
           StoreTypeOK, RowKeys
      <3> QED BY <1>4, <3>1, ThreadTypes DEF ExtendRead
    <2> QED BY <2>1, <2>2
  <1>5. CASE ExtendWrite(t)
    <2>m. web[t] \in ThreadState /\ web[t].m \in MeetingIds
      BY <1>5 DEF ExtendWrite, ApiTypeOK, WellFormed, OnEndpoint
    <2>1. meetings' \in [MeetingIds -> MeetingRow]
      <3>2. /\ meetings[web[t].m] \in MeetingRow
            /\ web[t].at \in Times /\ web[t].end \in Times
        BY <2>m DEF StoreTypeOK, ThreadState
      <3>1. [meetings[web[t].m] EXCEPT !.end = web[t].end, !.updatedAt = web[t].at]
                \in MeetingRow
        BY <3>2, EditedRow
      <3> QED BY <1>5, <2>m, <3>1 DEF ExtendWrite, StoreTypeOK
    <2>2. endpoints' \in [MeetingIds -> [RowKeys -> RowStatus]]
      BY <1>5 DEF ExtendWrite, StoreTypeOK
    <2>3. StoreTypeOK'
      BY <1>5, <2>1, <2>2 DEF ExtendWrite, StoreTypeOK
    <2>4. PexipTypeOK'
      BY <1>5, Frames DEF ExtendWrite
    <2>5. ApiTypeOK'
      BY <1>5, ReplyTypes DEF ExtendWrite
    <2> QED BY <2>3, <2>4, <2>5
  <1> QED
    BY <1>1, <1>2, <1>3, <1>4, <1>5 DEF Edit

(* redial_endpoint.                                                        *)
LEMMA RedialTypes ==
    ASSUME TypeOK, NEW t \in Threads, Redial(t)
    PROVE  StoreTypeOK' /\ PexipTypeOK' /\ ApiTypeOK'
  <1> DEFINE TypesNext == StoreTypeOK' /\ PexipTypeOK' /\ ApiTypeOK'
  <1> USE DEF TypeOK
  <1>1. ASSUME NEW m \in MeetingIds, NEW k \in RowKeys, RedialRead(t, m, k) PROVE TypesNext
    <2>1. StoreTypeOK' /\ PexipTypeOK'
      BY <1>1, Frames DEF RedialRead
    <2>2. ApiTypeOK'
      <3> DEFINE r == [Read("redialCall", m) EXCEPT !.e = k[1], !.row = k]
      <3>1. r \in ThreadState /\ WellFormed(r)
        BY <1>1, ZeroTime DEF RedialRead, Read, Free, ThreadState, WellFormed, OnEndpoint,
           StoreTypeOK, RowKeys
      <3> QED BY <1>1, <3>1, ThreadTypes DEF RedialRead
    <2> QED BY <2>1, <2>2
  <1>2. CASE RedialCall(t)
    <2>m. web[t] \in ThreadState /\ web[t].m \in MeetingIds /\ web[t].e \in Aliases
      BY <1>2 DEF RedialCall, ApiTypeOK, WellFormed, OnEndpoint
    <2>1. StoreTypeOK' /\ PexipTypeOK'
      BY <1>2, <2>m, Frames, PexipTypes DEF RedialCall
    <2>2. ApiTypeOK'
      BY <1>2, GotoTypes DEF RedialCall, OnEndpoint
    <2> QED BY <2>1, <2>2
  <1>3. CASE RedialWrite(t)
    <2>m. web[t] \in ThreadState /\ web[t].m \in MeetingIds
      BY <1>3 DEF RedialWrite, ApiTypeOK, WellFormed, OnEndpoint
    <2>1. meetings' \in [MeetingIds -> MeetingRow]
      BY <1>3 DEF RedialWrite, StoreTypeOK
    <2>2. endpoints' \in [MeetingIds -> [RowKeys -> RowStatus]]
      BY <1>3, <2>m, SetRowsType DEF RedialWrite, RowStatus, EndpointStatus, DeleteRows
    <2>3. StoreTypeOK'
      BY <1>3, <2>1, <2>2 DEF RedialWrite, StoreTypeOK
    <2>4. PexipTypeOK'
      BY <1>3, Frames DEF RedialWrite
    <2>5. ApiTypeOK'
      BY <1>3, ReplyTypes DEF RedialWrite
    <2> QED BY <2>3, <2>4, <2>5
  <1> QED
    BY <1>1, <1>2, <1>3 DEF Redial

(* add_endpoint.                                                           *)
LEMMA AddTypes ==
    ASSUME TypeOK, NEW t \in Threads, Add(t)
    PROVE  StoreTypeOK' /\ PexipTypeOK' /\ ApiTypeOK'
  <1> DEFINE TypesNext == StoreTypeOK' /\ PexipTypeOK' /\ ApiTypeOK'
  <1> USE DEF TypeOK
  <1>1. ASSUME NEW m \in MeetingIds, NEW e \in Aliases, AddRead(t, m, e) PROVE TypesNext
    <2>1. StoreTypeOK' /\ PexipTypeOK'
      BY <1>1, Frames DEF AddRead
    <2>2. ApiTypeOK'
      <3> DEFINE r == [Read("addInsert", m) EXCEPT !.e = e]
      <3>1. r \in ThreadState /\ WellFormed(r)
        BY <1>1, ZeroTime DEF AddRead, Read, Free, ThreadState, WellFormed, OnEndpoint,
           StoreTypeOK, RowKeys
      <3> QED BY <1>1, <3>1, ThreadTypes DEF AddRead
    <2> QED BY <2>1, <2>2
  <1>2. CASE AddInsert(t)
    <2>m. web[t] \in ThreadState /\ web[t].m \in MeetingIds /\ web[t].e \in Aliases
      BY <1>2 DEF AddInsert, ApiTypeOK, WellFormed, OnEndpoint
    <2>1. meetings' \in [MeetingIds -> MeetingRow]
      BY <1>2 DEF AddInsert, StoreTypeOK
    <2>2. endpoints' \in [MeetingIds -> [RowKeys -> RowStatus]]
      BY <1>2, <2>m, ReplaceRowsType DEF AddInsert, RowStatus, EndpointStatus, DeleteRows
    <2>3. StoreTypeOK'
      BY <1>2, <2>1, <2>2 DEF AddInsert, StoreTypeOK
    <2>4. PexipTypeOK'
      BY <1>2, Frames DEF AddInsert
    <2>5. ApiTypeOK'
      BY <1>2, GotoTypes DEF AddInsert, OnEndpoint
    <2> QED BY <2>3, <2>4, <2>5
  <1>3. CASE AddCall(t)
    <2>m. web[t] \in ThreadState /\ web[t].m \in MeetingIds /\ web[t].e \in Aliases
      BY <1>3 DEF AddCall, ApiTypeOK, WellFormed, OnEndpoint
    <2>1. StoreTypeOK' /\ PexipTypeOK'
      BY <1>3, <2>m, Frames, PexipTypes DEF AddCall
    <2>2. ApiTypeOK'
      <3> DEFINE r(ok) == [web[t] EXCEPT !.pc = "addWrite", !.ok = ok]
      <3>1. \A ok \in BOOLEAN : r(ok) \in ThreadState /\ WellFormed(r(ok))
        BY <2>m DEF ThreadState, WellFormed, OnEndpoint
      <3> QED BY <1>3, <3>1, ThreadTypes DEF AddCall
    <2> QED BY <2>1, <2>2
  <1>4. CASE AddWrite(t)
    <2>m. web[t] \in ThreadState /\ web[t].m \in MeetingIds
      BY <1>4 DEF AddWrite, ApiTypeOK, WellFormed, OnEndpoint
    <2>1. meetings' \in [MeetingIds -> MeetingRow]
      BY <1>4 DEF AddWrite, StoreTypeOK
    <2>2. endpoints' \in [MeetingIds -> [RowKeys -> RowStatus]]
      BY <1>4, <2>m, SetRowsType DEF AddWrite, RowStatus, EndpointStatus, DeleteRows
    <2>3. StoreTypeOK'
      BY <1>4, <2>1, <2>2 DEF AddWrite, StoreTypeOK
    <2>4. PexipTypeOK'
      BY <1>4, Frames DEF AddWrite
    <2>5. ApiTypeOK'
      BY <1>4, ReplyTypes DEF AddWrite
    <2> QED BY <2>3, <2>4, <2>5
  <1>5. CASE AddLocked(t)
    <2>m. web[t] \in ThreadState /\ web[t].m \in MeetingIds
      BY <1>5 DEF AddLocked, ApiTypeOK, WellFormed, OnEndpoint
    <2>1. meetings' \in [MeetingIds -> MeetingRow]
      BY <1>5 DEF AddLocked, StoreTypeOK
    <2>2. endpoints' \in [MeetingIds -> [RowKeys -> RowStatus]]
      BY <1>5, <2>m, SetRowsType DEF AddLocked, RowStatus, EndpointStatus, DeleteRows
    <2>3. StoreTypeOK'
      BY <1>5, <2>1, <2>2, StoreAssumption DEF AddLocked, StoreTypeOK, Fault
    <2>4. PexipTypeOK'
      BY <1>5, Frames DEF AddLocked
    <2>5. ApiTypeOK'
      BY <1>5, ReplyTypes DEF AddLocked
    <2> QED BY <2>3, <2>4, <2>5
  <1> QED
    BY <1>1, <1>2, <1>3, <1>4, <1>5 DEF Add

(* remove_endpoint.                                                        *)
LEMMA RemoveTypes ==
    ASSUME TypeOK, NEW t \in Threads, Remove(t)
    PROVE  StoreTypeOK' /\ PexipTypeOK' /\ ApiTypeOK'
  <1> DEFINE TypesNext == StoreTypeOK' /\ PexipTypeOK' /\ ApiTypeOK'
  <1> USE DEF TypeOK
  <1>1. ASSUME NEW m \in MeetingIds, NEW e \in Aliases, RemoveRead(t, m, e) PROVE TypesNext
    <2>1. StoreTypeOK' /\ PexipTypeOK'
      BY <1>1, Frames DEF RemoveRead
    <2>2. ApiTypeOK'
      <3> DEFINE r == [Read("removeLive", m) EXCEPT !.e = e]
      <3>1. r \in ThreadState /\ WellFormed(r)
        BY <1>1, ZeroTime DEF RemoveRead, Read, Free, ThreadState, WellFormed, OnEndpoint,
           StoreTypeOK, RowKeys
      <3> QED BY <1>1, <3>1, ThreadTypes DEF RemoveRead
    <2> QED BY <2>1, <2>2
  <1>2. CASE RemoveLive(t)
    <2>1. StoreTypeOK' /\ PexipTypeOK'
      BY <1>2, Frames DEF RemoveLive
    <2>2. ApiTypeOK'
      BY <1>2, ReplyTypes, GotoTypes DEF RemoveLive, OnEndpoint
    <2> QED BY <2>1, <2>2
  <1>3. CASE RemoveCall(t)
    <2>m. web[t] \in ThreadState /\ web[t].m \in MeetingIds /\ web[t].e \in Aliases
      BY <1>3 DEF RemoveCall, ApiTypeOK, WellFormed, OnEndpoint
    <2>1. StoreTypeOK' /\ PexipTypeOK'
      BY <1>3, <2>m, Frames, PexipTypes DEF RemoveCall
    <2>2. ApiTypeOK'
      BY <1>3, ReplyTypes, GotoTypes DEF RemoveCall, OnEndpoint
    <2> QED BY <2>1, <2>2
  <1>4. CASE RemoveDelete(t)
    <2>m. web[t] \in ThreadState /\ web[t].m \in MeetingIds
      BY <1>4 DEF RemoveDelete, ApiTypeOK, WellFormed, OnEndpoint
    <2>1. meetings' \in [MeetingIds -> MeetingRow]
      BY <1>4 DEF RemoveDelete, StoreTypeOK
    <2>2. endpoints' \in [MeetingIds -> [RowKeys -> RowStatus]]
      BY <1>4, <2>m, SetRowsType DEF RemoveDelete, RowStatus, EndpointStatus, DeleteRows
    <2>3. StoreTypeOK'
      BY <1>4, <2>1, <2>2 DEF RemoveDelete, StoreTypeOK
    <2>4. PexipTypeOK'
      BY <1>4, Frames DEF RemoveDelete
    <2>5. ApiTypeOK'
      BY <1>4, ReplyTypes DEF RemoveDelete
    <2> QED BY <2>3, <2>4, <2>5
  <1> QED
    BY <1>1, <1>2, <1>3, <1>4 DEF Remove

LEMMA ApiTypes ==
    ASSUME TypeOK, ApiStep, UNCHANGED w
    PROVE  TypeOK'
  <1>1. ASSUME NEW t \in Threads, Abandon(t)
        PROVE  StoreTypeOK' /\ PexipTypeOK' /\ ApiTypeOK'
    BY <1>1, Frames, ReplyTypes DEF TypeOK, Abandon
  <1> QED
    BY <1>1, ManageTypes, EditTypes, RedialTypes, AddTypes, RemoveTypes, Frames
    DEF TypeOK, ApiStep

LEMMA CallTypes ==
    ASSUME TypeOK, Calls, UNCHANGED <<w, web>>
    PROVE  TypeOK'
  <1>1. PICK m \in MeetingIds, e \in Aliases : Answer(m, e) \/ GiveUp(m, e) \/ HangUp(m, e)
    BY DEF Calls
  <1>2. PexipTypeOK'
    <2> USE PexipAssumption DEF TypeOK, PexipTypeOK
    <2>1. CASE Answer(m, e)
      BY <2>1 DEF Answer
    <2>2. CASE GiveUp(m, e)
      BY <2>2 DEF GiveUp
    <2>3. CASE HangUp(m, e)
      BY <2>3 DEF HangUp
    <2> QED BY <1>1, <2>1, <2>2, <2>3
  <1>3. UNCHANGED storeVars
    BY <1>1 DEF Answer, GiveUp, HangUp
  <1> QED BY <1>2, <1>3, Frames DEF TypeOK

LEMMA TypeInit == Init => TypeOK
  BY StoreAssumption, PexipAssumption
  DEF Init, StoreInit, PexipInit, WorkerInit, ApiInit, At, Free, UnusedMeeting, TypeOK,
      StoreTypeOK, PexipTypeOK, WorkerTypeOK, ApiTypeOK, WellFormed, WorkerState, ThreadState, PCs, Times,
      MeetingRow, RowStatus, Starting, Ending, Committing, OnEndpoint

LEMMA TypeStep == TypeOK /\ [Next]_vars => TypeOK'
  <1> SUFFICES ASSUME TypeOK, [Next]_vars PROVE TypeOK'
    OBVIOUS
  <1>1. CASE WorkerStep /\ UNCHANGED web
    BY <1>1, WorkerTypes
  <1>2. CASE ApiStep /\ UNCHANGED w
    BY <1>2, ApiTypes
  <1>3. CASE Calls /\ UNCHANGED <<w, web>>
    BY <1>3, CallTypes
  <1>4. CASE Tick /\ UNCHANGED <<pexipVars, w, web>>
    <2>1. StoreTypeOK'
      BY <1>4, StoreAssumption DEF Tick, TypeOK, StoreTypeOK, Times
    <2> QED BY <1>4, <2>1, Frames DEF TypeOK
  <1>5. CASE UNCHANGED vars
    BY <1>5, Frames DEF vars, TypeOK, storeVars, pexipVars
  <1> QED BY <1>1, <1>2, <1>3, <1>4, <1>5 DEF Next

(* The variables keep their types in every behaviour of the system.        *)
THEOREM TypeCorrect == Spec => []TypeOK
  BY TypeInit, TypeStep, PTL DEF Spec
----------------------------------------------------------------------------
(* A thread is in the middle of a request of a kind that operators issue.  *)
(* What a property excludes by a hypothesis about Requests does not happen.*)
AskedFor(p) ==
    /\ p = "editWrite" => "edit" \in Requests
    /\ p = "extendWrite" => "extend" \in Requests
    /\ p \in {"redialCall", "redialWrite"} => "redial" \in Requests
    /\ p \in {"addInsert", "addCall", "addWrite"} => "add" \in Requests
    /\ p \in {"removeLive", "removeCall", "removeDelete"} => "remove" \in Requests
OnlyAsked == \A t \in Threads : AskedFor(web[t].pc)

LEMMA AskedStep ==
    ASSUME TypeOK, OnlyAsked, [Next]_vars
    PROVE  OnlyAsked'
  <1> USE DEF Serve, Ask, AskedFor
  <1>1. ASSUME NEW t \in Threads, NEW r, AskedFor(r.pc), web' = [web EXCEPT ![t] = r]
        PROVE  OnlyAsked'
    BY <1>1 DEF TypeOK, ApiTypeOK, OnlyAsked
  <1>2. ASSUME NEW t \in Threads, Reply(t) PROVE OnlyAsked'
    <2>1. AskedFor(Free.pc)
      BY DEF Free
    <2> QED BY <1>1, <1>2, <2>1 DEF Reply
  <1>3. ASSUME NEW t \in Threads, NEW p, AskedFor(p), Goto(t, p) PROVE OnlyAsked'
    <2>1. [web[t] EXCEPT !.pc = p].pc = p
      BY DEF TypeOK, ApiTypeOK, ThreadState
    <2>2. web' = [web EXCEPT ![t] = [web[t] EXCEPT !.pc = p]]
      BY <1>3 DEF Goto, TypeOK, ApiTypeOK
    <2> QED BY <1>1, <1>3, <2>1, <2>2
  <1>4. ASSUME NEW t \in Threads, Edit(t) PROVE OnlyAsked'
    <2>1. ASSUME NEW m \in MeetingIds, EditRead(t, m) PROVE OnlyAsked'
      <3>1. \E r : web' = [web EXCEPT ![t] = r] /\ r.pc = "editWrite"
        <4> DEFINE r == [Read("editWrite", m) EXCEPT !.at = now]
                   a(x) == [Read("editWrite", m) EXCEPT !.at = now, !.active = TRUE, !.end = x]
        <4>1. r.pc = "editWrite" /\ \A x : a(x).pc = "editWrite"
          BY DEF Read, Free
        <4>2. \/ web' = [web EXCEPT ![t] = r]
              \/ \E x \in Times : web' = [web EXCEPT ![t] = a(x)]
          BY <2>1 DEF EditRead
        <4> HIDE DEF r, a
        <4> QED BY <4>1, <4>2
      <3>2. "edit" \in Requests
        BY <2>1 DEF EditRead
      <3> QED BY <1>1, <3>1, <3>2
    <2>2. ASSUME NEW m \in MeetingIds, NEW d \in Minutes, ExtendRead(t, m, d)
          PROVE  OnlyAsked'
      <3>1. \E r : web' = [web EXCEPT ![t] = r] /\ r.pc = "extendWrite"
        <4> DEFINE r == [Read("extendWrite", m) EXCEPT !.at = now, !.end = meetings[m].end + d]
        <4>1. r.pc = "extendWrite"
          BY DEF Read, Free
        <4>2. web' = [web EXCEPT ![t] = r]
          BY <2>2 DEF ExtendRead
        <4> HIDE DEF r
        <4> QED BY <4>1, <4>2
      <3>2. "extend" \in Requests
        BY <2>2 DEF ExtendRead
      <3> QED BY <1>1, <3>1, <3>2
    <2> QED
      BY <1>2, <1>4, <2>1, <2>2 DEF Edit, EditScheduled, EditActive, ExtendWrite
  <1>5. ASSUME NEW t \in Threads, Redial(t) PROVE OnlyAsked'
    <2>1. ASSUME NEW m \in MeetingIds, NEW k \in RowKeys, RedialRead(t, m, k)
          PROVE  OnlyAsked'
      <3>1. \E r : web' = [web EXCEPT ![t] = r] /\ r.pc = "redialCall"
        <4> DEFINE r == [Read("redialCall", m) EXCEPT !.e = k[1], !.row = k]
        <4>1. r.pc = "redialCall"
          BY DEF Read, Free
        <4>2. web' = [web EXCEPT ![t] = r]
          BY <2>1 DEF RedialRead
        <4> HIDE DEF r
        <4> QED BY <4>1, <4>2
      <3>2. "redial" \in Requests
        BY <2>1 DEF RedialRead
      <3> QED BY <1>1, <3>1, <3>2
    <2>2. CASE RedialCall(t)
      BY <1>3, <2>2 DEF RedialCall, OnlyAsked
    <2> QED BY <1>2, <1>5, <2>1, <2>2 DEF Redial, RedialWrite
  <1>6. ASSUME NEW t \in Threads, Add(t) PROVE OnlyAsked'
    <2>1. ASSUME NEW m \in MeetingIds, NEW e \in Aliases, AddRead(t, m, e) PROVE OnlyAsked'
      <3>1. \E r : web' = [web EXCEPT ![t] = r] /\ r.pc = "addInsert"
        <4> DEFINE r == [Read("addInsert", m) EXCEPT !.e = e]
        <4>1. r.pc = "addInsert"
          BY DEF Read, Free
        <4>2. web' = [web EXCEPT ![t] = r]
          BY <2>1 DEF AddRead
        <4> HIDE DEF r
        <4> QED BY <4>1, <4>2
      <3>2. "add" \in Requests
        BY <2>1 DEF AddRead
      <3> QED BY <1>1, <3>1, <3>2
    <2>2. CASE AddInsert(t)
      BY <1>3, <2>2 DEF AddInsert, OnlyAsked
    <2>3. CASE AddCall(t)
      <3>1. PICK ok \in BOOLEAN :
                web' = [web EXCEPT ![t] = [web[t] EXCEPT !.pc = "addWrite", !.ok = ok]]
        BY <2>3 DEF AddCall, TypeOK, ApiTypeOK
      <3>2. [web[t] EXCEPT !.pc = "addWrite", !.ok = ok].pc = "addWrite"
        BY DEF TypeOK, ApiTypeOK, ThreadState
      <3>3. "add" \in Requests
        BY <2>3 DEF AddCall, OnlyAsked
      <3> QED BY <1>1, <3>1, <3>2, <3>3
    <2> QED BY <1>2, <1>6, <2>1, <2>2, <2>3 DEF Add, AddWrite, AddLocked
  <1>7. ASSUME NEW t \in Threads, Remove(t) PROVE OnlyAsked'
    <2>1. ASSUME NEW m \in MeetingIds, NEW e \in Aliases, RemoveRead(t, m, e)
          PROVE  OnlyAsked'
      <3>1. \E r : web' = [web EXCEPT ![t] = r] /\ r.pc = "removeLive"
        <4> DEFINE r == [Read("removeLive", m) EXCEPT !.e = e]
        <4>1. r.pc = "removeLive"
          BY DEF Read, Free
        <4>2. web' = [web EXCEPT ![t] = r]
          BY <2>1 DEF RemoveRead
        <4> HIDE DEF r
        <4> QED BY <4>1, <4>2
      <3>2. "remove" \in Requests
        BY <2>1 DEF RemoveRead
      <3> QED BY <1>1, <3>1, <3>2
    <2>2. CASE RemoveLive(t)
      <3>0. "remove" \in Requests
        BY <2>2 DEF RemoveLive, OnlyAsked
      <3>1. PICK n : CASE n = 0 -> Goto(t, "removeDelete")
                       [] n = 1 -> Goto(t, "removeCall")
                       [] OTHER -> Reply(t)
        BY <2>2 DEF RemoveLive
      <3>2. CASE n = 0
        BY <1>3, <3>0, <3>1, <3>2
      <3>3. CASE n = 1
        BY <1>3, <3>0, <3>1, <3>3
      <3>4. CASE n \notin {0, 1}
        BY <1>2, <3>1, <3>4
      <3> QED BY <3>2, <3>3, <3>4
    <2>3. CASE RemoveCall(t)
      BY <1>2, <1>3, <2>3 DEF RemoveCall, OnlyAsked
    <2> QED BY <1>2, <1>7, <2>1, <2>2, <2>3 DEF Remove, RemoveDelete
  <1>8. CASE UNCHANGED web
    BY <1>8 DEF OnlyAsked
  <1> QED
    BY <1>2, <1>4, <1>5, <1>6, <1>7, <1>8 DEF Next, ApiStep, Manage, CreateMeeting,
       DeleteMeeting, UpdateMeeting, Abandon, vars

(* In every behaviour the threads serve only what operators ask for.       *)
THEOREM AskedAlways == Spec => []OnlyAsked
  <1>1. Init => OnlyAsked
    BY DEF Init, ApiInit, Free, OnlyAsked, AskedFor
  <1>2. TypeOK /\ OnlyAsked /\ [Next]_vars => OnlyAsked'
    BY AskedStep
  <1> QED BY <1>1, <1>2, TypeCorrect, PTL DEF Spec
----------------------------------------------------------------------------
(* Every tick comes to its end: what a step of the worker does to the      *)
(* place it is at.  The invariant is that the candidate the worker is busy *)
(* with is one it has yet to cross off.                                    *)
BusyWithCandidate == w.pc \in Starting \cup Ending => w.m \in w.todo

OneCandidateLess == Stage(w'.pc) = Stage(w.pc) /\ w'.todo \subseteq w.todo /\ w'.todo # w.todo
SameCandidate == Stage(w'.pc) = Stage(w.pc) /\ w'.todo = w.todo
Advances == w.pc \notin {"idle", "down"} => Nearer

LEMMA StagesOf ==
    /\ Stage("recover") = 0
    /\ \A p \in RecoverAt \ {"recover", "recEnding", "recEndCommit"} : Stage(p) = 1
    /\ \A p \in {"recEnding", "recEndCommit"} : Stage(p) = 2
    /\ Stage("expire") = 3 /\ Stage("expLoop") = 4 /\ Stage("end") = 5
    /\ \A p \in EndAt \ {"end"} : Stage(p) = 6
    /\ Stage("start") = 7
    /\ \A p \in StartAt \ {"start"} : Stage(p) = 8
    /\ Stage("idle") = 9 /\ Stage("down") = 9
  BY DEF Stage, RecoverAt, EndAt, StartAt

LEMMA PlacesOf ==
    /\ \A p \in {"recStarting", "recEnding", "endLoop", "startLoop"} : Place(p) = 0
    /\ \A p \in {"recToken", "recEndCommit", "endCall", "startToken"} : Place(p) = 1
    /\ \A p \in {"recLive", "endCommit"} : Place(p) = 2
    /\ \A p \in {"recGiveUp", "recEp", "recCommit", "startEp", "startCommit"} : Place(p) = 3
  BY DEF Place

(* A job is over, or reads its candidates.                                 *)
LEMMA StagesStep ==
    ASSUME WorkerTypeOK,
           \/ RecoverSelect \/ RecoverEndingSelect \/ RecoverDone \/ ExpireSelect \/ ExpireDone
           \/ EndSelect \/ EndDone \/ StartSelect \/ StartDone \/ LockedJob \/ Crash
           \/ BeginTick \/ Restart
    PROVE  Advances /\ BusyWithCandidate'
  <1>a. \A p \in {"recStarting", "recEnding", "expire", "expLoop", "end", "endLoop", "start",
                 "startLoop", "idle"} : At(p) \in WorkerState /\ At(p).pc = p
    BY AtTypes DEF PCs, RecoverAt, ExpireAt, EndAt, StartAt
  <1>1. CASE RecoverSelect \/ RecoverEndingSelect \/ RecoverDone
    <2>1. <<w.pc, w'.pc>> \in {<<"recover", "recStarting">>, <<"recStarting", "recEnding">>,
                               <<"recEnding", "expire">>}
      <3>1. CASE RecoverSelect
        BY <1>a, <3>1 DEF RecoverSelect, WorkerState
      <3>2. CASE RecoverEndingSelect
        BY <1>a, <3>2 DEF RecoverEndingSelect, WorkerState
      <3>3. CASE RecoverDone
        BY <1>a, <3>3 DEF RecoverDone
      <3> QED BY <1>1, <3>1, <3>2, <3>3
    <2>2. Stage("recStarting") = 1
      BY StagesOf DEF RecoverAt
    <2> QED BY <2>1, <2>2, StagesOf DEF Advances, Nearer, BusyWithCandidate, Starting, Ending
  <1>2. CASE ExpireSelect \/ ExpireDone \/ EndSelect \/ EndDone \/ StartSelect \/ StartDone
    <2>1. <<w.pc, w'.pc>> \in {<<"expire", "expLoop">>, <<"expLoop", "end">>,
                               <<"end", "endLoop">>, <<"endLoop", "start">>,
                               <<"start", "startLoop">>, <<"startLoop", "idle">>}
      <3>1. CASE ExpireSelect \/ EndSelect \/ StartSelect
        <4>1. CASE ExpireSelect
          BY <1>a, <4>1 DEF ExpireSelect, WorkerState
        <4>2. CASE EndSelect
          BY <1>a, <4>2 DEF EndSelect, WorkerState
        <4>3. CASE StartSelect
          BY <1>a, <4>3 DEF StartSelect, WorkerState
        <4> QED BY <3>1, <4>1, <4>2, <4>3
      <3>2. CASE ExpireDone \/ EndDone \/ StartDone
        BY <1>a, <3>2 DEF ExpireDone, EndDone, StartDone
      <3> QED BY <1>2, <3>1, <3>2
    <2>2. Stage("endLoop") = 6 /\ Stage("startLoop") = 8
      BY StagesOf DEF EndAt, StartAt
    <2> QED BY <2>1, <2>2, StagesOf DEF Advances, Nearer, BusyWithCandidate, Starting, Ending
  <1>3. CASE LockedJob
    <2>1. w'.pc = NextJob
      BY <1>3 DEF LockedJob, At
    <2>2. \/ w.pc \in RecoverAt /\ w'.pc = "expire" /\ Stage(w.pc) \in 0..2
          \/ w.pc \in ExpireAt /\ w'.pc = "end" /\ Stage(w.pc) \in 3..4
          \/ w.pc \in EndAt /\ w'.pc = "start" /\ Stage(w.pc) \in 5..6
          \/ w.pc \in StartAt /\ w'.pc = "idle" /\ Stage(w.pc) \in 7..8
          \/ w.pc \in {"idle", "down"} /\ w'.pc = "idle"
      BY <2>1, StagesOf
      DEF NextJob, WorkerTypeOK, WorkerState, PCs, RecoverAt, ExpireAt, EndAt, StartAt
    <2> QED BY <2>2, StagesOf DEF Advances, Nearer, BusyWithCandidate, Starting, Ending
  <1>4. CASE Crash \/ BeginTick \/ Restart
    <2>1. w.pc \in PCs \ {"idle", "down"} => Stage(w.pc) \in 0..8
      BY StagesOf DEF PCs, RecoverAt, ExpireAt, EndAt, StartAt
    <2>2. \/ w.pc \in PCs /\ w'.pc = "down"
          \/ w.pc \in {"idle", "down"} /\ w'.pc \in {"idle", "recover"}
      BY <1>4 DEF Crash, BeginTick, Restart, WorkerTypeOK, WorkerState, At
    <2> QED BY <2>1, <2>2, StagesOf DEF Advances, Nearer, BusyWithCandidate, Starting, Ending
  <1> QED BY <1>1, <1>2, <1>3, <1>4

(* A candidate is crossed off.                                             *)
LEMMA NextOne ==
    ASSUME NEW p \in PCs, w' = NextCandidate(p), w.m \in w.todo
    PROVE  w'.pc = p /\ w'.todo \subseteq w.todo /\ w'.todo # w.todo
  <1>1. w'.pc = p /\ w'.todo = w.todo \ {w.m}
    BY DEF NextCandidate, At
  <1> QED BY <1>1

LEMMA CandidateStep ==
    ASSUME WorkerTypeOK, BusyWithCandidate,
           \/ RecoverGiveUp \/ RecoverFinish \/ RecoverEnded \/ EndCommit \/ StartFinish
           \/ LockedEnded
           \/ \E m \in MeetingIds : RecoverPast(m) \/ ExpireOne(m)
    PROVE  OneCandidateLess /\ BusyWithCandidate'
  <1>1. CASE \/ RecoverGiveUp \/ RecoverFinish \/ RecoverEnded \/ EndCommit \/ StartFinish
             \/ LockedEnded
    <2>1. PICK p \in PCs :
               /\ w' = NextCandidate(p)
               /\ <<w.pc, p>> \in ({"recGiveUp", "recEp"} \X {"recStarting"})
                                  \cup {<<"recEndCommit", "recEnding">>, <<"endCommit", "endLoop">>,
                                        <<"startEp", "startLoop">>}
      BY <1>1 DEF RecoverGiveUp, RecoverFinish, RecoverEnded, EndCommit, StartFinish,
         LockedEnded, PCs, RecoverAt, EndAt, StartAt
    <2>2. w.m \in w.todo
      BY <2>1 DEF BusyWithCandidate, Starting, Ending
    <2>3. Stage(p) = Stage(w.pc)
      BY <2>1, StagesOf DEF RecoverAt, EndAt, StartAt
    <2>4. p \notin Starting \cup Ending
      BY <2>1 DEF Starting, Ending
    <2> QED BY <2>1, <2>2, <2>3, <2>4, NextOne DEF OneCandidateLess, BusyWithCandidate
  <1>2. ASSUME NEW m \in MeetingIds, RecoverPast(m) \/ ExpireOne(m)
        PROVE  OneCandidateLess /\ BusyWithCandidate'
    <2>1. /\ m \in w.todo /\ w'.todo = w.todo \ {m}
          /\ w'.pc = w.pc /\ w.pc \in {"recStarting", "expLoop"}
      BY <1>2 DEF RecoverPast, ExpireOne, Skip, WorkerTypeOK, WorkerState
    <2> QED BY <2>1 DEF OneCandidateLess, BusyWithCandidate, Starting, Ending
  <1> QED BY <1>1, <1>2

(* A candidate is taken, and claimed where the job claims it.              *)
LEMMA TakeStep ==
    ASSUME WorkerTypeOK, NEW m \in MeetingIds,
           RecoverBegin(m) \/ RecoverDisconnect(m) \/ EndClaim(m) \/ StartClaim(m)
    PROVE  /\ OneCandidateLess \/ (SameCandidate /\ Place(w'.pc) > Place(w.pc))
           /\ BusyWithCandidate'
  <1>1. /\ m \in w.todo
        /\ \/ /\ w'.pc = w.pc /\ w'.todo = w.todo \ {m}
              /\ w.pc \in {"endLoop", "startLoop"}
           \/ /\ w'.m = m /\ w'.todo = w.todo
              /\ <<w.pc, w'.pc>> \in {<<"recStarting", "recToken">>, <<"endLoop", "endCall">>,
                                      <<"recEnding", "recEndCommit">>,
                                      <<"startLoop", "startToken">>}
    BY DEF RecoverBegin, RecoverDisconnect, EndClaim, StartClaim, Begin, Skip, WorkerTypeOK,
       WorkerState
  <1>2. CASE w'.pc = w.pc /\ w'.todo = w.todo \ {m} /\ w.pc \in {"endLoop", "startLoop"}
    BY <1>1, <1>2 DEF OneCandidateLess, BusyWithCandidate, Starting, Ending
  <1>3. CASE /\ w'.m = m /\ w'.todo = w.todo
             /\ <<w.pc, w'.pc>> \in {<<"recStarting", "recToken">>, <<"endLoop", "endCall">>,
                                     <<"recEnding", "recEndCommit">>,
                                     <<"startLoop", "startToken">>}
    <2>1. Stage(w'.pc) = Stage(w.pc)
      BY <1>3, StagesOf DEF RecoverAt, EndAt, StartAt
    <2>2. Place(w'.pc) > Place(w.pc)
      BY <1>3, PlacesOf
    <2> QED BY <1>1, <1>3, <2>1, <2>2 DEF SameCandidate, BusyWithCandidate
  <1> QED BY <1>1, <1>2, <1>3

(* The work on one candidate goes on.                                      *)
LEMMA PlaceStep ==
    ASSUME WorkerTypeOK, BusyWithCandidate,
           RecoverToken \/ RecoverLive \/ EndDisconnect \/ StartToken
    PROVE  SameCandidate /\ Place(w'.pc) > Place(w.pc) /\ BusyWithCandidate'
  <1>1. /\ w'.todo = w.todo /\ w'.m = w.m
        /\ <<w.pc, w'.pc>> \in {<<"recToken", "recLive">>, <<"recToken", "recGiveUp">>,
                                <<"recLive", "recEp">>, <<"recLive", "recGiveUp">>,
                                <<"endCall", "endCommit">>, <<"startToken", "startEp">>}
    <2>1. CASE RecoverToken
      BY <2>1 DEF RecoverToken, WorkerTypeOK, WorkerState
    <2>2. CASE RecoverLive
      BY <2>2 DEF RecoverLive, WorkerTypeOK, WorkerState
    <2>3. CASE EndDisconnect \/ StartToken
      BY <2>3 DEF EndDisconnect, StartToken, WorkerTypeOK, WorkerState
    <2> QED BY <2>1, <2>2, <2>3
  <1>2. Stage(w'.pc) = Stage(w.pc)
    BY <1>1, StagesOf DEF RecoverAt, EndAt, StartAt
  <1>3. Place(w'.pc) > Place(w.pc)
    BY <1>1, PlacesOf
  <1>4. w.pc \in Starting \cup Ending
    BY <1>1 DEF Starting, Ending
  <1> QED BY <1>1, <1>2, <1>3, <1>4 DEF SameCandidate, BusyWithCandidate

LEMMA RowsStep ==
    ASSUME WorkerTypeOK, BusyWithCandidate,
           \/ RecoverCommit \/ StartCommit \/ LockedDial \/ LockedStart
           \/ \E k \in RowKeys : RecoverSeen(k) \/ RecoverDial(k) \/ StartDial(k) \/ LockedSeen(k)
    PROVE  SameCandidate /\ Place(w'.pc) = Place(w.pc) /\ FewerRows /\ BusyWithCandidate'
  <1>1. /\ w'.todo = w.todo /\ w'.m = w.m
        /\ <<w.pc, w'.pc>> \in {<<"recEp", "recEp">>, <<"recEp", "recCommit">>,
                                <<"recCommit", "recEp">>, <<"startEp", "startCommit">>,
                                <<"startCommit", "startEp">>}
        /\ FewerRows
    <2>1. CASE RecoverCommit \/ StartCommit
      BY <2>1 DEF RecoverCommit, StartCommit, Recorded, WorkerTypeOK, WorkerState, FewerRows,
         Committing
    <2>2. CASE LockedDial \/ LockedStart
      BY <2>2 DEF LockedDial, LockedStart, Recorded, WorkerTypeOK, WorkerState, FewerRows,
         Committing
    <2>3. ASSUME NEW k \in RowKeys,
                 RecoverSeen(k) \/ RecoverDial(k) \/ StartDial(k) \/ LockedSeen(k)
          PROVE  /\ w'.todo = w.todo /\ w'.m = w.m
                 /\ <<w.pc, w'.pc>> \in {<<"recEp", "recEp">>, <<"recEp", "recCommit">>,
                                         <<"startEp", "startCommit">>}
                 /\ k \in w.rows /\ w'.rows = w.rows \ {k}
      <3>1. CASE RecoverSeen(k) \/ LockedSeen(k)
        BY <3>1 DEF RecoverSeen, LockedSeen, WorkerTypeOK, WorkerState
      <3>2. CASE RecoverDial(k)
        BY <3>2 DEF RecoverDial, WorkerTypeOK, WorkerState
      <3>3. CASE StartDial(k)
        BY <3>3 DEF StartDial, WorkerTypeOK, WorkerState
      <3> QED BY <2>3, <3>1, <3>2, <3>3
    <2> QED BY <2>1, <2>2, <2>3 DEF FewerRows
  <1>2. Stage(w'.pc) = Stage(w.pc)
    BY <1>1, StagesOf DEF RecoverAt, StartAt
  <1>3. Place(w'.pc) = Place(w.pc)
    BY <1>1, PlacesOf
  <1>4. w.pc \in Starting \cup Ending
    BY <1>1 DEF Starting, Ending
  <1> QED BY <1>1, <1>2, <1>3, <1>4 DEF SameCandidate, BusyWithCandidate

LEMMA AdvanceStep ==
    ASSUME WorkerTypeOK, BusyWithCandidate, WorkerStep
    PROVE  Advances /\ BusyWithCandidate'
  <1>1. \/ OneCandidateLess
        \/ SameCandidate /\ Place(w'.pc) > Place(w.pc)
        \/ SameCandidate /\ Place(w'.pc) = Place(w.pc) /\ FewerRows
        => Advances
    BY DEF OneCandidateLess, SameCandidate, Advances, Nearer
  <1> QED
    BY <1>1, StagesStep, CandidateStep, TakeStep, PlaceStep, RowsStep
    DEF WorkerStep, WorkerRuns, Recover, Expire, End, Start, Faulty

(* Every step of a tick brings it nearer to its end, whatever requests,    *)
(* calls and faults do meanwhile: scheduler_tick cannot loop.              *)
THEOREM TicksComeToAnEnd == Spec => TicksEnd
  <1>1. Init => BusyWithCandidate
    BY DEF Init, WorkerInit, At, BusyWithCandidate, Starting, Ending
  <1>2. TypeOK /\ BusyWithCandidate /\ [Next]_vars
        => BusyWithCandidate' /\ [w.pc \notin {"idle", "down"} => Nearer]_w
    <2> SUFFICES ASSUME TypeOK, BusyWithCandidate, [Next]_vars
                 PROVE  BusyWithCandidate' /\ (Advances \/ UNCHANGED w)
      BY DEF Advances
    <2>1. CASE WorkerStep
      BY <2>1, AdvanceStep DEF TypeOK
    <2>2. CASE UNCHANGED w
      BY <2>2 DEF BusyWithCandidate
    <2> QED BY <2>1, <2>2 DEF Next, vars
  <1> QED BY <1>1, <1>2, TypeCorrect, PTL DEF Spec, TicksEnd
=============================================================================
