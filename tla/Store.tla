-------------------------------- MODULE Store --------------------------------
(***************************************************************************)
(* The SQLite database that the web process and the scheduler worker share *)
(* (app/database.py, init_db): the tables meetings and meeting_endpoints.  *)
(*                                                                         *)
(* A table is a function from row keys to rows.  Both tables use           *)
(* AUTOINCREMENT keys, so a key is never issued twice: a row that does not *)
(* exist yet has status "unused", a row that was deleted "deleted", and a  *)
(* deleted row never comes back.  The key of an endpoint row is <<alias,   *)
(* n>>: the n-th row ever inserted for that endpoint in its meeting.  The  *)
(* schema has no UNIQUE constraint on (meeting_id, endpoint_alias), hence  *)
(* one endpoint may have several rows at a time.                           *)
(*                                                                         *)
(* Times are minutes.  Titles, notes, roles and dial responses decide      *)
(* nothing and are left out; invitees are not part of this module.         *)
(***************************************************************************)
EXTENDS Integers, FiniteSets

CONSTANTS
    MeetingIds,       \* ids of the rows of meetings
    Aliases,      \* endpoint aliases
    None,           \* no meeting, no row
    MaxTime,        \* BOUND: the clock stops here
    MaxRows,        \* BOUND: rows ever inserted for one endpoint of a meeting
    MaxFaults,      \* BOUND: process crashes and locked-database errors
    CalmFrom        \* BOUND: no operator request and no fault after this time

ASSUME StoreAssumption ==
    /\ MaxTime \in Nat /\ MaxRows \in Nat /\ MaxFaults \in Nat /\ CalmFrom \in Nat
    /\ None \notin MeetingIds /\ None \notin Aliases
    /\ None \notin Aliases \X (1..MaxRows)

VARIABLES
    now,        \* the clock that now_utc() reads, in every process
    meetings,   \* the table meetings
    endpoints,  \* the table meeting_endpoints, by meeting
    faults      \* faults so far

storeVars == <<now, meetings, endpoints, faults>>
----------------------------------------------------------------------------
Times == 0..MaxTime
Null == -1                      \* SQL NULL in a time column
RowKeys == Aliases \X (1..MaxRows)

Active == {"started", "started_with_errors"}
Over == {"ended", "ended_with_errors"}
Stored == {"scheduled", "starting", "ending"} \cup Active \cup Over
MeetingRow == [status: Stored \cup {"unused", "deleted"},
               start: Times, end: Times, updatedAt: Times,
               startedAt: Times \cup {Null}, endedAt: Times \cup {Null}]
EndpointStatus == {"scheduled", "dialed", "error", "redialed", "ended"}
RowStatus == EndpointStatus \cup {"unused", "deleted"}

UnusedMeeting == [status |-> "unused", start |-> 0, end |-> 0, updatedAt |-> 0,
                  startedAt |-> Null, endedAt |-> Null]

StoreTypeOK ==
    /\ now \in Times
    /\ meetings \in [MeetingIds -> MeetingRow]
    /\ endpoints \in [MeetingIds -> [RowKeys -> RowStatus]]
    /\ faults \in 0..MaxFaults

StoreInit ==
    /\ now = 0
    /\ meetings = [m \in MeetingIds |-> UnusedMeeting]
    /\ endpoints = [m \in MeetingIds |-> [k \in RowKeys |-> "unused"]]
    /\ faults = 0
----------------------------------------------------------------------------
(* Queries.                                                                *)
Exists(m) == meetings[m].status \in Stored
RowExists(m, k) == endpoints[m][k] \in EndpointStatus
Rows(m) == {k \in RowKeys : RowExists(m, k)}
RowsOf(m, e) == {k \in Rows(m) : k[1] = e}

(* Updates.  UPDATE meetings SET ... WHERE id = m AND status IN from.      *)
UpdateWhere(m, from, r) ==
    meetings' = IF meetings[m].status \in from
                THEN [meetings EXCEPT ![m] = r] ELSE meetings

(* UPDATE meeting_endpoints SET status = s, for the keys in K that still   *)
(* exist.                                                                  *)
SetRows(m, K, s) ==
    endpoints' = [endpoints EXCEPT ![m] =
        [k \in RowKeys |-> IF k \in K /\ RowExists(m, k) THEN s ELSE endpoints[m][k]]]

DeleteRows(m, K) == SetRows(m, K, "deleted")

(* The keys AUTOINCREMENT issues next, one for each endpoint of E.         *)
NextKeys(m, E) ==
    {k \in RowKeys : /\ k[1] \in E
                     /\ endpoints[m][k] = "unused"
                     /\ \A i \in 1..(k[2] - 1) : endpoints[m][<<k[1], i>>] # "unused"}
CanInsert(m, E) == \A e \in E : \E i \in 1..MaxRows : endpoints[m][<<e, i>>] = "unused"

(* DELETE FROM meeting_endpoints WHERE meeting_id = m, then one INSERT for *)
(* each endpoint of E; with gone = {} only the INSERTs.                    *)
ReplaceRows(m, gone, E) ==
    endpoints' = [endpoints EXCEPT ![m] =
        [k \in RowKeys |-> IF k \in NextKeys(m, E) THEN "scheduled"
                           ELSE IF k \in gone /\ RowExists(m, k) THEN "deleted"
                           ELSE endpoints[m][k]]]

(* Another connection holds the write lock beyond busy_timeout, or a       *)
(* process dies: one more fault.                                           *)
Fault ==
    /\ faults < MaxFaults
    /\ now <= CalmFrom
    /\ faults' = faults + 1

(* Time passes between any two steps of any process.                       *)
Tick ==
    /\ now < MaxTime
    /\ now' = now + 1
    /\ UNCHANGED <<meetings, endpoints, faults>>
=============================================================================
