------------------------------ MODULE Calendar ------------------------------
(***************************************************************************)
(* The table meetings as the calendar reads it: the meetings of a day and  *)
(* of a range of days, the same selection in the export, and the label     *)
(* (timeline_status) a meeting is shown with.                              *)
(*                                                                         *)
(* Times are counted from midnight UTC of day 0, a day being Day of them   *)
(* and a second being Second.  The queries do not compare times but the    *)
(* texts that iso makes of them.                                           *)
(*                                                                         *)
(* Rows are changed here as requests and worker may change them; how they  *)
(* do it, step by step, is the business of MeetingsApi and Worker, and     *)
(* System shows that together they do nothing else.                        *)
(***************************************************************************)
EXTENDS Integers

CONSTANTS
    Meetings,       \* ids of meetings
    Endpoints,      \* endpoints that can be assigned
    None,
    Second,         \* length of a second
    Day,            \* length of a day
    LastDay,        \* BOUND: days are 0..LastDay
    AboutToStart    \* ABOUT_TO_START_MINUTES

ASSUME CalendarAssumption ==
    Second \in Nat \ {0} /\ Day \in Nat \ {0} /\ LastDay \in Nat /\ AboutToStart \in Nat

VARIABLES
    now,            \* the clock
    table,          \* rows of meetings, with their endpoints
    gone            \* meetings deleted
calendarVars == <<now, table, gone>>
----------------------------------------------------------------------------
Days == 0..LastDay
Times == 0..(Day * (LastDay + 1) - 1)
Ended == {"ended", "ended_with_errors"}
Status == {"scheduled", "starting", "started", "ending"} \cup Ended
Row == [status: Status, start: Times, end: Times, started: BOOLEAN,   \* started_at is set
        endpoints: SUBSET Endpoints]

ASSUME RowAssumption == None \notin Row

CalendarTypeOK ==
    /\ now \in Times
    /\ table \in [Meetings -> Row \cup {None}]
    /\ gone \subseteq Meetings
CalendarInit ==
    /\ now = 0
    /\ table = [m \in Meetings |-> None]
    /\ gone = {}

Known == {m \in Meetings : table[m] # None}
In(m, S) == table[m] # None /\ table[m].status \in S
----------------------------------------------------------------------------
(* datetime.isoformat: the digits of date and time down to the second,     *)
(* then the offset, "+00:00"; but if the second is not whole, its fraction *)
(* stands before the offset, after a dot, always in six digits.            *)
Plus == 43
Dot == 46
Zulu == 90
IsoZ(t) ==                                      \* mutant of Iso: "Z" for "+00:00"
    [digits |-> t \div Second, mark |-> IF t % Second = 0 THEN Zulu ELSE Dot,
     fraction |-> t % Second]
Iso(t) ==
    [digits |-> t \div Second, mark |-> IF t % Second = 0 THEN Plus ELSE Dot,
     fraction |-> t % Second]

(* SQLite compares the texts character by character.                       *)
Before(a, b) ==
    \/ a.digits < b.digits
    \/ a.digits = b.digits /\ a.mark < b.mark
    \/ a.digits = b.digits /\ a.mark = b.mark /\ a.fraction < b.fraction
NotAfter(a, b) == ~Before(b, a)

(* SELECT ... WHERE start_time < ? AND end_time >= ?                       *)
TouchesInside(m, from, to) ==                   \* mutant of Touches
    NotAfter(Iso(from), Iso(table[m].start)) /\ Before(Iso(table[m].end), Iso(to))
Touches(m, from, to) ==
    Before(Iso(table[m].start), Iso(to)) /\ NotAfter(Iso(from), Iso(table[m].end))
MeetingsForDay(day) == {m \in Known : Touches(m, day * Day, (day + 1) * Day)}
RangeShort(first, last) ==                      \* mutant of MeetingsForRange
    {m \in Known : Touches(m, first * Day, last * Day)}
MeetingsForRange(first, last) == {m \in Known : Touches(m, first * Day, (last + 1) * Day)}

(* The candidates of the worker's jobs.  (No row that started has its      *)
(* ended_at, which the second query asks for, too.)                        *)
Missed == {m \in Known : In(m, {"scheduled"}) /\ NotAfter(Iso(table[m].end), Iso(now))}
DueToEnd == {m \in Known : In(m, {"started"}) /\ NotAfter(Iso(table[m].end), Iso(now))}
DueToStart ==
    {m \in Known : /\ In(m, {"scheduled"})
                   /\ NotAfter(Iso(table[m].start), Iso(now)) /\ Before(Iso(now), Iso(table[m].end))}

(* timeline_status, by a clock that shows current                          *)
ClassifyByStatus(row, current) ==               \* mutant of ClassifyMeeting
    CASE row.status \in Ended -> "ended"
      [] row.status \in {"starting", "started"} -> "started"
      [] OTHER -> IF row.start - AboutToStart <= current /\ current < row.start
                  THEN "about_to_start" ELSE "scheduled"
ClassifyMeeting(row, current) ==
    CASE row.status \in Ended -> "ended"
      [] row.status \notin Ended /\ (row.status = "starting" \/ row.started) -> "started"
      [] OTHER -> IF row.start - AboutToStart <= current /\ current < row.start
                  THEN "about_to_start" ELSE "scheduled"

(* A meeting as the lists show it, and as a line of the export             *)
Card(m) == [id |-> m, start |-> table[m].start, end |-> table[m].end,
            endpoints |-> table[m].endpoints]
ExportRows(first, last) ==
    {Card(m) : m \in {x \in Known : Touches(x, first * Day, (last + 1) * Day)}}
----------------------------------------------------------------------------
(* Requests.  Each looks at the row first and writes later, when the row   *)
(* may be another: the status an edit asks for, and the start that a new   *)
(* end is compared with, are those of the row read.                        *)
Write(m, row) == table' = [table EXCEPT ![m] = row]
Create(m, start, end, endpoints) ==
    /\ m \notin Known \cup gone
    /\ start < end
    /\ Write(m, [status |-> "scheduled", start |-> start, end |-> end, started |-> FALSE,
                 endpoints |-> endpoints])
    /\ UNCHANGED <<now, gone>>
EditScheduled(m, start, end, endpoints) ==
    /\ m \in Known
    /\ start < end
    /\ Write(m, [table[m] EXCEPT !.start = start, !.end = end, !.endpoints = endpoints])
    /\ UNCHANGED <<now, gone>>
(* extend, and edit of an active meeting                                   *)
Extend(m, end) ==
    /\ m \in Known
    /\ Write(m, [table[m] EXCEPT !.end = end])
    /\ UNCHANGED <<now, gone>>
(* update, add_endpoint, remove_endpoint                                   *)
Assign(m, endpoints) ==
    /\ m \in Known
    /\ Write(m, [table[m] EXCEPT !.endpoints = endpoints])
    /\ UNCHANGED <<now, gone>>
Delete(m) ==
    /\ m \in Known
    /\ Write(m, None)
    /\ gone' = gone \cup {m}
    /\ UNCHANGED now

(* The worker.  A claim looks at the status again, not at the times.       *)
Move(m, row) == Write(m, row) /\ UNCHANGED <<now, gone>>
Starting(m) == In(m, {"scheduled"}) /\ Move(m, [table[m] EXCEPT !.status = "starting"])
Started(m) ==
    /\ In(m, {"starting"})
    /\ Move(m, [table[m] EXCEPT !.status = "started", !.started = TRUE])
Ending(m) == In(m, {"started"}) /\ Move(m, [table[m] EXCEPT !.status = "ending"])
End(m) ==                                       \* also of one that was missed
    /\ In(m, {"ending", "scheduled", "starting"})
    /\ \E s \in Ended : Move(m, [table[m] EXCEPT !.status = s])
WorkerMoves(m) == Starting(m) \/ Started(m) \/ Ending(m) \/ End(m)

Pass ==
    /\ now' = now + 1 /\ now' \in Times
    /\ UNCHANGED <<table, gone>>

Change(m) ==
    \/ \E S \in SUBSET Endpoints : Assign(m, S)
    \/ \E end \in Times : Extend(m, end)
    \/ Delete(m)
    \/ \E start, end \in Times, S \in SUBSET Endpoints :
          Create(m, start, end, S) \/ EditScheduled(m, start, end, S)
CalendarNext == Pass \/ \E m \in Meetings : Change(m) \/ WorkerMoves(m)

CalendarSpec == CalendarInit /\ [][CalendarNext]_calendarVars
----------------------------------------------------------------------------
(* Each request compares the end with a start, yet two of them together    *)
(* may leave a meeting that ends before it starts: its day is not defined. *)
Proper == {m \in Known : table[m].start < table[m].end}

(* The month view and the export ask for a range, the day view for a day:  *)
(* a range holds exactly the meetings of its days, wherever a meeting lies *)
(* or is moved to, over midnight or ending at midnight; and so does the    *)
(* export.                                                                 *)
RangeIsItsDays ==
    \A first, last \in Days : first <= last =>
        LET ofDays == UNION {MeetingsForDay(d) : d \in first..last}
        IN  /\ MeetingsForRange(first, last) \cap Proper = ofDays \cap Proper
            /\ ofDays \subseteq MeetingsForRange(first, last)
            /\ {c \in ExportRows(first, last) : c.start < c.end} = {Card(m) : m \in ofDays \cap Proper}

(* A meeting is in the lists of all days that it has a part in, and of no  *)
(* other, but for the day that begins the moment it ends: no change of its *)
(* times loses it or leaves it on a day where it is not.                   *)
InItsDays ==
    \A m \in Proper, d \in Days :
        LET part == \E t \in Times : t \div Day = d /\ table[m].start <= t /\ t < table[m].end
        IN  m \in MeetingsForDay(d) <=> part \/ table[m].end = d * Day

(* The worker starts and ends meetings by comparing texts.  Whether a      *)
(* clock that shows fractions of a second meets a time that does not, or   *)
(* the other way round, each meeting is a candidate from the moment it is  *)
(* due, not before and without a gap, and of one job at a time.            *)
JobsTakeWhatIsDue ==
    /\ DueToEnd = {m \in Known : In(m, {"started"}) /\ table[m].end <= now}
    /\ Missed = {m \in Known : In(m, {"scheduled"}) /\ table[m].end <= now}
    /\ Missed \cup DueToStart =
            {m \in Known : In(m, {"scheduled"}) /\ (table[m].start <= now \/ table[m].end <= now)}
    /\ Missed \cap DueToStart = {}

(* While a meeting keeps its start its label only moves forward, through   *)
(* all steps of the worker and however late it is; except that it is again *)
(* called scheduled between its start and the tick that claims it.         *)
Rank(label) == CASE label = "scheduled" -> 0 [] label = "about_to_start" -> 1
                 [] label = "started" -> 2 [] label = "ended" -> 3
LabelMovesForward ==
    [][\A m \in Known :
        table'[m] # None /\ table'[m].start = table[m].start =>
            \/ Rank(ClassifyMeeting(table'[m], now')) >= Rank(ClassifyMeeting(table[m], now))
            \/ table'[m].status = "scheduled" /\ now' = table[m].start]_calendarVars

(* meetings_for_range: "Return all meetings overlapping the inclusive date *)
(* range": what it returns has a moment in the range.                      *)
RangeIsOverlap ==
    \A first, last \in Days : \A m \in MeetingsForRange(first, last) :
        \E t \in Times : table[m].start <= t /\ t < table[m].end /\ t \div Day \in first..last
=============================================================================
