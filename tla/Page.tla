-------------------------------- MODULE Page --------------------------------
(***************************************************************************)
(* A browser page that shows the calendar (app.js): the meetings of the    *)
(* day picked, the month, the detail of one meeting, and the requests that *)
(* fill them, which may overtake each other, be answered late or fail.     *)
(*                                                                         *)
(* An answer is put together while the table changes: one SELECT finds the *)
(* meetings, then each is read by itself.                                  *)
(***************************************************************************)
EXTENDS Calendar

CONSTANTS
    Readers,        \* BOUND: requests of the page under way at one time
    Windows,        \* BOUND: times that meetings are given, <<start, end>>
    MaxWrites,      \* BOUND: requests that write
    MaxClicks,      \* BOUND: clicks of the user that write nothing
    MaxFailures     \* BOUND: requests that fail

ASSUME PageAssumption ==
    /\ Windows \subseteq Times \X Times
    /\ MaxWrites \in Nat /\ MaxClicks \in Nat /\ MaxFailures \in Nat
    /\ None \notin Meetings
    /\ None \notin [id : Meetings, start : Times, end : Times, endpoints : SUBSET Endpoints]

VARIABLES
    picked,         \* #dayPicker
    list,           \* state.meetings: cards, and None for a null
    month,          \* state.monthMeetings
    view,           \* state.calendarView
    selected,       \* state.calendarSelectedMeetingId
    reader,         \* the requests: what they ask, for what, how far they are
    writes, clicks, failures
pageVars == <<picked, list, month, view, selected, reader, writes, clicks, failures>>
vars == <<calendarVars, pageVars>>
----------------------------------------------------------------------------
Cards == [id : Meetings, start : Times, end : Times, endpoints : SUBSET Endpoints]
Views == {"month", "list", "meeting"}
Purposes == {"show", "select", "poll", "mutation"}      \* what an answer is for
Free == [at |-> "free"]
Asked(what, first, last, purpose) ==
    [at |-> "asked", what |-> what, first |-> first, last |-> last, purpose |-> purpose,
     ids |-> {}, items |-> {}]
Requests == [at : {"asked", "reading"}, what : {"day", "month"}, first : Days, last : Days,
             purpose : Purposes, ids : SUBSET Meetings, items : SUBSET (Cards \cup {None})]

PageTypeOK ==
    /\ picked \in Days
    /\ list \subseteq Cards \cup {None} /\ month \subseteq Cards \cup {None}
    /\ view \in Views
    /\ selected \in Meetings \cup {None}
    /\ reader \in [Readers -> Requests \cup {Free}]
    /\ writes \in 0..MaxWrites /\ clicks \in 0..MaxClicks /\ failures \in 0..MaxFailures

PageInit ==
    /\ picked = 0
    /\ list = {} /\ month = {}
    /\ view = "month" /\ selected = None
    /\ reader = [r \in Readers |-> Free]
    /\ writes = 0 /\ clicks = 0 /\ failures = 0

DayCards(day) == {Card(m) : m \in MeetingsForDay(day)}
MonthCards == {Card(m) : m \in MeetingsForRange(0, LastDay)}
Listed(m) == \E c \in list \ {None} : c.id = m
IsFree(r) == reader[r] = Free
AskDay(r, day, purpose) == reader' = [reader EXCEPT ![r] = Asked("day", day, day, purpose)]
AskMonth(r, purpose) == reader' = [reader EXCEPT ![r] = Asked("month", 0, LastDay, purpose)]
Done(r) == reader' = [reader EXCEPT ![r] = Free]
----------------------------------------------------------------------------
(* The server: api_meetings and api_meetings_range.                        *)
Select(r) ==
    /\ reader[r].at = "asked"
    /\ reader' = [reader EXCEPT ![r].at = "reading",
                                ![r].ids = MeetingsForRange(reader[r].first, reader[r].last)]
    /\ UNCHANGED <<calendarVars, writes, picked, list, month, view, selected, clicks, failures>>
(* fetch_meeting_with_endpoints: a meeting deleted in between gives a None *)
Fetch(r) ==
    /\ reader[r].at = "reading"
    /\ \E m \in reader[r].ids :
          reader' = [reader EXCEPT ![r].ids = @ \ {m},
                                   ![r].items = @ \cup {IF m \in Known THEN Card(m) ELSE None}]
    /\ UNCHANGED <<calendarVars, writes, picked, list, month, view, selected, clicks, failures>>
Answered(r) == reader[r].at = "reading" /\ reader[r].ids = {}
----------------------------------------------------------------------------
(* The page.  An answer with a null in it is stored, and then the first    *)
(* renderer that reads a field of it throws: what was to follow is not     *)
(* done.                                                                   *)
Broken(items) == None \in items

(* loadMeetings and what each of its callers does next                     *)
ArriveDayOnly(r) ==                             \* mutant of ArriveDay
    /\ Answered(r) /\ reader[r].what = "day"
    /\ list' = reader[r].items
    /\ view' = IF reader[r].purpose = "select" /\ ~Broken(list') THEN "meeting" ELSE view
    /\ Done(r)
    /\ UNCHANGED <<calendarVars, writes, picked, month, selected, clicks, failures>>
ArriveDay(r) ==
    LET request == reader[r]
        goesOn == /\ request.purpose \in {"poll", "mutation"} /\ ~Broken(request.items)
                  /\ view \in {"month", "meeting"}
    IN  /\ Answered(r) /\ request.what = "day"
        /\ list' = request.items
        /\ view' = IF request.purpose = "select" /\ ~Broken(list') THEN "meeting" ELSE view
        /\ IF goesOn THEN AskMonth(r, request.purpose) ELSE Done(r)
        /\ UNCHANGED <<calendarVars, writes, picked, month, selected, clicks, failures>>

(* stillExists: looked up in the list of the day picked                    *)
StaysAlways(purpose) == view                    \* mutant of ViewAfterMonth
ViewAfterMonth(purpose) ==
    IF /\ purpose \in {"poll", "mutation"} /\ view = "meeting"
       /\ ~Listed(selected)
       /\ purpose = "poll" => selected # None
    THEN "month" ELSE view
(* loadMonthMeetings, and the end of the poll and of refreshAfterMutation: *)
(* neither looks at the list when the month, or the list, holds a null     *)
ArriveMonth(r) ==
    /\ Answered(r) /\ reader[r].what = "month"
    /\ month' = reader[r].items
    /\ view' = IF Broken(month') \/ Broken(list) THEN view ELSE ViewAfterMonth(reader[r].purpose)
    /\ Done(r)
    /\ UNCHANGED <<calendarVars, writes, picked, list, selected, clicks, failures>>
Fail(r) ==
    /\ ~IsFree(r) /\ failures < MaxFailures
    /\ failures' = failures + 1
    /\ IF reader[r].what = "month"
       THEN /\ month' = {}
            /\ view' = IF Broken(list) THEN view ELSE ViewAfterMonth(reader[r].purpose)
       ELSE UNCHANGED <<month, view>>
    /\ Done(r)
    /\ UNCHANGED <<calendarVars, writes, picked, list, selected, clicks>>

(* Every three seconds, whether or not the last poll is over               *)
Poll(r) ==
    /\ IsFree(r)
    /\ AskDay(r, picked, "poll")
    /\ UNCHANGED <<calendarVars, writes, picked, list, month, view, selected, clicks, failures>>

Click == clicks < MaxClicks /\ clicks' = clicks + 1
PickDay(r, day) ==
    /\ Click /\ IsFree(r)
    /\ picked' = day
    /\ AskDay(r, day, "show")
    /\ UNCHANGED <<calendarVars, writes, list, month, view, selected, failures>>
(* A click on a meeting of the month picks the day of the cell it stands   *)
(* in; the days of browser and server are the same here                    *)
CellOf(c) == c.start \div Day
ClickMonth(r) ==
    /\ Click /\ IsFree(r) /\ view = "month"
    /\ \E c \in month \ {None} :
          /\ selected' = c.id
          /\ picked' = CellOf(c)
          /\ AskDay(r, CellOf(c), "select")
    /\ UNCHANGED <<calendarVars, writes, list, month, view, failures>>
ClickTimelineAsItIs ==                          \* mutant of ClickTimeline
    /\ Click /\ list \ {None} # {}
    /\ view' = "meeting"
    /\ UNCHANGED <<calendarVars, writes, picked, list, month, selected, reader, failures>>
ClickTimeline ==
    /\ Click
    /\ \E c \in list \ {None} : selected' = c.id
    /\ view' = "meeting"
    /\ UNCHANGED <<calendarVars, writes, picked, list, month, reader, failures>>
ClickCalendar(r) ==
    /\ Click /\ IsFree(r)
    /\ view' = "month"
    /\ AskMonth(r, "show")
    /\ UNCHANGED <<calendarVars, writes, picked, list, month, selected, failures>>
ClickView(v) ==
    /\ Click
    /\ view' = v
    /\ UNCHANGED <<calendarVars, writes, picked, list, month, selected, reader, failures>>
----------------------------------------------------------------------------
(* Busy: another meeting of the list overlaps and has the endpoint         *)
Overlaps(a, b) == a.start < b.end /\ a.end > b.start
Busy(e, m, start, end) ==
    \E c \in list \ {None} :
        c.id # m /\ e \in c.endpoints /\ Overlaps(c, [start |-> start, end |-> end])

(* The writes of this page, which then refreshes, and those of others      *)
OneMoreWrite == writes < MaxWrites /\ writes' = writes + 1
Writes(m, start, end, S) == Create(m, start, end, S) \/ EditScheduled(m, start, end, S)
PageWrites(r) ==
    /\ OneMoreWrite /\ IsFree(r)
    /\ \/ \E m \in Meetings, w \in Windows, S \in SUBSET Endpoints :
             Writes(m, w[1], w[2], S) /\ \A e \in S : ~Busy(e, m, w[1], w[2])
       \/ \E c \in list \ {None} : Delete(c.id)
    /\ AskDay(r, picked, "mutation")
    /\ UNCHANGED <<picked, list, month, view, selected, clicks, failures>>
OthersWrite ==
    /\ OneMoreWrite
    /\ \E m \in Meetings : \/ \E w \in Windows, S \in SUBSET Endpoints : Writes(m, w[1], w[2], S)
                           \/ Delete(m)
    /\ UNCHANGED <<picked, list, month, view, selected, reader, clicks, failures>>

Init == CalendarInit /\ PageInit
Serve(r) == Select(r) \/ Fetch(r)
Arrive(r) == ArriveDay(r) \/ ArriveMonth(r)
Users ==
    \/ \E r \in Readers : \/ \E d \in Days : PickDay(r, d)
                          \/ ClickMonth(r) \/ ClickCalendar(r) \/ PageWrites(r)
    \/ ClickTimeline \/ ClickView("month") \/ ClickView("list")
Next ==
    \/ \E r \in Readers : Serve(r) \/ Arrive(r) \/ Fail(r) \/ Poll(r)
    \/ Users
    \/ OthersWrite
Spec == Init /\ [][Next]_vars

(* The server answers what it is asked, the browser runs the continuation  *)
(* of an answer, and the timer of the poll goes on.                        *)
Fairness == \A r \in Readers :
    WF_vars(Serve(r)) /\ WF_vars(Arrive(r)) /\ WF_vars(Poll(r))
FairSpec == Spec /\ Fairness
----------------------------------------------------------------------------
(* Once nobody writes, clicks or fails any more, the page shows the table: *)
(* the list is the day picked, and the month, where it is shown, is the    *)
(* month; answers that overtook each other, were read half before and half *)
(* after a change, or held a null, are replaced by those of a later poll.  *)
PageSettles ==
    <>[](/\ list = DayCards(picked)
         /\ view # "list" => month = MonthCards)

(* "When selected meeting disappears in poll, returns to month view": the  *)
(* detail of a meeting that is deleted is left, whatever answers about it  *)
(* are still on their way.                                                 *)
GoneIsLeft == [](view = "meeting" /\ selected \in gone => <>(view # "meeting"))

(* What the page shows is or was there: its cards are of meetings that     *)
(* were booked, a null in a list stands for one that was deleted, and the  *)
(* detail is of such a meeting - however answers overtake deletions.       *)
OnlyRealMeetings ==
    /\ \A c \in (list \cup month) \ {None} : c.id \in Known \cup gone
    /\ None \in list \cup month => gone # {}
    /\ view = "meeting" => selected \in Known \cup gone

(* "When selected meeting still exists after poll, it remains selected":   *)
(* no poll takes the page from the detail of a meeting that exists.        *)
SelectedRemains ==
    [][\A r \in Readers :
        ArriveMonth(r) /\ reader[r].purpose = "poll" /\ view = "meeting" /\ view' = "month"
            => selected \notin Known]_vars

(* "Two overlapping meetings are both in the list so client detects        *)
(* conflicts": with a list that is up to date the page gives no endpoint   *)
(* to two meetings at the same time.                                       *)
Clash(m, other) == /\ m # other /\ {m, other} \subseteq Known
                   /\ Overlaps(table[m], table[other])
                   /\ table[m].endpoints \cap table[other].endpoints # {}
ConflictsAreDetected ==
    [][(\E r \in Readers : PageWrites(r)) /\ list = DayCards(picked) =>
        \A m, other \in Meetings : Clash(m, other)' => Clash(m, other)]_vars

(* "Both must return meeting status and times for rendering."              *)
ItemsHaveTimes == None \notin list \cup month
=============================================================================
