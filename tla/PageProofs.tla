----------------------------- MODULE PageProofs -----------------------------
(***************************************************************************)
(* Theorems about Calendar and about the page that shows it, for any       *)
(* meetings, endpoints, number and length of days, requests and bounds.    *)
(*                                                                         *)
(* Calendar: the lists are a matter of arithmetic (a day is an interval of *)
(* times, and the range of days from first to last is the interval from    *)
(* the start of first to the end of last) and hold in every state of the   *)
(* right types; the labels need to know that a row that says started has   *)
(* its started_at.  Page: its requests change the table as Calendar says,  *)
(* so all of that holds of it too; what it shows needs an invariant about  *)
(* the answers that are still on their way.                                *)
(***************************************************************************)
EXTENDS Page, TLAPS
----------------------------------------------------------------------------
(* Days and the times in them.                                             *)
LEMMA Product ==
    ASSUME NEW a \in Int, NEW b \in Int, NEW k \in Int, a <= b, 0 <= k
    PROVE  a * k <= b * k
  <1>1. (b - a) * k >= 0
    BY SMT
  <1>2. (b - a) * k = b * k - a * k
    BY SMT
  <1>3. a * k \in Int /\ b * k \in Int
    BY SMT
  <1> QED BY <1>1, <1>2, <1>3, SMT

LEMMA DayNumber ==
    ASSUME NEW t \in Nat
    PROVE  LET d == t \div Day IN d \in Nat /\ d * Day <= t /\ t < (d + 1) * Day
  BY CalendarAssumption, SMT

(* The texts are in the order of the times: within a second the whole one  *)
(* comes first, since "+" is before ".".                                   *)
LEMMA IsoOrder ==
    ASSUME NEW a \in Nat, NEW b \in Nat
    PROVE  Before(Iso(a), Iso(b)) <=> a < b
  <1> DEFINE qa == a \div Second
             qb == b \div Second
             ra == a % Second
             rb == b % Second
  <1>1. Second \in Nat /\ Second > 0
    BY CalendarAssumption
  <1>2. /\ qa \in Nat /\ ra \in Nat /\ ra < Second /\ a = qa * Second + ra
        /\ qb \in Nat /\ rb \in Nat /\ rb < Second /\ b = qb * Second + rb
    BY <1>1, SMT
  <1> HIDE DEF qa, qb, ra, rb
  <1>3. ASSUME NEW q \in Nat, NEW p \in Nat, q < p
        PROVE  q * Second \in Nat /\ p * Second \in Nat /\ q * Second + Second <= p * Second
    <2>1. (q + 1) * Second <= p * Second
      BY <1>1, <1>3, Product
    <2> QED BY <1>1, <2>1, SMT
  <1>4. qa * Second \in Nat
    BY <1>1, <1>2, SMT
  <1>5. a < b <=> qa < qb \/ (qa = qb /\ ra < rb)
    <2>1. CASE qa < qb
      BY <1>1, <1>2, <1>3, <2>1
    <2>2. CASE qb < qa
      BY <1>1, <1>2, <1>3, <2>2
    <2>3. CASE qa = qb
      <3> DEFINE n == qa * Second
      <3>1. a = n + ra /\ b = n + rb /\ n \in Nat
        BY <1>2, <1>4, <2>3
      <3> HIDE DEF n
      <3> QED BY <1>2, <2>3, <3>1
    <2> QED BY <1>2, <2>1, <2>2, <2>3
  <1>6. Before(Iso(a), Iso(b)) <=> qa < qb \/ (qa = qb /\ ra < rb)
    BY <1>2 DEF Before, Iso, Plus, Dot, qa, qb, ra, rb
  <1> QED BY <1>5, <1>6

LEMMA DayBounds ==
    /\ Day \in Nat /\ Day > 0 /\ LastDay \in Nat
    /\ \A d \in Days : /\ d \in Nat /\ d * Day \in Nat /\ (d + 1) * Day \in Nat
                       /\ (d + 1) * Day = d * Day + Day
                       /\ d * Day \in Times
    /\ \A t \in Times : t \in Nat /\ t < (LastDay + 1) * Day
  <1>1. Day \in Nat /\ Day > 0 /\ LastDay \in Nat
    BY CalendarAssumption
  <1>2. Day * (LastDay + 1) = LastDay * Day + Day /\ LastDay * Day \in Nat
    BY <1>1, SMT
  <1>3. ASSUME NEW d \in Days
        PROVE  /\ d \in Nat /\ d * Day \in Nat /\ (d + 1) * Day \in Nat
               /\ (d + 1) * Day = d * Day + Day
               /\ d * Day \in Times
    <2>1. d \in Nat /\ d <= LastDay
      BY <1>1, <1>3 DEF Days
    <2>2. d * Day \in Nat /\ (d + 1) * Day \in Nat /\ (d + 1) * Day = d * Day + Day
      BY <1>1, <2>1, SMT
    <2>3. d * Day <= LastDay * Day
      BY <1>1, <2>1, Product
    <2> QED BY <1>1, <1>2, <2>1, <2>2, <2>3 DEF Times
  <1>4. \A t \in Times : t \in Nat /\ t < (LastDay + 1) * Day
    BY <1>1, <1>2, SMT DEF Times
  <1> QED BY <1>1, <1>3, <1>4

(* A time is in day d if it is not before d nor after it.                  *)
LEMMA InDay ==
    ASSUME NEW t \in Nat, NEW d \in Nat
    PROVE  t \div Day = d <=> d * Day <= t /\ t < (d + 1) * Day
  <1> DEFINE q == t \div Day
  <1>1. q \in Nat /\ q * Day <= t /\ t < (q + 1) * Day
    BY DayNumber
  <1>2. Day \in Nat
    BY CalendarAssumption
  <1> HIDE DEF q
  <1>3. CASE q < d
    <2>1. (q + 1) * Day <= d * Day
      BY <1>1, <1>2, <1>3, Product
    <2>2. (q + 1) * Day \in Nat /\ d * Day \in Nat
      BY <1>1, <1>2, SMT
    <2> QED BY <1>1, <1>3, <2>1, <2>2 DEF q
  <1>4. CASE d < q
    <2>1. (d + 1) * Day <= q * Day
      BY <1>1, <1>2, <1>4, Product
    <2>2. (d + 1) * Day \in Nat /\ q * Day \in Nat
      BY <1>1, <1>2, SMT
    <2> QED BY <1>1, <1>4, <2>1, <2>2 DEF q
  <1> QED BY <1>1, <1>3, <1>4 DEF q

LEMMA RowTimes ==
    ASSUME CalendarTypeOK, NEW m \in Known
    PROVE  /\ m \in Meetings /\ table[m] \in Row
           /\ table[m].start \in Times /\ table[m].end \in Times
           /\ table[m].start \in Nat /\ table[m].end \in Nat
  BY DayBounds DEF CalendarTypeOK, Known, Row

(* What the queries select, by times.                                      *)
LEMMA TouchesTimes ==
    ASSUME CalendarTypeOK, NEW m \in Known, NEW from \in Nat, NEW to \in Nat
    PROVE  Touches(m, from, to) <=> table[m].start < to /\ table[m].end >= from
  <1>1. table[m].start \in Nat /\ table[m].end \in Nat
    BY RowTimes
  <1> QED BY <1>1, IsoOrder DEF Touches, NotAfter
----------------------------------------------------------------------------
(* A step that changes the row of one meeting.                             *)
LEMMA WriteStep ==
    ASSUME CalendarTypeOK, NEW m \in Meetings, NEW r \in Row \cup {None}, Write(m, r)
    PROVE  /\ table' \in [Meetings -> Row \cup {None}]
           /\ table'[m] = r
           /\ \A n \in Meetings \ {m} : table'[n] = table[n]
  BY DEF CalendarTypeOK, Write

(* How the status of a row goes on.                                        *)
GoesOn(r, r1) ==
    \/ r1.status = r.status /\ r1.started = r.started
    \/ r.status = "scheduled" /\ r1.status = "starting"
    \/ r.status = "starting" /\ r1.status = "started" /\ r1.started
    \/ r.status = "started" /\ r1.status = "ending" /\ r1.started = r.started
    \/ r1.status \in Ended
RowsGoOn ==
    \A m \in Meetings :
        /\ table[m] # None /\ table'[m] # None => GoesOn(table[m], table'[m])
        /\ table[m] = None /\ table'[m] # None => table'[m].status = "scheduled"

LEMMA OneGoesOn ==
    ASSUME CalendarTypeOK, NEW m \in Meetings, NEW r \in Row \cup {None}, Write(m, r), now' = now,
           gone' = gone \/ gone' = gone \cup {m},
           table[m] # None /\ r # None => GoesOn(table[m], r),
           table[m] = None /\ r # None => r.status = "scheduled"
    PROVE  CalendarTypeOK' /\ RowsGoOn
  <1>1. CalendarTypeOK'
    BY WriteStep DEF CalendarTypeOK
  <1>2. \A n \in Meetings : table[n] # None /\ table'[n] = table[n] => GoesOn(table[n], table'[n])
    BY DEF GoesOn
  <1> QED BY <1>1, <1>2, WriteStep DEF RowsGoOn

LEMMA ChangeStep ==
    ASSUME CalendarTypeOK, NEW m \in Meetings, Change(m)
    PROVE  CalendarTypeOK' /\ RowsGoOn /\ now' = now
  <1> DEFINE r == table[m]
  <1>r. m \in Known => r \in Row
    BY RowTimes
  <1>1. ASSUME NEW a \in Times, NEW b \in Times, NEW S \in SUBSET Endpoints, Create(m, a, b, S)
        PROVE  CalendarTypeOK' /\ RowsGoOn /\ now' = now
    <2>1. [status |-> "scheduled", start |-> a, end |-> b, started |-> FALSE,
           endpoints |-> S] \in Row
      BY DEF Row, Status
    <2>2. table[m] = None
      BY <1>1 DEF Create, Known
    <2> QED BY <1>1, <2>1, <2>2, OneGoesOn DEF Create
  <1>2. ASSUME NEW a \in Times, NEW b \in Times, NEW S \in SUBSET Endpoints,
               EditScheduled(m, a, b, S) \/ Extend(m, b) \/ Assign(m, S)
        PROVE  CalendarTypeOK' /\ RowsGoOn /\ now' = now
    <2>1. r \in Row /\ r # None
      BY <1>2, <1>r DEF EditScheduled, Extend, Assign, Known
    <2>2. PICK r1 \in {[r EXCEPT !.start = a, !.end = b, !.endpoints = S],
                       [r EXCEPT !.end = b], [r EXCEPT !.endpoints = S]} : Write(m, r1)
      BY <1>2 DEF EditScheduled, Extend, Assign
    <2>3. r1 \in Row /\ r1.status = r.status /\ r1.started = r.started
      BY ONLY <2>1, <2>2, a \in Times, b \in Times, S \in SUBSET Endpoints DEF Row
    <2>4. now' = now /\ gone' = gone
      BY <1>2 DEF EditScheduled, Extend, Assign
    <2> QED BY <2>1, <2>2, <2>3, <2>4, OneGoesOn DEF GoesOn
  <1>3. CASE Delete(m)
    BY <1>3, OneGoesOn DEF Delete
  <1>4. 0 \in Times
    BY DayBounds DEF Times, Days
  <1> QED BY <1>1, <1>2, <1>3, <1>4 DEF Change

LEMMA MoveStep ==
    ASSUME CalendarTypeOK, NEW m \in Meetings, WorkerMoves(m)
    PROVE  CalendarTypeOK' /\ RowsGoOn /\ now' = now
  <1> DEFINE r == table[m]
  <1>1. r \in Row /\ r # None
    BY RowTimes DEF WorkerMoves, Starting, Started, Ending, End, In, Known
  <1>2. PICK r1 \in {[r EXCEPT !.status = "starting"],
                     [r EXCEPT !.status = "started", !.started = TRUE],
                     [r EXCEPT !.status = "ending"]} \cup {[r EXCEPT !.status = s] : s \in Ended} :
            /\ Write(m, r1) /\ UNCHANGED <<now, gone>>
            /\ \/ r.status = "scheduled" /\ r1 = [r EXCEPT !.status = "starting"]
               \/ r.status = "starting" /\ r1 = [r EXCEPT !.status = "started", !.started = TRUE]
               \/ r.status = "started" /\ r1 = [r EXCEPT !.status = "ending"]
               \/ \E s \in Ended : r1 = [r EXCEPT !.status = s]
    BY DEF WorkerMoves, Starting, Started, Ending, End, In, Move
  <1>3. r1 \in Row /\ GoesOn(r, r1)
    BY ONLY <1>1, <1>2 DEF Row, Status, Ended, GoesOn
  <1> QED BY <1>1, <1>2, <1>3, OneGoesOn

LEMMA CalendarStep ==
    ASSUME CalendarTypeOK, CalendarNext
    PROVE  CalendarTypeOK' /\ RowsGoOn /\ (now' = now \/ Pass)
  <1>1. CASE Pass
    BY <1>1 DEF Pass, CalendarTypeOK, RowsGoOn, GoesOn
  <1> QED BY <1>1, ChangeStep, MoveStep DEF CalendarNext

(* Type correctness of Calendar, for any number of meetings and days.      *)
THEOREM CalendarTypeCorrect == CalendarSpec => []CalendarTypeOK
  <1>1. CalendarInit => CalendarTypeOK
    <2>1. 0 \in Times
      BY DayBounds DEF Times, Days
    <2> QED BY <2>1 DEF CalendarInit, CalendarTypeOK
  <1>2. CalendarTypeOK /\ [CalendarNext]_calendarVars => CalendarTypeOK'
    <2>1. CalendarTypeOK /\ UNCHANGED calendarVars => CalendarTypeOK'
      BY DEF CalendarTypeOK, calendarVars
    <2> QED BY <2>1, CalendarStep
  <1> QED BY <1>1, <1>2, PTL DEF CalendarSpec
----------------------------------------------------------------------------
(* A row that started has its time of start.                               *)
StartedHaveTime == \A m \in Known : table[m].status \in {"started", "ending"} => table[m].started

LEMMA StartedStep ==
    ASSUME CalendarTypeOK, StartedHaveTime, RowsGoOn, CalendarTypeOK'
    PROVE  StartedHaveTime'
  <1> SUFFICES ASSUME NEW m \in Known', table'[m].status \in {"started", "ending"}
               PROVE  table'[m].started
    BY DEF StartedHaveTime
  <1>1. m \in Meetings /\ table'[m] # None
    BY DEF Known
  <1>2. table[m] # None
    BY <1>1 DEF RowsGoOn
  <1>3. table[m].status \in {"started", "ending"} => table[m].started
    BY <1>1, <1>2 DEF StartedHaveTime, Known
  <1> QED BY <1>1, <1>2, <1>3 DEF RowsGoOn, GoesOn, Ended

(* The labels, by rank.                                                    *)
SoonAt(r, c) == r.start - AboutToStart <= c /\ c < r.start
LEMMA Labels ==
    ASSUME NEW r \in Row, NEW c
    PROVE  LET rank == Rank(ClassifyMeeting(r, c))
           IN  /\ r.status \in Ended => rank = 3
               /\ r.status \notin Ended /\ (r.status = "starting" \/ r.started) => rank = 2
               /\ ~(r.status \in Ended \/ r.status = "starting" \/ r.started)
                    => rank = IF SoonAt(r, c) THEN 1 ELSE 0
  <1>1. r.status \in Ended => ClassifyMeeting(r, c) = "ended"
    BY Zenon DEF ClassifyMeeting
  <1>2. r.status \notin Ended /\ (r.status = "starting" \/ r.started)
            => ClassifyMeeting(r, c) = "started"
    BY Zenon DEF ClassifyMeeting
  <1>3. ~(r.status \in Ended \/ r.status = "starting" \/ r.started)
            => ClassifyMeeting(r, c) = IF SoonAt(r, c) THEN "about_to_start" ELSE "scheduled"
    BY Zenon DEF ClassifyMeeting, SoonAt
  <1>4. /\ Rank("scheduled") = 0 /\ Rank("about_to_start") = 1
        /\ Rank("started") = 2 /\ Rank("ended") = 3
    BY DEF Rank
  <1> QED BY <1>1, <1>2, <1>3, <1>4

LEMMA LabelStep ==
    ASSUME CalendarTypeOK, CalendarTypeOK', StartedHaveTime, CalendarNext, NEW m \in Known,
           table'[m] # None, table'[m].start = table[m].start
    PROVE  \/ Rank(ClassifyMeeting(table'[m], now')) >= Rank(ClassifyMeeting(table[m], now))
           \/ table'[m].status = "scheduled" /\ now' = table[m].start
  <1> DEFINE r == table[m]
             r1 == table'[m]
             rank == Rank(ClassifyMeeting(r, now))
             rank1 == Rank(ClassifyMeeting(r1, now'))
             timed(x) == ~(x.status \in Ended \/ x.status = "starting" \/ x.started)
  <1>1. r \in Row /\ r1 \in Row /\ GoesOn(r, r1)
    BY CalendarStep DEF CalendarTypeOK, Known, RowsGoOn
  <1>2. /\ r.status \in Ended => rank = 3
        /\ r.status \notin Ended /\ (r.status = "starting" \/ r.started) => rank = 2
        /\ timed(r) => rank = IF SoonAt(r, now) THEN 1 ELSE 0
    BY <1>1, Labels
  <1>3. /\ r1.status \in Ended => rank1 = 3
        /\ r1.status \notin Ended /\ (r1.status = "starting" \/ r1.started) => rank1 = 2
        /\ timed(r1) => rank1 = IF SoonAt(r1, now') THEN 1 ELSE 0
    BY <1>1, Labels
  <1>4. CASE now' = now
    <2>1. SoonAt(r1, now') <=> SoonAt(r, now)
      BY <1>4 DEF SoonAt
    <2>2. r1.started \in BOOLEAN /\ r.started \in BOOLEAN
      BY <1>1 DEF Row
    <2> HIDE DEF rank, rank1
    <2>3. rank1 >= rank
      BY <1>1, <1>2, <1>3, <2>1, <2>2 DEF GoesOn, Ended
    <2> QED BY <2>3 DEF rank, rank1
  <1>5. CASE Pass
    <2>1. r1 = r /\ now' = now + 1 /\ now \in Int /\ r.start \in Int
      BY <1>1, <1>5 DEF Pass, CalendarTypeOK, Times, Row
    <2>2. timed(r) => r.status = "scheduled"
      BY <1>1 DEF StartedHaveTime, Row, Status
    <2>3. SoonAt(r, now) => SoonAt(r1, now') \/ now' = r.start
      BY <2>1, CalendarAssumption DEF SoonAt
    <2> HIDE DEF rank, rank1
    <2>4. rank1 >= rank \/ (r1.status = "scheduled" /\ now' = r.start)
      BY <1>2, <1>3, <2>1, <2>2, <2>3
    <2> QED BY <2>4 DEF rank, rank1
  <1> QED BY <1>4, <1>5, CalendarStep

(* The label of a meeting never goes back, over any run of requests and    *)
(* steps of the worker, however late these come.                           *)
THEOREM LabelsCorrect == CalendarSpec => LabelMovesForward
  <1>1. CalendarInit => StartedHaveTime
    BY DEF CalendarInit, StartedHaveTime, Known
  <1>2. CalendarTypeOK /\ StartedHaveTime /\ [CalendarNext]_calendarVars => StartedHaveTime'
    <2>1. StartedHaveTime /\ UNCHANGED calendarVars => StartedHaveTime'
      BY DEF StartedHaveTime, Known, calendarVars
    <2> QED BY <2>1, CalendarStep, StartedStep
  <1>3. CalendarTypeOK /\ CalendarTypeOK' /\ StartedHaveTime /\ [CalendarNext]_calendarVars =>
          [\A m \in Known :
            table'[m] # None /\ table'[m].start = table[m].start =>
                \/ Rank(ClassifyMeeting(table'[m], now')) >= Rank(ClassifyMeeting(table[m], now))
                \/ table'[m].status = "scheduled" /\ now' = table[m].start]_calendarVars
    BY LabelStep
  <1> QED BY <1>1, <1>2, <1>3, CalendarTypeCorrect, PTL DEF CalendarSpec, LabelMovesForward
----------------------------------------------------------------------------
(* The lists of a range of days and of its days.                           *)
LEMMA FirstDay ==
    ASSUME CalendarTypeOK, NEW m \in Proper, NEW first \in Days, NEW last \in Days,
           first <= last, m \in MeetingsForRange(first, last)
    PROVE  \E d \in first..last : m \in MeetingsForDay(d)
  <1> DEFINE a == table[m].start
             b == table[m].end
             q == a \div Day
  <1>1. a \in Nat /\ b \in Nat /\ a < b /\ m \in Known
    BY RowTimes DEF Proper
  <1>2. a < (last + 1) * Day /\ b >= first * Day
    BY DayBounds, TouchesTimes DEF MeetingsForRange
  <1>3. q \in Nat /\ q * Day <= a /\ a < (q + 1) * Day
    BY <1>1, DayNumber
  <1>4. /\ first \in Nat /\ last \in Nat /\ Day \in Nat /\ first \in first..last
        /\ first * Day \in Nat /\ (first + 1) * Day = first * Day + Day
    BY DayBounds
  <1> HIDE DEF a, b, q
  <1>5. CASE q >= first
    <2>1. q <= last
      <3>1. CASE q >= last + 1
        <4>1. (last + 1) * Day <= q * Day
          BY <1>3, <1>4, <3>1, Product
        <4>2. (last + 1) * Day \in Nat /\ q * Day \in Nat
          BY <1>3, <1>4, SMT
        <4> QED BY <1>1, <1>2, <1>3, <4>1, <4>2
      <3> QED BY <1>3, <1>4, <3>1
    <2>2. q * Day \in Nat
      BY <1>3, <1>4, SMT
    <2>3. Touches(m, q * Day, (q + 1) * Day)
      <3>1. (q + 1) * Day \in Nat
        BY <1>3, <1>4, SMT
      <3>2. a < (q + 1) * Day /\ b >= q * Day
        BY <1>1, <1>3, <2>2
      <3> QED BY <1>1, <2>2, <3>1, <3>2, TouchesTimes DEF a, b
    <2>4. q \in first..last
      BY <1>3, <1>4, <1>5, <2>1
    <2> QED BY <1>1, <2>3, <2>4 DEF MeetingsForDay
  <1>6. CASE q < first
    <2>1. (q + 1) * Day <= first * Day
      BY <1>3, <1>4, <1>6, Product
    <2>2. (q + 1) * Day \in Nat
      BY <1>3, <1>4, SMT
    <2>3. Touches(m, first * Day, (first + 1) * Day)
      <3>1. (first + 1) * Day \in Nat /\ a < (first + 1) * Day
        BY <1>1, <1>3, <1>4, <2>1, <2>2
      <3> QED BY <1>1, <1>2, <1>4, <3>1, TouchesTimes DEF a, b
    <2> QED BY <1>1, <1>4, <2>3 DEF MeetingsForDay
  <1> QED BY <1>3, <1>4, <1>5, <1>6

LEMMA DaysInRange ==
    ASSUME CalendarTypeOK, NEW first \in Days, NEW last \in Days, NEW d \in first..last,
           NEW m \in MeetingsForDay(d)
    PROVE  m \in MeetingsForRange(first, last)
  <1>1. m \in Known /\ table[m].start < (d + 1) * Day /\ table[m].end >= d * Day
    BY DayBounds, TouchesTimes DEF MeetingsForDay, Days
  <1>2. table[m].start \in Nat /\ table[m].end \in Nat
    BY <1>1, RowTimes
  <1>3. /\ first \in Nat /\ last \in Nat /\ Day \in Nat /\ d \in Nat
        /\ first <= d /\ d + 1 <= last + 1
    BY DayBounds
  <1>4. first * Day <= d * Day /\ (d + 1) * Day <= (last + 1) * Day
    BY <1>3, Product
  <1>5. first * Day \in Nat /\ d * Day \in Nat /\ (d + 1) * Day \in Nat /\ (last + 1) * Day \in Nat
    BY <1>3, SMT
  <1>6. Touches(m, first * Day, (last + 1) * Day)
    BY <1>1, <1>2, <1>4, <1>5, TouchesTimes
  <1> QED BY <1>1, <1>6 DEF MeetingsForRange

LEMMA RangeOfDays == CalendarTypeOK => RangeIsItsDays
  <1> SUFFICES ASSUME CalendarTypeOK, NEW first \in Days, NEW last \in Days, first <= last
               PROVE  LET ofDays == UNION {MeetingsForDay(d) : d \in first..last}
                      IN  /\ MeetingsForRange(first, last) \cap Proper = ofDays \cap Proper
                          /\ ofDays \subseteq MeetingsForRange(first, last)
                          /\ {c \in ExportRows(first, last) : c.start < c.end}
                                = {Card(m) : m \in ofDays \cap Proper}
    BY DEF RangeIsItsDays
  <1> DEFINE ofDays == UNION {MeetingsForDay(d) : d \in first..last}
             range == MeetingsForRange(first, last)
  <1>1. ofDays \subseteq range
    BY DaysInRange
  <1>2. range \cap Proper \subseteq ofDays
    BY FirstDay
  <1>3. ExportRows(first, last) = {Card(m) : m \in range}
    BY DEF ExportRows, MeetingsForRange
  <1>4. \A m \in range : m \in Known
    BY DEF MeetingsForRange
  <1> HIDE DEF ofDays, range
  <1>5. \A m : Card(m).start = table[m].start /\ Card(m).end = table[m].end
    BY DEF Card
  <1>6. {c \in {Card(m) : m \in range} : c.start < c.end} = {Card(m) : m \in range \cap Proper}
    BY <1>4, <1>5 DEF Proper
  <1>7. range \cap Proper = ofDays \cap Proper
    BY <1>1, <1>2
  <1> QED BY <1>1, <1>3, <1>6, <1>7 DEF ofDays, range

(* A meeting and a day it has a part in.                                   *)
LEMMA PartOfDay ==
    ASSUME CalendarTypeOK, NEW m \in Proper, NEW d \in Days
    PROVE  m \in MeetingsForDay(d)
             <=> \/ \E t \in Times : t \div Day = d /\ table[m].start <= t /\ t < table[m].end
                 \/ table[m].end = d * Day
  <1> DEFINE a == table[m].start
             b == table[m].end
             x == d * Day
             y == (d + 1) * Day
  <1>1. a \in Nat /\ b \in Nat /\ a < b /\ m \in Known /\ a \in Times
    BY RowTimes DEF Proper
  <1>2. d \in Nat /\ x \in Nat /\ y \in Nat /\ x < y /\ x \in Times
    BY DayBounds
  <1>3. m \in MeetingsForDay(d) <=> a < y /\ b >= x
    BY <1>1, <1>2, TouchesTimes DEF MeetingsForDay
  <1>4. \A t \in Times : t \in Nat /\ (t \div Day = d <=> x <= t /\ t < y)
    BY <1>2, DayBounds, InDay
  <1> HIDE DEF a, b, x, y
  <1>5. ASSUME a < y, b >= x, b # x
        PROVE  \E t \in Times : t \div Day = d /\ a <= t /\ t < b
    <2>1. CASE a <= x
      BY <1>1, <1>2, <1>4, <1>5, <2>1
    <2>2. CASE a > x
      BY <1>1, <1>2, <1>4, <1>5, <2>2
    <2> QED BY <1>1, <1>2, <2>1, <2>2
  <1>6. ASSUME NEW t \in Times, t \div Day = d, a <= t, t < b
        PROVE  a < y /\ b >= x
    BY <1>1, <1>2, <1>4, <1>6
  <1>7. b = x => a < y /\ b >= x
    BY <1>1, <1>2
  <1>8. (a < y /\ b >= x)
            <=> (\E t \in Times : t \div Day = d /\ a <= t /\ t < b) \/ b = x
    BY <1>5, <1>6, <1>7
  <1> QED BY <1>3, <1>8 DEF a, b, x

(* The jobs of the worker select what is due.                              *)
LEMMA JobsByTime == CalendarTypeOK => JobsTakeWhatIsDue
  <1> SUFFICES ASSUME CalendarTypeOK PROVE JobsTakeWhatIsDue
    OBVIOUS
  <1>1. now \in Nat
    BY DayBounds DEF CalendarTypeOK
  <1>2. ASSUME NEW m \in Known
        PROVE  /\ NotAfter(Iso(table[m].end), Iso(now)) <=> table[m].end <= now
               /\ NotAfter(Iso(table[m].start), Iso(now)) <=> table[m].start <= now
               /\ Before(Iso(now), Iso(table[m].end)) <=> ~(table[m].end <= now)
    <2>1. table[m].start \in Nat /\ table[m].end \in Nat
      BY RowTimes
    <2> QED BY <1>1, <2>1, IsoOrder DEF NotAfter
  <1>3. DueToEnd = {m \in Known : In(m, {"started"}) /\ table[m].end <= now}
    BY <1>2 DEF DueToEnd
  <1>4. Missed = {m \in Known : In(m, {"scheduled"}) /\ table[m].end <= now}
    BY <1>2 DEF Missed
  <1>5. DueToStart = {m \in Known : In(m, {"scheduled"}) /\ table[m].start <= now /\ ~(table[m].end <= now)}
    BY <1>2 DEF DueToStart
  <1> QED BY <1>3, <1>4, <1>5 DEF JobsTakeWhatIsDue

(* The list of a range is the lists of its days, and a meeting is in the   *)
(* list of exactly the days it has a part in, in any state of the table.   *)
THEOREM RangesCorrect == CalendarSpec => []RangeIsItsDays
  BY RangeOfDays, CalendarTypeCorrect, PTL

THEOREM DaysCorrect == CalendarSpec => []InItsDays
  <1>1. CalendarTypeOK => InItsDays
    BY PartOfDay DEF InItsDays
  <1> QED BY <1>1, CalendarTypeCorrect, PTL

(* The texts the worker compares pick the meetings that are due, for any   *)
(* fractions of a second in its clock and in the times of the meetings.    *)
THEOREM JobsCorrect == CalendarSpec => []JobsTakeWhatIsDue
  BY JobsByTime, CalendarTypeCorrect, PTL
----------------------------------------------------------------------------
(* The page changes the table as Calendar says: through its requests.      *)
LEMMA WriteIsChange ==
    ASSUME NEW m \in Meetings, NEW win \in Windows, NEW S \in SUBSET Endpoints,
           Writes(m, win[1], win[2], S)
    PROVE  CalendarNext
  <1>1. win[1] \in Times /\ win[2] \in Times
    BY PageAssumption
  <1>2. Change(m)
    BY <1>1 DEF Writes, Change
  <1> QED BY <1>2 DEF CalendarNext

LEMMA TableStep ==
    ASSUME PageTypeOK, [Next]_vars
    PROVE  [CalendarNext]_calendarVars
  <1>1. ASSUME NEW m \in Meetings, Delete(m) PROVE CalendarNext
    BY <1>1 DEF CalendarNext, Change
  <1>2. ASSUME NEW r \in Readers, PageWrites(r) PROVE CalendarNext
    <2>1. \A c \in list \ {None} : c.id \in Meetings
      BY DEF PageTypeOK, Cards
    <2> QED BY <1>1, <1>2, <2>1, WriteIsChange DEF PageWrites
  <1>3. CASE OthersWrite
    BY <1>1, <1>3, WriteIsChange DEF OthersWrite
  <1> QED
    BY <1>2, <1>3
    DEF Next, Serve, Select, Fetch, Arrive, ArriveDay, ArriveMonth, Fail, Poll, Users, PickDay,
        ClickMonth, ClickCalendar, ClickTimeline, ClickView, vars
----------------------------------------------------------------------------
(* Types of the page.                                                      *)
LEMMA CardTypes ==
    ASSUME CalendarTypeOK
    PROVE  \A m \in Known : Card(m) \in Cards /\ Card(m).id = m
  <1>1. ASSUME NEW m \in Known PROVE Card(m) \in Cards /\ Card(m).id = m
    <2>1. table[m].endpoints \in SUBSET Endpoints
      BY RowTimes DEF Row
    <2> QED BY <2>1, RowTimes DEF Card, Cards
  <1> QED BY <1>1

LEMMA CellIsADay == \A t \in Times : t \div Day \in Days
  <1> SUFFICES ASSUME NEW t \in Times PROVE t \div Day \in Days
    OBVIOUS
  <1> DEFINE q == t \div Day
  <1>1. t \in Nat /\ t < (LastDay + 1) * Day /\ Day \in Nat /\ LastDay \in Nat
    BY DayBounds
  <1>2. q \in Nat /\ q * Day <= t
    BY <1>1, DayNumber
  <1> HIDE DEF q
  <1>3. ASSUME q >= LastDay + 1 PROVE FALSE
    <2>1. (LastDay + 1) * Day <= q * Day
      BY <1>1, <1>2, <1>3, Product
    <2>2. (LastDay + 1) * Day \in Nat /\ q * Day \in Nat
      BY <1>1, <1>2, SMT
    <2> QED BY <1>1, <1>2, <2>1, <2>2
  <1>4. q \in Days
    BY <1>1, <1>2, <1>3 DEF Days
  <1> QED BY <1>4 DEF q

LEMMA AskedTypes ==
    ASSUME NEW what \in {"day", "month"}, NEW a \in Days, NEW b \in Days, NEW p \in Purposes
    PROVE  /\ Asked(what, a, b, p) \in Requests
           /\ Asked(what, a, b, p).at = "asked" /\ Asked(what, a, b, p).purpose = p
           /\ Asked(what, a, b, p).ids = {} /\ Asked(what, a, b, p).items = {}
  BY DEF Asked, Requests

(* A request that is under way.                                            *)
LEMMA UnderWay ==
    ASSUME PageTypeOK, NEW r \in Readers, reader[r].at # "free"
    PROVE  reader[r] \in Requests
  BY DEF PageTypeOK, Free

(* What may become of the request of a reader.                             *)
Goes(r) ==
    \/ \E what \in {"day", "month"}, a \in Days, b \in Days, p \in Purposes :
          reader' = [reader EXCEPT ![r] = Asked(what, a, b, p)]
    \/ Done(r)
    \/ Serve(r)

LEMMA ReaderStep ==
    ASSUME CalendarTypeOK, PageTypeOK, NEW r \in Readers, Goes(r)
    PROVE  \E q \in Requests \cup {Free} : reader' = [reader EXCEPT ![r] = q]
  <1>1. CASE Select(r)
    <2> DEFINE q == [reader[r] EXCEPT !.at = "reading",
                           !.ids = MeetingsForRange(reader[r].first, reader[r].last)]
    <2>1. reader[r] \in Requests
      BY <1>1, UnderWay DEF Select
    <2>2. MeetingsForRange(reader[r].first, reader[r].last) \in SUBSET Meetings
      BY DEF MeetingsForRange, Known
    <2>3. q \in Requests
      BY ONLY <2>1, <2>2 DEF Requests
    <2>4. reader' = [reader EXCEPT ![r] = q]
      BY <1>1 DEF Select, PageTypeOK
    <2> QED BY <2>3, <2>4
  <1>2. CASE Fetch(r)
    <2>1. PICK m \in reader[r].ids :
             reader' = [reader EXCEPT ![r].ids = @ \ {m},
                                ![r].items = @ \cup {IF m \in Known THEN Card(m) ELSE None}]
      BY <1>2 DEF Fetch
    <2> DEFINE c == IF m \in Known THEN Card(m) ELSE None
               q == [reader[r] EXCEPT !.ids = @ \ {m}, !.items = @ \cup {c}]
    <2>2. reader[r] \in Requests
      BY <1>2, UnderWay DEF Fetch
    <2>3. c \in Cards \cup {None}
      BY CardTypes
    <2>4. reader' = [reader EXCEPT ![r] = q]
      BY <2>1 DEF PageTypeOK
    <2> HIDE DEF c
    <2>5. q \in Requests
      BY ONLY <2>2, <2>3 DEF Requests
    <2> QED BY <2>4, <2>5
  <1>3. CASE Done(r)
    BY <1>3 DEF Done
  <1> QED BY <1>1, <1>2, <1>3, AskedTypes DEF Goes, Serve

(* What a step does to the page.                                           *)
OldList(L) == L = list \/ L = month \/ L = {}
NewList(L) == \E r \in Readers : reader[r].at = "reading" /\ L = reader[r].items
PageStep ==
    /\ OldList(list') \/ NewList(list')
    /\ OldList(month') \/ NewList(month')
    /\ selected' = selected \/ \E c \in (list \cup month) \ {None} : selected' = c.id
    /\ view' \in Views
    /\ picked' = picked \/ picked' \in Days
    /\ reader' = reader \/ \E r \in Readers : Goes(r)

LEMMA PageSteps ==
    ASSUME CalendarTypeOK, PageTypeOK, [Next]_vars
    PROVE  PageStep
  <1> USE DEF PageTypeOK
  <1>d. 0 \in Days /\ LastDay \in Days
    BY DayBounds DEF Days
  <1>1. \A r \in Readers : Serve(r) => PageStep
    BY DEF Serve, Select, Fetch, PageStep, OldList, Goes
  <1>2. \A r \in Readers : ArriveDay(r) => PageStep
    BY <1>d DEF ArriveDay, Answered, AskMonth, PageStep, OldList, NewList, Goes, Purposes, Views
  <1>3. \A r \in Readers : ArriveMonth(r) => PageStep
    BY DEF ArriveMonth, Answered, ViewAfterMonth, PageStep, OldList, NewList, Goes, Views
  <1>4. \A r \in Readers : Fail(r) => PageStep
    BY DEF Fail, ViewAfterMonth, PageStep, OldList, Goes, Views
  <1>5. \A r \in Readers : Poll(r) => PageStep
    BY DEF Poll, AskDay, PageStep, OldList, Goes, Purposes
  <1>6. \A r \in Readers, d \in Days : PickDay(r, d) => PageStep
    BY DEF PickDay, AskDay, PageStep, OldList, Goes, Purposes
  <1>7. \A r \in Readers : ClickMonth(r) => PageStep
    <2>1. \A c \in month \ {None} : CellOf(c) \in Days
      BY CellIsADay DEF Cards, CellOf
    <2> QED BY <2>1 DEF ClickMonth, AskDay, PageStep, OldList, Goes, Purposes
  <1>8. \A r \in Readers : ClickCalendar(r) => PageStep
    BY <1>d DEF ClickCalendar, AskMonth, PageStep, OldList, Goes, Purposes, Views
  <1>9. ClickTimeline \/ ClickView("month") \/ ClickView("list") => PageStep
    BY DEF ClickTimeline, ClickView, PageStep, OldList, Views
  <1>10. (\E r \in Readers : PageWrites(r)) \/ OthersWrite => PageStep
    BY DEF PageWrites, OthersWrite, AskDay, PageStep, OldList, Goes, Purposes
  <1>11. UNCHANGED vars => PageStep
    BY DEF vars, pageVars, PageStep, OldList
  <1> QED
    BY <1>1, <1>2, <1>3, <1>4, <1>5, <1>6, <1>7, <1>8, <1>9, <1>10, <1>11
    DEF Next, Users, Arrive

LEMMA CounterSteps ==
    ASSUME PageTypeOK, [Next]_vars
    PROVE  writes' \in 0..MaxWrites /\ clicks' \in 0..MaxClicks /\ failures' \in 0..MaxFailures
  <1> USE PageAssumption DEF PageTypeOK
  <1>1. ASSUME NEW r \in Readers, Serve(r) \/ Arrive(r) \/ Fail(r) \/ Poll(r)
        PROVE  writes' \in 0..MaxWrites /\ clicks' \in 0..MaxClicks /\ failures' \in 0..MaxFailures
    BY <1>1 DEF Serve, Select, Fetch, Arrive, ArriveDay, ArriveMonth, Fail, Poll
  <1>2. CASE Users
    BY <1>2 DEF Users, PickDay, ClickMonth, ClickCalendar, ClickTimeline, ClickView, PageWrites,
       Click, OneMoreWrite
  <1>3. CASE OthersWrite
    BY <1>3 DEF OthersWrite, OneMoreWrite
  <1>4. CASE UNCHANGED vars
    BY <1>4 DEF vars, pageVars
  <1> QED BY <1>1, <1>2, <1>3, <1>4 DEF Next

LEMMA PageTypesStep ==
    ASSUME CalendarTypeOK, PageTypeOK, [Next]_vars
    PROVE  PageTypeOK'
  <1>1. PageStep
    BY PageSteps
  <1>2. \A r \in Readers : reader[r].at = "reading" => reader[r].items \subseteq Cards \cup {None}
    BY UnderWay DEF Requests
  <1>3. list' \subseteq Cards \cup {None} /\ month' \subseteq Cards \cup {None}
    BY <1>1, <1>2 DEF PageStep, OldList, NewList, PageTypeOK
  <1>4. selected' \in Meetings \cup {None}
    <2>1. \A c \in (list \cup month) \ {None} : c.id \in Meetings
      BY DEF PageTypeOK, Cards
    <2> QED BY <1>1, <2>1 DEF PageStep, PageTypeOK
  <1>5. reader' \in [Readers -> Requests \cup {Free}]
    BY <1>1, ReaderStep DEF PageStep, PageTypeOK
  <1>6. picked' \in Days /\ view' \in Views
    BY <1>1 DEF PageStep, PageTypeOK
  <1> QED BY <1>3, <1>4, <1>5, <1>6, CounterSteps DEF PageTypeOK

(* The page sees the table change as Calendar says.                        *)
THEOREM PageRefinesCalendar == Spec => CalendarSpec
  <1>1. Init => CalendarTypeOK /\ PageTypeOK
    <2>1. 0 \in Days /\ 0 \in Times
      BY DayBounds DEF Days, Times
    <2> QED BY <2>1, PageAssumption
        DEF Init, CalendarInit, PageInit, CalendarTypeOK, PageTypeOK, Views
  <1>2. CalendarTypeOK /\ PageTypeOK /\ [Next]_vars => CalendarTypeOK' /\ PageTypeOK'
    <2>1. CalendarTypeOK /\ UNCHANGED calendarVars => CalendarTypeOK'
      BY DEF CalendarTypeOK, calendarVars
    <2> QED BY <2>1, TableStep, CalendarStep, PageTypesStep
  <1>3. PageTypeOK /\ [Next]_vars => [CalendarNext]_calendarVars
    BY TableStep
  <1> QED BY <1>1, <1>2, <1>3, PTL DEF Spec, Init, CalendarSpec

(* Type correctness of the page.                                           *)
THEOREM PageTypeCorrect == Spec => []PageTypeOK
  <1>1. Init => PageTypeOK
    <2>1. 0 \in Days
      BY DayBounds DEF Days
    <2> QED BY <2>1, PageAssumption DEF Init, PageInit, PageTypeOK, Views
  <1>2. CalendarTypeOK /\ PageTypeOK /\ [Next]_vars => PageTypeOK'
    BY PageTypesStep
  <1> QED BY <1>1, <1>2, PageRefinesCalendar, CalendarTypeCorrect, PTL DEF Spec
----------------------------------------------------------------------------
(* What is shown is or was there: of the lists, of the answers under way   *)
(* and of the selection.                                                   *)
Booked == Known \cup gone
Real(L) == (\A c \in L \ {None} : c.id \in Booked) /\ (None \in L => gone # {})
RealAnswers ==
    \A r \in Readers : reader[r].at # "free" => reader[r].ids \subseteq Booked /\ Real(reader[r].items)
RealPage == Real(list) /\ Real(month) /\ selected \in Booked \cup {None} /\ RealAnswers

(* A detail, or an answer that will open one, is of a meeting.             *)
NoDetail ==
    /\ view # "meeting"
    /\ \A r \in Readers : reader[r].at # "free" => reader[r].purpose # "select"
Detail == selected # None \/ NoDetail

(* What was booked stays booked or deleted.                                *)
LEMMA History ==
    ASSUME CalendarTypeOK, [CalendarNext]_calendarVars
    PROVE  Booked \subseteq Booked' /\ gone \subseteq gone'
  <1> USE DEF Booked, Known
  <1>1. ASSUME NEW m \in Meetings, Change(m) PROVE Booked \subseteq Booked' /\ gone \subseteq gone'
    <2>1. CASE Delete(m)
      BY <2>1, WriteStep DEF Delete
    <2>2. ASSUME NEW x, NEW y, NEW S, Create(m, x, y, S) \/ EditScheduled(m, x, y, S)
                 \/ Extend(m, y) \/ Assign(m, S)
          PROVE  gone' = gone
      BY <2>2 DEF Create, EditScheduled, Extend, Assign
    <2>3. CASE ~Delete(m)
      <3>1. gone' = gone
        BY <1>1, <2>2, <2>3 DEF Change
      <3>2. \E row : Write(m, row) /\ row # None
        <4>1. CASE m \in Known
          <5>1. table[m] \in Row
            BY <4>1, RowTimes
          <5>2. \A y \in Times, S \in SUBSET Endpoints :
                    /\ [table[m] EXCEPT !.end = y] \in Row
                    /\ [table[m] EXCEPT !.endpoints = S] \in Row
            BY <5>1 DEF Row
          <5>3. \A x, y, S : ~Create(m, x, y, S)
            BY <4>1 DEF Create
          <5>4. ASSUME NEW x \in Times, NEW y \in Times, NEW S \in SUBSET Endpoints,
                       EditScheduled(m, x, y, S)
                PROVE  \E row : Write(m, row) /\ row # None
            <6> DEFINE row == [table[m] EXCEPT !.start = x, !.end = y, !.endpoints = S]
            <6>1. row # None
              <7>1. row \in Row
                BY ONLY <5>1, x \in Times, y \in Times, S \in SUBSET Endpoints DEF Row
              <7> QED BY <7>1, RowAssumption
            <6>2. Write(m, row)
              BY <5>4 DEF EditScheduled
            <6> HIDE DEF row
            <6> QED BY <6>1, <6>2
          <5>5. ASSUME NEW y \in Times, Extend(m, y)
                PROVE  \E row : Write(m, row) /\ row # None
            BY <5>2, <5>5, RowAssumption DEF Extend
          <5>6. ASSUME NEW S \in SUBSET Endpoints, Assign(m, S)
                PROVE  \E row : Write(m, row) /\ row # None
            <6>1. 0 \in Times
              BY DayBounds DEF Days, Times
            <6> QED BY <5>2, <5>6, <6>1, RowAssumption DEF Assign
          <5> QED BY <1>1, <2>3, <5>3, <5>4, <5>5, <5>6 DEF Change
        <4>2. CASE m \notin Known
          <5>1. \A x \in Times, y \in Times, S \in SUBSET Endpoints :
                    [status |-> "scheduled", start |-> x, end |-> y, started |-> FALSE,
                     endpoints |-> S] \in Row
            BY DEF Row, Status
          <5> QED BY <1>1, <2>3, <4>2, <5>1, RowAssumption
                  DEF Change, Create, EditScheduled, Extend, Assign
        <4> QED BY <4>1, <4>2
      <3>3. \A n \in Known : table'[n] # None
        BY <3>2 DEF Write, CalendarTypeOK
      <3> QED BY <3>1, <3>3
    <2> QED BY <2>1, <2>3
  <1>2. ASSUME NEW m \in Meetings, WorkerMoves(m) PROVE Booked \subseteq Booked' /\ gone \subseteq gone'
    <2>1. table[m] \in Row /\ gone' = gone
      BY <1>2, RowTimes DEF WorkerMoves, Starting, Started, Ending, End, In, Move
    <2>2. PICK r1 : /\ Write(m, r1)
                    /\ \E s \in Status : \/ r1 = [table[m] EXCEPT !.status = s]
                                         \/ r1 = [table[m] EXCEPT !.status = s, !.started = TRUE]
      BY <1>2 DEF WorkerMoves, Starting, Started, Ending, End, Move, Status, Ended
    <2>3. r1 \in Row
      BY ONLY <2>1, <2>2 DEF Row
    <2>4. \A n \in Known : table'[n] # None
      BY <2>2, <2>3, RowAssumption DEF Write, CalendarTypeOK
    <2> QED BY <2>1, <2>4
  <1>3. CASE Pass \/ UNCHANGED calendarVars
    BY <1>3 DEF Pass, calendarVars
  <1> QED BY <1>1, <1>2, <1>3 DEF CalendarNext

LEMMA RealAnswersStep ==
    ASSUME CalendarTypeOK, PageTypeOK, RealPage, PageStep, PageTypeOK',
           Booked \subseteq Booked', gone \subseteq gone'
    PROVE  RealAnswers'
  <1> SUFFICES ASSUME NEW n \in Readers, reader'[n].at # "free"
               PROVE  /\ reader'[n].ids \subseteq Booked'
                      /\ \A c \in reader'[n].items \ {None} : c.id \in Booked'
                      /\ None \in reader'[n].items => gone' # {}
    BY DEF RealAnswers, Real
  <1>1. CASE reader'[n] = reader[n]
    BY <1>1 DEF RealPage, RealAnswers, Real
  <1>2. CASE reader'[n] # reader[n]
    <2>1. Goes(n)
      <3>1. ASSUME NEW r \in Readers, Goes(r), r # n PROVE reader'[n] = reader[n]
        BY <3>1, ReaderStep DEF PageTypeOK
      <3> QED BY <1>2, <3>1 DEF PageStep
    <2>2. ASSUME NEW what \in {"day", "month"}, NEW a \in Days, NEW b \in Days, NEW p \in Purposes,
                 reader' = [reader EXCEPT ![n] = Asked(what, a, b, p)]
          PROVE  reader'[n].ids = {} /\ reader'[n].items = {}
      BY <2>2, AskedTypes DEF PageTypeOK
    <2>3. ~Done(n)
      BY DEF Done, PageTypeOK, Free
    <2>4. CASE Select(n)
      <3>1. /\ reader[n] \in Requests
            /\ reader'[n] = [reader[n] EXCEPT !.at = "reading",
                                 !.ids = MeetingsForRange(reader[n].first, reader[n].last)]
        BY <2>4, UnderWay DEF Select, PageTypeOK
      <3>2. /\ reader'[n].ids = MeetingsForRange(reader[n].first, reader[n].last)
            /\ reader'[n].items = reader[n].items /\ reader[n].at # "free"
        BY <2>4, <3>1 DEF Select, Requests
      <3>3. MeetingsForRange(reader[n].first, reader[n].last) \subseteq Booked
        BY DEF MeetingsForRange, Booked
      <3> QED BY <3>2, <3>3 DEF RealPage, RealAnswers, Real
    <2>5. CASE Fetch(n)
      <3>1. PICK m \in reader[n].ids :
               reader' = [reader EXCEPT ![n].ids = @ \ {m},
                                  ![n].items = @ \cup {IF m \in Known THEN Card(m) ELSE None}]
        BY <2>5 DEF Fetch
      <3> DEFINE c == IF m \in Known THEN Card(m) ELSE None
      <3>2. reader[n] \in Requests /\ reader[n].at = "reading"
        BY <2>5, UnderWay DEF Fetch
      <3>3. reader'[n] = [reader[n] EXCEPT !.ids = @ \ {m}, !.items = @ \cup {c}]
        BY <3>1 DEF PageTypeOK
      <3>4. m \in Booked /\ (c # None => c.id \in Booked) /\ (c = None => gone # {})
        <4>1. m \in Booked
          BY <3>2 DEF RealPage, RealAnswers
        <4>2. CASE m \in Known
          BY <4>1, <4>2, CardTypes, PageAssumption DEF Cards
        <4>3. CASE m \notin Known
          BY <4>1, <4>3 DEF Booked
        <4> QED BY <4>1, <4>2, <4>3
      <3> HIDE DEF c
      <3>5. reader'[n].ids = reader[n].ids \ {m} /\ reader'[n].items = reader[n].items \cup {c}
        BY ONLY <3>2, <3>3 DEF Requests
      <3>6. reader[n].ids \subseteq Booked /\ Real(reader[n].items)
        BY <3>2 DEF RealPage, RealAnswers
      <3> QED BY <3>4, <3>5, <3>6 DEF Real
    <2> QED BY <2>1, <2>2, <2>3, <2>4, <2>5 DEF Goes, Serve
  <1> QED BY <1>1, <1>2

LEMMA RealStep ==
    ASSUME CalendarTypeOK, PageTypeOK, PageTypeOK', RealPage, [Next]_vars
    PROVE  RealPage'
  <1>1. PageStep
    BY PageSteps
  <1>2. Booked \subseteq Booked' /\ gone \subseteq gone'
    BY TableStep, History
  <1>3. \A L : OldList(L) \/ NewList(L) => Real(L)
    BY DEF OldList, NewList, RealPage, RealAnswers, Real
  <1>4. Real(list') /\ Real(month') /\ Real(list) /\ Real(month)
    BY <1>1, <1>3 DEF PageStep, RealPage
  <1>5. selected' \in Booked \cup {None}
    BY <1>1, <1>4 DEF PageStep, RealPage, Real
  <1> QED BY <1>1, <1>2, <1>4, <1>5, RealAnswersStep DEF RealPage, Real

LEMMA DetailStep ==
    ASSUME CalendarTypeOK, PageTypeOK, Detail, [Next]_vars
    PROVE  Detail'
  <1>1. \A c \in (list \cup month) \ {None} : c.id # None
    BY PageAssumption DEF PageTypeOK, Cards
  <1>2. PageStep
    BY PageSteps
  <1>3. CASE selected # None
    BY <1>1, <1>2, <1>3 DEF PageStep, Detail
  <1>4. CASE NoDetail
    <2> DEFINE Asks == \E r \in Readers, what \in {"day", "month"}, a \in Days, b \in Days,
                          p \in Purposes \ {"select"} :
                          reader' = [reader EXCEPT ![r] = Asked(what, a, b, p)]
               Keep == reader' = reader \/ \E r \in Readers : Done(r)
    <2>1. ASSUME Asks \/ Keep, view' # "meeting" PROVE Detail'
      <3>1. ASSUME NEW n \in Readers, reader'[n].at # "free"
            PROVE  reader'[n].purpose # "select"
        BY <1>4, <2>1, <3>1, AskedTypes DEF NoDetail, Done, Free, PageTypeOK
      <3> QED BY <2>1, <3>1 DEF Detail, NoDetail
    <2> HIDE DEF Asks, Keep
    <2>2. ASSUME NEW r \in Readers, Serve(r) PROVE Detail'
      <3>1. reader[r] \in Requests /\ view' = view
        BY <2>2, UnderWay DEF Serve, Select, Fetch
      <3>2. \E q : reader' = [reader EXCEPT ![r] = q] /\ q.purpose = reader[r].purpose
        <4>1. CASE Select(r)
          <5> DEFINE q == [reader[r] EXCEPT !.at = "reading",
                                 !.ids = MeetingsForRange(reader[r].first, reader[r].last)]
          <5>1. reader' = [reader EXCEPT ![r] = q]
            BY <4>1 DEF Select, PageTypeOK
          <5>2. q.purpose = reader[r].purpose
            BY <3>1 DEF Requests
          <5> QED BY <5>1, <5>2
        <4>2. CASE Fetch(r)
          <5>1. PICK m, c : reader' = [reader EXCEPT ![r].ids = @ \ {m}, ![r].items = @ \cup {c}]
            BY <4>2 DEF Fetch
          <5> DEFINE q == [reader[r] EXCEPT !.ids = @ \ {m}, !.items = @ \cup {c}]
          <5>2. reader' = [reader EXCEPT ![r] = q]
            BY <5>1 DEF PageTypeOK
          <5>3. q.purpose = reader[r].purpose
            BY <3>1 DEF Requests
          <5> QED BY <5>2, <5>3
        <4> QED BY <2>2, <4>1, <4>2 DEF Serve
      <3>3. reader[r].purpose # "select"
        BY <1>4, <2>2 DEF NoDetail, Serve, Select, Fetch
      <3> QED BY <1>4, <3>1, <3>2, <3>3 DEF Detail, NoDetail, PageTypeOK
    <2>3. ASSUME NEW r \in Readers, ArriveDay(r) PROVE Detail'
      <3>1. view' # "meeting"
        BY <1>4, <2>3 DEF NoDetail, ArriveDay, Answered
      <3>2. Asks \/ Keep
        BY <2>3, DayBounds DEF ArriveDay, AskMonth, Asks, Keep, Purposes, Days
      <3> QED BY <2>1, <3>1, <3>2
    <2>4. ASSUME NEW r \in Readers, ArriveMonth(r) \/ Fail(r) PROVE Detail'
      BY <1>4, <2>1, <2>4 DEF NoDetail, ArriveMonth, Fail, ViewAfterMonth, Keep
    <2>5. ASSUME NEW r \in Readers, Poll(r) \/ ClickCalendar(r) \/ PageWrites(r)
                 \/ \E d \in Days : PickDay(r, d)
          PROVE  Detail'
      <3>1. 0 \in Days /\ LastDay \in Days
        BY DayBounds DEF Days
      <3>2. Asks
        BY <2>5, <3>1 DEF Poll, ClickCalendar, PageWrites, PickDay, AskDay, AskMonth, Asks, Purposes,
           PageTypeOK
      <3>3. view' # "meeting"
        BY <1>4, <2>5 DEF NoDetail, Poll, ClickCalendar, PageWrites, PickDay
      <3> QED BY <2>1, <3>2, <3>3
    <2>6. ASSUME NEW r \in Readers, ClickMonth(r) PROVE Detail'
      BY <1>1, <2>6 DEF ClickMonth, Detail
    <2>7. CASE ClickTimeline
      BY <1>1, <2>7 DEF ClickTimeline, Detail
    <2>8. CASE ClickView("month") \/ ClickView("list") \/ OthersWrite \/ UNCHANGED vars
      BY <1>4, <2>1, <2>8 DEF ClickView, OthersWrite, vars, pageVars, NoDetail, Keep
    <2> QED BY <2>2, <2>3, <2>4, <2>5, <2>6, <2>7, <2>8 DEF Next, Users, Arrive
  <1> QED BY <1>3, <1>4 DEF Detail

(* However answers and deletions overtake each other, the page shows no    *)
(* meeting that never was.                                                 *)
THEOREM PageShowsRealMeetings == Spec => []OnlyRealMeetings
  <1>1. Init => RealPage /\ Detail
    BY DEF Init, CalendarInit, PageInit, RealPage, Real, RealAnswers, Free, Detail, NoDetail
  <1>2. CalendarTypeOK /\ PageTypeOK /\ PageTypeOK' /\ RealPage /\ Detail /\ [Next]_vars
            => RealPage' /\ Detail'
    BY RealStep, DetailStep
  <1>3. RealPage /\ Detail => OnlyRealMeetings
    BY DEF RealPage, Real, Detail, NoDetail, OnlyRealMeetings, Booked
  <1> QED BY <1>1, <1>2, <1>3, PageRefinesCalendar, CalendarTypeCorrect, PageTypeCorrect, PTL
      DEF Spec
=============================================================================
