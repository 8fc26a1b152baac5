SPECIFICATION CalendarSpec
CONSTANTS
    m1 = m1
    e1 = e1
    None = None
    Meetings = {m1}
    Endpoints = {e1}
    Second = 2
    Day = 4
    LastDay = 2
    AboutToStart = 1
INVARIANTS
    RangeIsItsDays
    InItsDays
    JobsTakeWhatIsDue
PROPERTIES
    LabelMovesForward
CHECK_DEADLOCK FALSE
