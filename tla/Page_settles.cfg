SPECIFICATION FairSpec
CONSTANTS
    m1 = m1
    m2 = m2
    e1 = e1
    r1 = r1
    r2 = r2
    None = None
    Meetings = {m1}
    Endpoints = {}
    Second = 1
    Day = 2
    LastDay = 1
    AboutToStart = 1
    MaxWrites = 2
    Readers = {r1, r2}
    Windows <- TwoDays
    MaxClicks = 2
    MaxFailures = 1
INVARIANTS
    OnlyRealMeetings
PROPERTIES
    PageSettles
    GoneIsLeft
