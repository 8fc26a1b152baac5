SPECIFICATION FairSpec
CONSTANTS
    m1 = m1
    m2 = m2
    a1 = a1
    a2 = a2
    t1 = t1
    None = None
    MeetingIds = {m1}
    Aliases = {a1, a2}
    Threads = {t1}
    MaxTime = 3
    MaxRows = 1
    MaxFaults = 1
    CalmFrom = 1
    MaxLegs = 1
    RecoveryMinutes = 0
    Requests = {"extend", "delete"}
    Slots <- Slot02
    Minutes <- Later
PROPERTIES
    EveryMeetingFinishes
    ShownSpec
INVARIANTS
    EndedIsQuiet
    StartedMeansDialed
