SPECIFICATION Spec
CONSTANTS
    m1 = m1
    m2 = m2
    a1 = a1
    a2 = a2
    t1 = t1
    None = None
    MeetingIds = {m1}
    Aliases = {a1}
    Threads = {t1}
    MaxTime = 3
    MaxRows = 1
    MaxFaults = 1
    CalmFrom = 2
    MaxLegs = 1
    RecoveryMinutes = 1
    Requests <- RequestKinds
    Slots <- Slot02
    Minutes <- Minutes1
INVARIANTS
    TypeOK
    OwnsClaim
    TimesInOrder
PROPERTIES
    LifecycleSpec
    NeverDialedTwice
