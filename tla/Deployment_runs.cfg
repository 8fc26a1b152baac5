SPECIFICATION FairSpec
CONSTANTS
    Interval = 2
    Stale = 6
    CallTime = 4
    RestartSec = 2
    StopTime = 18
    SleepTime = 1
    Never = Never
    MaxCalls = 6
    MaxLong = 1
    MaxCrashes = 2
    MaxUpgrades = 2
INVARIANTS
    TypeOK
    OneWholeVersion
    DeadIsNoticed
    CompleteMeansNew
PROPERTIES
    HealthRecovers
