SPECIFICATION TimeSpec
CONSTANTS
    UsPerMs = 2
    MsPerSec = 2
    SecWrap = 2
    Horizon = 2
    Base = 3
    WordBytes = 2
    Durations <- MCDurations
INVARIANTS
    TimeTypeOK
    ReadingsCoherent
PROPERTIES
    NeverEarly
    SleepEndsBeforeWrap
