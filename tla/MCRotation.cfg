\* Three segments of two bytes, room for two of them with an index, two faults or one.
SPECIFICATION FairSpec
CONSTANTS
    MaxSegment = 3
    ZmsSize = 2
    IdxSize = 1
    TempSize = 1
    MaxJournal = 1
    MaxOthers = 1
    Target = 4
    Modes <- Both
    Budget <- Faults
INVARIANTS
    TypeOK
    NewestHistoryKept
PROPERTIES
    LiveSegmentKeepsIndex
    NoNeedlessRemoval
    ReturnsToTarget
