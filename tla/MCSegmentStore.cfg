\* Three rows, three identities, two kills, two power losses, two failed calls
\* and one step back of the clock.
SPECIFICATION Spec
CONSTANTS
    MaxRow = 3
    MaxId = 3
    Strings = {"a", "b"}
    Uses <- MCUses
    NoWindow = NoWindow
    Budget <- MCBudget
INVARIANTS
    TypeOK
    NoWindowLost
    ExactlyOnce
    SelfContained
    FlagsTruthful
    SegmentMatchesJournal
    RecoveryFindsItsOwnSegment
PROPERTIES
    PublishedNeverChanges
\* The collector stops for good when open refuses the journal, and the rows of
\* the instance run out.
CHECK_DEADLOCK FALSE
