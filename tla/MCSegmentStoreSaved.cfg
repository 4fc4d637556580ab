SPECIFICATION Spec
CONSTANTS
    MaxRow = 3
    MaxId = 3
    Strings = {"a", "b"}
    Uses <- MCUses
    NoWindow = NoWindow
    Budget <- MCBudget
INVARIANT
    RecoveredJournalIsSaved
CHECK_DEADLOCK FALSE
