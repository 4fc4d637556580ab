\* Three rows, two kills and one failed call, under fairness.
SPECIFICATION FairSpec
CONSTANTS
    MaxRow = 3
    MaxId = 3
    Strings = {"a", "b"}
    Uses <- MCUses
    NoWindow = NoWindow
    Budget <- FairBudget
PROPERTY EventuallySealed
\* The collector stops for good when open refuses the journal, and the rows of
\* the instance run out.
CHECK_DEADLOCK FALSE
