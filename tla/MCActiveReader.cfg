\* Two segments of up to two windows, of one or two cells, and one failure.
SPECIFICATION Spec
CONSTANTS
    MaxWindow = 4
    MaxId = 2
    MaxParts = 2
    Lens = {1, 2}
    Budget = 1
INVARIANTS
    ListingIsExact
    ReadsCapturedPart
