\* Three lines, two files under two names, two faults; a batch holds one record
\* and less than two lines, a cycle two batches.
SPECIFICATION FairSpec
CONSTANTS
    MaxLine = 3
    MaxFile = 2
    MaxName = 2
    Heads <- MCHeads
    Odd <- MCOdd
    Unparsed <- MCUnparsed
    MaxRecords = 1
    RawLimit = 3
    SourceLimit = 6
    Budget = 2
INVARIANTS
    TypeOK
    NothingSkipped
    RecordedOnceInOrder
    RecordsAreWhole
PROPERTIES
    EventuallyRecorded
\* The lines, files and faults of the instance run out, but cycles go on.
