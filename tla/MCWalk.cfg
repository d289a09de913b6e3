\* Both kinds of walk, against a V2cResponder whose objects change and
\* against a device that answers anything.
SPECIFICATION FairSpec
CONSTANTS
    Oid <- MCOid
    Value <- MCValue
    Root <- MCRoot
    MaxRepetitions = 2
    MaxAnswers = 2
    MaxVarbinds = 3
    MaxChanges = 2
    Batches <- MCBatches
INVARIANTS
    TypeOK
    SourceConsistent
    RowsIncrease
    StableObjectsFound
    RowsWereHeld
    ReadingsIncrease
    BulkCoversTable
PROPERTIES
    WalkEnds
