\* The release gate over two revisions of the source, two validations in one
\* work directory or in two, and every tsnmp command line.
SPECIFICATION FairSpec
CHECK_DEADLOCK FALSE
CONSTANTS
    MaxRevision = 2
    MaxRuns = 2
    MaxEvents = 2
    Argvs <- MCArgvs
INVARIANTS
    GateTestedItsBuild
    VenvAsReported
    FreshArtifacts
    DidAsAsked
PROPERTIES
    ValidationEnds
