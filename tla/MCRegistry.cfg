\* Well-formed files with every sidecar over four OIDs and every manifest, and
\* files refused for each reason.
SPECIFICATION Spec
CHECK_DEADLOCK FALSE
CONSTANTS
    Missing = Missing
    Malformed = Malformed
    Unreadable = Unreadable
    Disks <- MCDisks
    Files = {1, 2, 3}
    Oid <- MCOid
    Integer = {1, 2, 3}
INVARIANTS
    RoundTrip
    ClosestNode
    LoadedWhole
    LabelOfShownNode
