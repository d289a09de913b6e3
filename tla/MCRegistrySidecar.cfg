\* A sidecar entry that names a node with another OID.
SPECIFICATION Spec
CHECK_DEADLOCK FALSE
CONSTANTS
    Missing = Missing
    Malformed = Malformed
    Unreadable = Unreadable
    Disks <- StaleDisks
    Files = {1}
    Oid <- MCOid
    Integer = {1}
INVARIANTS
    SidecarOnlyAccelerates
