\* V2c: two owners, three tasks, a peer that answers late, twice or wrongly.
SPECIFICATION Spec
CONSTANTS
    o = o
    p = p
    r = r
    NoTask = NoTask
    Tasks <- ThreeTasks
    Owners <- TwoOwners
    Retries = 1
    PrepareOnOpen = FALSE
    PrepareOnUse = FALSE
    MaxCalls = 2
    MaxDatagrams = 2
SYMMETRY Symmetry
INVARIANTS
    TypeOK
    LockDiscipline
    OutstandingIsNewest
    AnswersAreOwn
PROPERTIES
    OnlyOverlapsLoseSockets
