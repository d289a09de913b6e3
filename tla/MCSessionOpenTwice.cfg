\* Two owners open a session whose model discovers on open.
SPECIFICATION Spec
CONSTANTS
    o = o
    p = p
    r = r
    NoTask = NoTask
    Tasks <- TwoTasks
    Owners <- TwoOwners
    Retries = 0
    PrepareOnOpen = TRUE
    PrepareOnUse = FALSE
    MaxCalls = 1
    MaxDatagrams = 1
INVARIANTS
    OpenIsIdempotent
