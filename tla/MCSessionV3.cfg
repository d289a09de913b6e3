\* V3Notifier without a local engine: discovery in open(), and on an inform
\* sent before open() has its answer.
SPECIFICATION FairSpec
CONSTANTS
    o = o
    p = p
    r = r
    NoTask = NoTask
    Tasks <- TwoTasks
    Owners <- OneOwner
    Retries = 1
    PrepareOnOpen = TRUE
    PrepareOnUse = TRUE
    MaxCalls = 3
    MaxDatagrams = 2
INVARIANTS
    SocketsAccountedFor
    EngineKnown
PROPERTIES
    ImplementsExchange
    CallsReturn
