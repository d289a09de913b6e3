\* Two serving tasks, two transports, two datagrams.
SPECIFICATION FairSpec
CONSTANTS
    a = a
    b = b
    NoTask = NoTask
    Consumers <- TwoConsumers
    MaxOpens = 2
    MaxDatagrams = 2
    MaxCount = 2
INVARIANTS
    TypeOK
    AnsweredInOrder
PROPERTIES
    AnsweredOnItsTransport
    CloseIsNotAnError
    LoneLoopStops
