\* Every notifier with every listener; two calls and one change of engine.
SPECIFICATION Spec
CONSTANTS
    Notifiers <- MCNotifiers
    Listeners <- MCListeners
    Engines <- MCEngines
    OwnEngine <- MCOwnEngine
    Contents <- MCContents
    Members <- MCMembers
    Cuts <- MCCuts
    MaxCalls = 2
CHECK_DEADLOCK FALSE
INVARIANTS
    TypeOK
    AckedWasDelivered
    EventsAsSent
    CompleteBindings
    PartnersUnderstand
