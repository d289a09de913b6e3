\* A notification that omits its first declared member.
SPECIFICATION Spec
CONSTANTS
    Notifiers <- MCNotifiers
    Listeners <- MCListeners
    Engines <- MCEngines
    OwnEngine <- MCOwnEngine
    Contents <- OmitsMember
    Members <- MCMembers
    Cuts <- MCCuts
    MaxCalls = 1
CHECK_DEADLOCK FALSE
INVARIANTS
    MembersMatch
