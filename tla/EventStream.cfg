SPECIFICATION FairSpec
CONSTANTS
    BaseBackoff = 1
    MaxBackoff = 6
    MaxFaults = 4
    MaxEvents = 2
INVARIANTS
    TypeOK
    UpTracksSession
    PanicOnlyAtShutdown
    BackoffFollowsReconnects
    EventConservation
    AtMostOneLateEvent
    NothingLeftOpen
PROPERTIES
    ImplementsSession
    ShutdownCompletes
    KeepsReconnecting
