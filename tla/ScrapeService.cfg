SPECIFICATION FairSpec
CONSTANTS
    Clients = {p1, p2}
    Timeout = 1
    Grace = 3
    MaxRequests = 2
    MaxEvents = 1
INVARIANTS
    TypeOK
    FailureVisible
    ObservationsWithinEvents
    MutexHeldBounded
    OwedAnswered
PROPERTIES
    RequestsAnswered
