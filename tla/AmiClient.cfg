SPECIFICATION FairSpec
CONSTANTS
    Timeout = 1
    MaxCalls = 3
    MaxItems = 2
    MaxNoise = 1
INVARIANTS
    TypeOK
    ListReturnsOwnAnswer
    QuietCallsFaithful
    TornNeverRead
PROPERTIES
    CallsReturn
