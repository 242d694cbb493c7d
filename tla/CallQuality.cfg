SPECIFICATION SpecCalls
CONSTANTS
    Channels = {c1}
    NoChannel = NoChannel
    Scrapers = {s1}
    MinCall = 1
    TTL = 1
    PerChannel = FALSE
    MaxTime = 2
    MaxHangups = 3
    MaxCalls = 3
    MaxMessages = 4
    MaxReconnects = 1
INVARIANTS
    TypeOKCalls
    ErrorsAreSpoiltCalls
