SPECIFICATION FairSpec
CONSTANTS
    Channels = {c1, c2}
    NoChannel = NoChannel
    Scrapers = {s1}
    MinCall = 1
    TTL = 1
    PerChannel = FALSE
    MaxTime = 3
    MaxHangups = 1
INVARIANTS
    TypeOK
    EntryTellsCall
    VerdictErrorBounded
PROPERTIES
    ForgetsOnlyIdle
    IdleForgotten
