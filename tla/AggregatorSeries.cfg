SPECIFICATION Spec
CONSTANTS
    Channels = {c1, c2}
    NoChannel = NoChannel
    Scrapers = {s1}
    MinCall = 1
    TTL = 1
    PerChannel = TRUE
    MaxTime = 3
    MaxHangups = 2
INVARIANT SeriesOnlyOfActive
