SPECIFICATION SpecInputs
CONSTANTS
    Names = {ext, bad}
    Invalid = {bad}
    Numeric = {ext}
    Ids = {i1, i2}
    MaxRows = 3
    Keys = {k1}
    Values = {v1, v2}
    MaxLines = 5
    Numbers <- BoundaryNumbers
    Measures = {"jitter", "loss", "rtt", "packets"}
    MaxHeaders = 2
    MaxArgs = 2
INVARIANTS
    TypeOKInputs
    SeriesUnique
    GroupsAgree
    CallsCountedOnce
    FramesIntact
    SampleFaithful
    StartsAsConfigured
