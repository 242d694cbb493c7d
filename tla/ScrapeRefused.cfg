SPECIFICATION SpecScrape
CONSTANTS
    Timeout = 1
    MaxCalls = 8
    MaxItems = 1
    MaxNoise = 1
    Disabled = {"sip_peers"}
INVARIANT UpMeansAccepted
