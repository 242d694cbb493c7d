SPECIFICATION Spec
CONSTANTS
    BaseBackoff = 1
    MaxBackoff = 6
    MaxFaults = 4
    MaxEvents = 2
INVARIANT ReturnsCleanly
