SPECIFICATION Spec
CONSTANTS
    Names = {ext, bad}
    Invalid = {bad}
    Numeric = {ext}
    Ids = {i1, i2}
    MaxRows = 3
INVARIANT
    NeverPanics
