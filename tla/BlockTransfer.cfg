SPECIFICATION Spec
CONSTANTS
    v1 = v1
    v2 = v2
    Versions = {v1, v2}
    Length <- MCLength
    Sizes = {1, 2}
    MaxUnits = 4
    MaxBlocks = 3
    MaxPackets = 4
    Timeout = 1
    Total = 4
    Upsets = 2
    None = None
INVARIANTS
    WholeBody
    BoundedAndContiguous
    FailsForAReason
CHECK_DEADLOCK FALSE
