CONSTANTS
    None = None
    Paths = {1, 2, 3}
    Logical <- AcrossDirectories
    Contents <- AllContents
    Needles = {"needle", "old needle", "long needle"}
    Oversized = {"long needle"}
    Limits = {1, 2}
    InitStores <- MCStores
    MaxPages = 8
    MaxWrites = 1
    MaxTimeouts = 1
SPECIFICATION Spec
INVARIANTS
    TypeOK
    Exhaustive
    PagesFit
    CompleteIsCommitted
CHECK_DEADLOCK FALSE
