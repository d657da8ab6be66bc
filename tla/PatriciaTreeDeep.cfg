SPECIFICATION Spec
CONSTANTS
    Height = 3
    Value = {0, 1}
    MaxMods = 2
    MayFail = FALSE
    USIZE_BITS = 2
INVARIANTS
    RootIsCanonical
    LeavesAreRead
PROPERTIES
    UpdateReturnsItsFacts
    DiffFindsChanges
CHECK_DEADLOCK FALSE
