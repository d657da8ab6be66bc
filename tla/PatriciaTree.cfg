SPECIFICATION Spec
CONSTANTS
    Height = 2
    Value = {0, 1}
    MaxMods = 4
    MayFail = TRUE
    USIZE_BITS = 2
INVARIANTS
    StoredFactsWellFormed
    TreeStaysReadable
    FrontierSplitsTree
CHECK_DEADLOCK FALSE
