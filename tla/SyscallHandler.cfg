SPECIFICATION Spec
CONSTANTS
    MaxSyscalls = 3
    MaxEntryPoints = 2
    InitialGas = 100000000
    GasModulus = 1073741824
    ShortOfGas = {"GetExecutionInfo"}
INVARIANTS
    TypeOK
    PointersInStep
    AbortsOnlyOnRefusal
    HandlesKeepTheirMeaning
    ShaBlocksTile
PROPERTY GasOnlySpent
CHECK_DEADLOCK FALSE
