SPECIFICATION Spec
CONSTANTS
    c1 = c1
    c2 = c2
    bh = bh
    PreviousTrees <- MCPreviousTrees
    Address = {c1, c2, bh}
    Tracked = {c1, bh}
    BlockHashContract = bh
    Key = {1, 2}
    Value = {0, 1}
    Zero = 0
    OldBlock = 1
    OldHash = 1
    RpcBacked = FALSE
    MaxSyscalls = 3
    None = None
INVARIANTS
    TypeOK
    HintsAgreeWithExecution
    DictsAreTheStateDiff
    BlockHashAnswersStayValid
    CommitmentsMatchExecution
PROPERTY ImplementsMap
CHECK_DEADLOCK FALSE
