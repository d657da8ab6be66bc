SPECIFICATION Spec
CONSTANTS
    c1 = c1
    c2 = c2
    bh = bh
    PreviousTrees <- MCPreviousTrees
    Address = {c1, c2, bh}
    Tracked = {c1, bh}
    BlockHashContract = bh
    Key = {1, 2}
    Value = {0, 1}
    Zero = 0
    OldBlock = 1
    OldHash = 1
    RpcBacked = TRUE
    MaxSyscalls = 4
    None = None
INVARIANTS
    HintsAgreeWithExecution
    DictsAreTheStateDiff
    BlockHashAnswersStayValid
PROPERTY ImplementsMap
CHECK_DEADLOCK FALSE
