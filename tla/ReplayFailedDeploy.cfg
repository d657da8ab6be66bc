SPECIFICATION FairSpec
CONSTANTS
    CallInfo <- FailedDeployCallInfo
    Transactions <- FailedDeployTransactions
    Address <- MCAddress
    Value <- MCValue
    Ptr = {p1}
    None = None
    Blocks <- FailedDeployBlocks
INVARIANT NeverAborts
