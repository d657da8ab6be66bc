SPECIFICATION FairSpec
CONSTANTS
    CallInfo <- MCCallInfo
    Transactions <- MCTransactions
    Address <- MCAddress
    Value <- MCValue
    Ptr = {p1}
    None = None
    Blocks <- MCBlocks
INVARIANTS
    TypeOK
    NeverAborts
    ReplaysTheRunningCall
    AnswersMatchQuestions
PROPERTY ReplayCompletes
