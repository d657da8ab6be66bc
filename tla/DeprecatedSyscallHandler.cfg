SPECIFICATION Spec
CONSTANTS
    Offered = {"CallContract", "LibraryCall", "LibraryCallL1Handler",
               "Deploy", "StorageRead",
               "StorageWrite", "EmitEvent", "SendMessageToL1", "ReplaceClass",
               "GetBlockNumber", "GetBlockTimestamp", "GetCallerAddress",
               "GetContractAddress", "GetSequencerAddress", "GetTxInfo",
               "GetTxSignature"}
    MaxSyscalls = 2
    MaxInner = 1
    MaxDepth = 3
    MaxTxs = 2
INVARIANTS
    NothingIsRefused
    AnswersInStep
    TemporarySegmentsMoved
