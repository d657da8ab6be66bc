SPECIFICATION Spec
CONSTANTS
    Offered = {"DelegateCall", "CallContract", "StorageRead"}
    MaxSyscalls = 2
    MaxInner = 1
    MaxDepth = 2
    MaxTxs = 1
INVARIANTS
    AnswersInStep
