SPECIFICATION Spec
CONSTANTS
    Contract = {"account", "token", "new"}
    FeeToken = "token"
    Sierra = {"k1", "k2"}
    Legacy = {"k0", "k3"}
    WithConstructor = {"k0", "k2"}
    OldClasses = {"k0", "k1"}
    NewContracts = {"new"}
    MaxTxs = 2
    MaxLong = 3
    LongKinds <- MCLongKinds
INVARIANTS
    OneTransaction
    ClassesAreFound
    DeclarationsFindZero
    DeploysAreAnswered
    OsReachesTheBlock
