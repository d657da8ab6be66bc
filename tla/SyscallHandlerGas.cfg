SPECIFICATION Spec
CONSTANTS
    MaxSyscalls = 2
    MaxEntryPoints = 1
    InitialGas = 100000000
    GasModulus = 1073741824
    ShortOfGas = {"CallContract", "Deploy", "GetBlockHash", "StorageRead", "Keccak"}
INVARIANT OutOfGasAnswered
CHECK_DEADLOCK FALSE
