SPECIFICATION Spec
CONSTANTS
    Addr <- MCAddr
    Coinbase = "z"
    Tx <- OneTx
    Garbage = Garbage
    IntrinsicGas = 1
    GasLimit = 5
    Blocks <- OneBlock
    Alloc <- MCAlloc
    PoolTxs <- NoTx
    Nothing = Nothing
    MaxDeliveries = 1
    MaxCrashes = 1
    MaxFaults = 0
CHECK_DEADLOCK FALSE
INVARIANT AppliedHasReceipt
