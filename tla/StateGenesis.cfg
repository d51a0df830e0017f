SPECIFICATION Spec
CONSTANTS
    Addr <- MCAddr
    Coinbase = "z"
    Tx <- FreeTx
    Garbage = Garbage
    IntrinsicGas = 1
    GasLimit = 5
    Blocks <- FreeBlock
    Alloc <- MCAlloc
    PoolTxs <- NoTx
    Nothing = Nothing
    MaxDeliveries = 1
    MaxCrashes = 0
    MaxFaults = 0
CHECK_DEADLOCK FALSE
INVARIANT GenesisHonoured
