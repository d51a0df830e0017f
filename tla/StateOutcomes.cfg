SPECIFICATION Spec
CONSTANTS
    Addr <- MCAddr
    Coinbase = "z"
    Tx <- MixTx
    Garbage = Garbage
    IntrinsicGas = 1
    GasLimit = 5
    Blocks <- MixBlocks
    Alloc <- MCAlloc
    PoolTxs <- OneTx
    Nothing = Nothing
    MaxDeliveries = 3
    MaxCrashes = 0
    MaxFaults = 2
CHECK_DEADLOCK FALSE
INVARIANTS AppliedHasReceipt CompletedBlockRecorded SupplyBounded SettledBlockAnswered
