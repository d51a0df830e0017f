SPECIFICATION Spec
CONSTANTS
    Addr <- MCAddr
    Coinbase = "z"
    Tx <- ChainTx
    Garbage = Garbage
    IntrinsicGas = 1
    GasLimit = 5
    Blocks <- ChainBlocks
    Alloc <- MCAlloc
    PoolTxs <- NoTx
    Nothing = Nothing
    MaxDeliveries = 3
    MaxCrashes = 1
    MaxFaults = 1
CHECK_DEADLOCK FALSE
INVARIANTS TypeOK RootLoadable AppliedAtMostOnce VisibleIsDurable CompletedBlockRecorded SupplyBounded IInv
PROPERTIES ReceiptStable RefinesTxLedger
