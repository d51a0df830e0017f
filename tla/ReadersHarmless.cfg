SPECIFICATION Spec
CONSTANTS
    Addr <- MCAddr
    Coinbase = "z"
    Tx <- MCTx
    Garbage = Garbage
    IntrinsicGas = 1
    GasLimit = 10
    Start <- MCStart
    Blocks <- TwoBlocks
    Handler = "h"
    Web3 <- OneCall
    Unset = Unset
INVARIANTS TypeOK ShownWasCommitted OnlyStoresHarm
